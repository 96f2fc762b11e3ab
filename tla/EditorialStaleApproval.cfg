\* Nothing fails; the owner presses a button of an older keyboard.
CONSTANTS
    Poller = Poller
    Posts = {p1}
    Users = {owner}
    Owner = owner
    Actions = {"publish", "rewrite"}
    Requests <- Guides
    Subjects = {"other"}
    ImageSizes = {20000}
    AutoPublishGreen = FALSE
    ChannelSendEnabled = TRUE
    CallsMayFail = FALSE
    FetchMayFail = FALSE
    MaxPresses = 2
    MaxCrashes = 0
SPECIFICATION Spec
INVARIANT OnlyApprovedVersions
