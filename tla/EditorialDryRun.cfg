\* Sending to the channel is switched off; two posts; getUpdates may raise.
CONSTANTS
    Poller = Poller
    Posts = {p1, p2}
    Users = {owner}
    Owner = owner
    Actions = {"publish", "reject", "image"}
    Requests <- AllRequests
    Subjects = {"other"}
    ImageSizes = {20000}
    AutoPublishGreen = TRUE
    ChannelSendEnabled = FALSE
    CallsMayFail = FALSE
    FetchMayFail = TRUE
    MaxPresses = 2
    MaxCrashes = 0
\* The polling task may be dead and every bound used up.
CHECK_DEADLOCK FALSE
SPECIFICATION Spec
INVARIANT NothingOrphaned
