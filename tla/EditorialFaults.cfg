\* Calls fail and the process restarts once, automatic publication is on;
\* getUpdates itself does not raise.
CONSTANTS
    Poller = Poller
    Posts = {p1}
    Users = {owner, stranger}
    Owner = owner
    Actions = {"publish", "reject", "rewrite", "unknown"}
    Requests <- GuideCaseOrPhotograph
    Subjects = {"other"}
    ImageSizes = {500, 20000}
    AutoPublishGreen = TRUE
    ChannelSendEnabled = TRUE
    CallsMayFail = TRUE
    FetchMayFail = FALSE
    MaxPresses = 2
    MaxCrashes = 1
SPECIFICATION FairSpec
INVARIANT GateRespected
INVARIANT PublishedIsDelivered
INVARIANT AckedHandled
INVARIANT CopiesBounded
INVARIANT LatestPressWins
PROPERTY OwnerDecides
PROPERTY GateSpec
PROPERTY EveryPressHandled
PROPERTY PublishingResolves
