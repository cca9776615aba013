SPECIFICATION FairSpec
CONSTANTS
    s1 = s1
    s2 = s2
    Sockets <- MCSockets
    Clients <- MCSockets
    Names = {1}
    Channels <- MCChannels
    MaxHandlers = 2
    MaxPublish = 1
INVARIANT NothingLost
PROPERTY NoLeak EventuallyForwarded
CHECK_DEADLOCK FALSE
