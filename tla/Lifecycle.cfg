\* Two nodes that are friends, one user, a queue of one message, and a failure or
\* Ctrl-C for two processes.
CONSTANTS
    NODES = 2
    USERS = 1
    Friends = 1
    FCap = 1
    MaxDisturbed = 2
SPECIFICATION FairLifeSpec
INVARIANTS TypeOK RegisteredFirst FriendsFirst ClockAfterFriends StatusTrue EveryChildTold
PROPERTIES FriendsArrive EndsUnlessAsleep
CHECK_DEADLOCK FALSE
