\* The user starts while the nodes wait for their friends.
CONSTANTS
    NODES = 3
    USERS = 1
    Friends = 2
    FCap = 1
    MaxDisturbed = 2
SPECIFICATION LifeSpec
INVARIANT UsersAfterFriends
CHECK_DEADLOCK FALSE
