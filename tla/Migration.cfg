SPECIFICATION Spec
CHECK_DEADLOCK FALSE
CONSTANTS
    s1 = s1
    s2 = s2
    home = home
    forum = forum
    hall = hall
    group = group
    t1 = t1
    t2 = t2
    None = None
    Handler = Handler
    Sender = Sender
    Slaves <- Remote
    Chats <- Groups
    Forums <- WithTopics
    TopicGroup = home
    Threads <- Callers
    Multiple = FALSE
    Plans <- ErrorPlans
    MaxTopics = 4
    MaxTroubles = 1
    MaxUpdates = 3
PROPERTY
    MigrationKeepsLinks
