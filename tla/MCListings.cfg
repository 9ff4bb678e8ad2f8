\* One client walks three listings, two pages or more each, while all of them change.
SPECIFICATION ListingsSpec
CONSTANTS
    None = None
    Rels = {1, 2, 3, 4}
    Fact <- Facts
    Registered = {"p"}
    Product = "p"
    Scenes <- OneListing
    Slugs = {1, 2, 3, 4}
    Items = {1, 2, 3}
    Created <- WhenCreated
    Priorities = {1, 2}
    Plans = {"anonymous", "professional"}
    Channels = {"stable"}
    Asked = {0, 1, 9}
    DefaultPage = 2
    MaxPage = 3
    DaysPerMonth = 2
    MonthsPerYear = 2
    WindowMonths = 2
    Start = 12
    Finish = 14
    MaxWalks = 1
    MaxRetargets = 2
INVARIANTS
    WindowIsKept
PROPERTIES
    WalkDelivers
CHECK_DEADLOCK FALSE
