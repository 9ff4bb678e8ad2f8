\* The questions of MCRules.cfg.  What the documents say of the answers, each violated: check
\* one line at a time.
SPECIFICATION RulesSpec
CONSTANTS
    Absent = Absent
    MinInterval = 1
    MaxInterval = 2880
    BaseInterval = 96
    RecentChangeInterval = 24
    PopularFloor = 24
    EOLMultiplier = 7
    MaxSteps = 24
    LargestDuration = 10248191
    private = private
    public = public
    private6 = private6
    public6 = public6
    DefaultMaxBytes = 2
    MaxInput = 3
    MaxMatches = 2
    DefaultStripped = {"script"}
    UnchangedFactor <- MCUnchangedFactor
    FailureFactor <- MCFailureFactor
    Jitter <- MCJitter
    V4Hosts <- MCV4Hosts
    V6Hosts <- MCV6Hosts
    DeniedHosts <- MCDeniedHosts
    Lower <- MCLower
    Calendar <- MCCalendar
    Questions <- MCQuestions
INVARIANTS
    GroupsAddUp
    FreshnessIsKept
    FailuresNeverHasten
    EveryChangeIsSeen
CHECK_DEADLOCK FALSE
