\* The reader comes to the end, the tokens run out: the system stops.
SPECIFICATION Spec
CHECK_DEADLOCK FALSE
SYMMETRY Symmetry
CONSTANTS
    q1 = q1   q2 = q2   q3 = q3   s1 = s1   s2 = s2   web = web   api = api
    v1 = v1   n1 = n1   Empty = Empty   c1 = c1   c2 = c2   c3 = c3
    x1 = x1   x2 = x2   i1 = i1   i2 = i2
    Slug <- Both
    Realm = Realm
    Reader = {q1, q2, q3}
    Caller <- MCCaller
    AdminKey = AdminKey
    NoStats = NoStats
    Ttl = 2
    QueryMax = 1
    StatsHorizon = 4
    Stamp = {1, 2, 3, 4, 5}
    StartRows = {1, 3, 4}
    pageSize = 2
    Workload = {web, api}
    Text = {Empty, v1, n1}
    NumberLike = {n1}
    OCITag = {v1, n1}
    TagMissing = TagMissing
    Image = {i1, i2}
    Pin = {v1, n1}
    NoPin = NoPin
    MaxImages = 3
    TagName = {x1, x2}
    MaxVersion = 5
    StartVersions = {1, 3, 4}
    PageSizes = {0, 1, 2, 3}
    maxPageSize = 2
    Prefixed = {x1, 3, 4}
    Cmd = {c1, c2, c3}
    CmdAsked <- MCCmdAsked
    MaxBad = 1
    MaxLogin = 2
    MaxRefresh = 1
    NoFile = NoFile
    Emptied = Emptied
    Garbage = Garbage
INVARIANTS
    PortalTypeOK StatsAreRight ScanMisses ShownIsDeployable ListIsWhole
    TokenFileExplained HonestReports
PROPERTIES
    DeployShows PinsOneImage
