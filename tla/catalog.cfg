\* Three concurrent requests out of the seventeen calls of MCAsked.  A request
\* that is done stays done: the system stops, hence no deadlock check.
SPECIFICATION Spec
CHECK_DEADLOCK FALSE
SYMMETRY Symmetry
CONSTANTS
    r1 = r1   r2 = r2   r3 = r3
    p1 = p1   p2 = p2   p3 = p3
    e1 = e1   e2 = e2   e3 = e3
    s1 = s1   s2 = s2   s3 = s3
    semver = semver   release = release   t1 = t1   t2 = t2
    Request = {r1, r2, r3}
    ProductId = {p1, p2, p3}
    EnvId = {e1, e2, e3}
    Slug = {s1, s2, s3}
    Realm = Realm
    Name = {"old", "new"}
    EnvBody <- MCEnvBody
    Pattern = {semver, release}
    Tag = {t1, t2}
    Matches <- MCMatches
    Default = semver
    BadPattern = BadPattern
    Users <- MCUsers
    StartProducts <- MCStartProducts
    StartEnvs <- MCStartEnvs
    Asked <- MCAsked
    None = None
INVARIANTS
    TypeOK PathsAreDistinct RecordsKeepTheirEnvironment ProductionTagsConform
    AcknowledgedStays ListingsAgree
PROPERTIES
    OnlyEditorsChange
