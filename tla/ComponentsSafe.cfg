SPECIFICATION Spec
CONSTANTS
    ItemOrder <- MCItemOrder
    Owner <- MCOwner
    DropClass <- MCDropClass
    SignatureEdges <- MCSignatureEdges
    Routines = {"f", "g", "a"}
    Stubbable = {"f", "g"}
    PreDataClause = {"d"}
    Edits = {"e1", "e2"}
    Imports = {"e2"}
    MaxRows = 2
    MaxFaults = 2
    MaxBytes = 4
    Logins = {1, 2, 3}
    Addresses = {"i1", "i2"}
    Accounts = {"u1"}
    Predefined = {"p1"}
    Window = 2
    RateMax = 1
    AccountMax = 1
    MaxTime = 2
    Replicas = {"old", "new", "new2"}
    Known <- MCKnown
    Creates <- MCCreates
    MaxFailures = 2
    MaxDeaths = 2
    Savers = {"a", "b"}
    Droppers = {"d"}
    Programs <- MCPrograms
    NameOf <- MCNameOf
    MaxCancels = 1
    Requests = {1, 2}
    SlotCap <- MCSlotCap
    Editors = {"x", "y"}
    RowIds = {1, 2, 3}
    Texts <- MCTexts
    Typings <- MCTypings
    MaxChosen = 2
    PageSizes <- MCPageSizes
    MaxBrowseOffset = 3
    MaxExactCount = 2
    ShowAllRowCap = 3
    MaxSortKeys = 2
    MaxSize = 7
    MaxChanges = 1
    MaxPos = 9
    UrlWords <- MCUrlWords
    PageColumns = {"a", "b"}
    TypedUrls <- MCTypedUrls
    Overloads <- MCOverloads
    MaxOthers = 2
    MaxInserts = 1
    MaxExports = 2
    Nodes = {m1, m2}
    Visits = {v1, v2}
    IdleTimeout = 8
    AbsoluteTimeout = 15
    Patience = 0
    Moves <- MCMoves
    LastTick = 16
    MaxCopies = 3
    MaxErrors = 1
    MaxVisits = 2
    MaxSweeps = 1
    Designers = {"one", "two", "three"}
    Orders <- MCOrders
    MaxElsewhere = 1
INVARIANTS
    DumpsRestore
    ScriptReplays
    TrailIsHonest
    GuessesBounded
    VersionSound
    RacesResolve
    ProgramKept
    RequestsAccounted
    EditsAreHonest
    PagesCover
    TreesRestored
    AccessHolds
    SequencesServe
PROPERTIES
    TimeoutsHold
    DropsHaveACause
    StructureAsAsked
CHECK_DEADLOCK FALSE
