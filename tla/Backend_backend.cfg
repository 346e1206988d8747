SPECIFICATION Spec
CONSTANTS
    Executions <- MCExecutions
    Outputs <- MCOutputs
    MaxStops = 1
    MaxAttempts <- MCMaxAttempts
    Scans <- MCScans
    Sightings <- MCSightings
    Correlators <- MCCorrelators
    LargeSurface = 3
    Ids = {a1, a2}
    First = a1
    Names = {n1, n2}
    FirstName = n1
    Requests = {q1, q2}
    Editable = {"READY"}
    Endpoints = {v1}
    MaxRuns = 2
    Texts <- MCTexts
    Files <- MCFiles
    Users = {u1, u2, u3}
    MaxTargets = 4
    Calls = {job, direct}
    Managed = {job}
    Timeout = 2
    Grace = 1
    LastTick = 5
    Directories <- MCDirectories
    Errands = {w1, w2, w3}
    Wishes <- MCWishes
    Profiles = {p1}
    Conditions = {"absent", "misfit"}
    Accepted <- MCAccepted
    DefaultTimeout = 3
    MaxScans = 2
    BuiltIns = {b1}
    Customs = {c1, c2}
    Contents = {"stock", "mine"}
    Shipped = "stock"
    Editors = {t1, t2}
    Jobs = {j1, j2}
    MaxSequence = 4
INVARIANTS
    TypeOK
    HeadMatchesModels
    UpgradesRun
    DeletesCascade
    DiscoveredOnce
    OneRowPerSystem
    CorrelationsSucceed
    FindingsCoverHost
    OnlyRestatedFactsGoStale
    OnlyAbandonedProcessesLive
    LivesBySavedSettings
    ProfilesKept
PROPERTIES
    UpgradesKeepRows
    LosesOutputOnlyIf
    ConfirmsOnly
    LeavesArchiveOnlyBy
    RunGivesStatusBack
    ImportsAllUnlessRaced
    PlansAsSwitched
    ImplementsLanes
\* Every part stops but the queue: attempts, requests, scans and ticks run out.
CHECK_DEADLOCK FALSE
SYMMETRY Symmetric
CONSTRAINTS FewAttempts FewRequests FewRuns
