SPECIFICATION ProjectsSpec
CONSTANTS
    r1 = r1
    r2 = r2
    r3 = r3
    n1 = n1
    n2 = n2
    n3 = n3
    main_go = main_go
    Spec_md = Spec_md
    Demo = Demo
    Original = Original
    Nothing = Nothing
    Unset = Unset
    Earlier = Earlier
    Requests = {r1, r2, r3}
    Names = {n1, n2, n3}
    Leftover = {n1}
    Paths = {Spec_md, main_go}
    MaxConcurrent = 2
    MaxFailures = 1
    Reliable <- NoFailures
    Workloads <- AllWorkloads
SYMMETRY Interchangeable
INVARIANTS
    ProjectsTypeOK
    AgentHasItsState
    ProjectsKeepTheirOwn
    DeletedStaysDeleted
    EditsSurvive
    ReadsOnce
PROPERTIES
    DeleteLeavesNothing
    DeleteTakesTheAgent
    ImplementsLifecycle
CHECK_DEADLOCK FALSE
