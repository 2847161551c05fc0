CONSTANTS
    login = login
    main = main
    daemon = daemon
    cli = cli
    c1 = c1
    c2 = c2
    Collections = {login, main}
    Login = login
    Procs = {daemon, cli}
    Daemon = daemon
    Clients = {c1, c2}
    ProcOf <- TwoProcesses
    Worlds <- MCWorlds
    Hides = TRUE
    MaxValue = 2
    MaxTroubles = 6
SPECIFICATION Spec
INVARIANT TypeOK
INVARIANT Kept
PROPERTY RefinesRegister
PROPERTY NeverDenied
CHECK_DEADLOCK FALSE
