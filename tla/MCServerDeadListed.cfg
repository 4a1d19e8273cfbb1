\* Two connections, one command: a peer that hangs up at once.
CONSTANTS
    n1 = n1  n2 = n2  n3 = n3  a1 = a1  a2 = a2
    AdminConns <- MCAdmin1
    Conns <- MCConns2
    MaxCmds = 1
    CmdKinds = {"Mutate"}
CHECK_DEADLOCK FALSE
SPECIFICATION Spec
INVARIANT NoDeadListed
