\* Two connections, two admin connections and two admin commands.
CONSTANTS
    n1 = n1  n2 = n2  n3 = n3  a1 = a1  a2 = a2
    AdminConns <- MCAdmin2
    Conns <- MCConns2
    MaxCmds = 2
    CmdKinds = {"Mutate", "Stop"}
CHECK_DEADLOCK FALSE
SPECIFICATION Spec
PROPERTY CommandsComplete
