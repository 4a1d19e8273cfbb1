\* Two connections, two admin connections, one admin command of any kind.
\* The accept loop, the command and every goroutine interleave freely.
CONSTANTS
    n1 = n1  n2 = n2  n3 = n3  a1 = a1  a2 = a2
    AdminConns <- MCAdmin2
    Conns <- MCConns2
    MaxCmds = 1
    CmdKinds = {"Mutate", "Stop", "Query"}
\* The behaviour ends once every connection is used and the command is done:
\* the server then waits in AcceptTCP.
CHECK_DEADLOCK FALSE
SPECIFICATION Spec
INVARIANT TypeOK
INVARIANT StopQuiesces
PROPERTY CommandsComplete
PROPERTY StopExits
