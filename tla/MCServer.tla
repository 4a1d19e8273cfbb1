------------------------------- MODULE MCServer -------------------------------
EXTENDS Server

CONSTANTS n1, n2, n3, a1, a2

MCConns2 == {n1, n2}
MCConns3 == {n1, n2, n3}

\* One admin connection, or two: one to run a command while the other is
\* listed in RawTCP.clients (or runs the next command).
MCAdmin1 == {a1}
MCAdmin2 == {a1, a2}

=============================================================================
