------------------------------ MODULE MCWriterPool ------------------------------
EXTENDS WriterPool

CONSTANTS s1, s2, s3, m1

\* Each subnet owns one address: s1 owns 1, s2 owns 2, s3 owns 3.
MCIPs == 1 .. 3
MCOwner == (s1 :> 1) @@ (s2 :> 2) @@ (s3 :> 3)

\* A lease written at time 0 and its renewal at time 1.
MCLeases ==
    {[Address |-> MCOwner[s], State |-> "Normal", ValidLifeTime |-> 1,
      ClientId |-> NoClientId, SubnetId |-> s, ClientLastTransTime |-> t, Mac |-> m1] :
        s \in {s1, s2, s3}, t \in 0 .. 1}

=============================================================================
