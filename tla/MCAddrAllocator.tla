--------------------------- MODULE MCAddrAllocator ---------------------------
(***************************************************************************)
(* Instances of AddrAllocator for TLC.  Addresses are 0..5 (0 standing for *)
(* 0.0.0.0, the RequestAddr of a request that carries none).               *)
(***************************************************************************)
EXTENDS AddrAllocator

CONSTANTS s1, s2, m1, m2, k2, n1

MCIPs == 0..5

\* Next never reads last, which only records the step for the action
\* properties; states differing only in last are merged.
MCView == <<engines, subnets, hosts, hostMgrs, shared, stores, cursor, db, now, hs, crashed, cmds>>

\* Two clients: one without a client id, one with; and the first alone.
MCClients == {[Mac |-> m1, ClientId |-> NoClientId], [Mac |-> m2, ClientId |-> k2]}
MCClient1 == {[Mac |-> m1, ClientId |-> NoClientId]}

\* s1 has two pools (a boundary to cross) and a reserved address inside the
\* first; s2 is a one-address subnet sharing a network with s1.
MCSubnetConf ==
    [s \in {s1, s2} |->
        IF s = s1
        THEN [Id |-> s1, ValidLifeTime |-> 1,
              Pools |-> <<[Start |-> 1, End |-> 2], [Start |-> 4, End |-> 4]>>,
              ReservedPools |-> <<[Start |-> 2, End |-> 2]>>]
        ELSE [Id |-> s2, ValidLifeTime |-> 1,
              Pools |-> <<[Start |-> 5, End |-> 5]>>,
              ReservedPools |-> <<>>]]

\* Single-pool subnets, for the runs with two connections.
MCSubnetConfSmall ==
    [s \in {s1, s2} |->
        [Id |-> s, ValidLifeTime |-> 1, ReservedPools |-> <<>>,
         Pools |-> IF s = s1 THEN <<[Start |-> 1, End |-> 2]>> ELSE <<[Start |-> 5, End |-> 5]>>]]

MCNoHosts == [s \in {s1, s2} |-> {}]
MCShared == << [name |-> n1, ids |-> <<s1, s2>>] >>

\* s1 alone, with its reserved address 2 and a host reservation of m2 on 4.
MCSubnetConf1 == [s \in {s1} |-> MCSubnetConf[s1]]
MCHosts1 == [s \in {s1} |-> {[Mac |-> m2, ReserveAddr |-> 4]}]
MCNoShared == <<>>

\* The reservation of m2 is 4 in s1, while 5 belongs to s2's pool.
\* Admin arguments: a new pool, the second pool of s1, its reserved pool,
\* a host that exists and one that does not.
MCPoolArgs == {[Start |-> 3, End |-> 3], [Start |-> 4, End |-> 4], [Start |-> 2, End |-> 2]}
MCHostArgs == {[Mac |-> m2, ReserveAddr |-> 4], [Mac |-> m1, ReserveAddr |-> 1]}
\* The first pool of s1, for the pool deletion.
MCPoolArgs1 == {[Start |-> 1, End |-> 2]}
\* The network n1 reordered (added again, a second group of the same name).
MCNetArgs == {[name |-> n1, ids |-> <<s2, s1>>]}

\* The file edited before a Reconfig: s1's first pool shrinks to 1 (the
\* lease at 2 falls outside), and the reservation of m2 on 4 becomes one
\* of m1 on the reserved address 2.
MCReloads1 ==
    {[subnets |-> [s \in {s1} |-> [MCSubnetConf[s1] EXCEPT !.Pools =
                     <<[Start |-> 1, End |-> 1], [Start |-> 4, End |-> 4]>>]],
      hosts   |-> [s \in {s1} |-> {[Mac |-> m1, ReserveAddr |-> 2]}],
      shared  |-> <<>>]}

MCHosts2 == [s \in {s1, s2} |-> IF s = s1 THEN {[Mac |-> m2, ReserveAddr |-> 4]} ELSE {}]

=============================================================================
