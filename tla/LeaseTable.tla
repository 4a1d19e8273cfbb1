----------------------------- MODULE LeaseTable -----------------------------
(***************************************************************************)
(* What the hybrid lease manager promises (spec 4.6, 4.7, 5): memory is    *)
(* the source of truth, and the lease table is what applying, in the       *)
(* order they were issued, the statements of every accepted mutation       *)
(* gives.  Here each mutation writes memory and table in one step; the     *)
(* writer pool (WriterPool) is shown to implement this.                    *)
(***************************************************************************)
EXTENDS LeaseDB

CONSTANTS
    Subnets,   \* subnet ids the admin commands and the configuration use
    Leases     \* the leases the engines may write

VARIABLES
    mem,       \* [Subnets -> store]: each engine's in-memory index
    tdb,       \* the lease table
    engines    \* subnets that have an engine

avars == <<mem, tdb, engines>>

\* Memory becomes st2 and the statement o is applied to the table.
Write(s, st2, o) ==
    /\ mem' = [mem EXCEPT ![s] = st2]
    /\ tdb' = ApplyOp(tdb, o).db
    /\ UNCHANGED engines

AAdd(s, l) ==
    /\ s \in engines /\ l.SubnetId = s
    /\ AddLease(mem[s], l).ok
    /\ Write(s, AddLease(mem[s], l).st, [op |-> "add", lease |-> l])

AUpdate(s, l) ==
    /\ s \in engines /\ l.SubnetId = s
    /\ mem[s].ip[l.Address] # NoLease
    /\ Write(s, UpdateLease(mem[s], l).st, [op |-> "update", lease |-> l])

ADelete(s, a) ==
    /\ s \in engines
    /\ Write(s, DeleteLease(mem[s], s, a), [op |-> "delete", subnet |-> s, addr |-> a])

ADeleteSubnet(s) ==
    /\ s \in engines
    /\ mem' = [mem EXCEPT ![s] = DeleteSubnet(mem[s], s)]
    /\ tdb' = DeleteSubnetInTx(tdb, s)
    /\ engines' = engines \ {s}

AAddSubnet(s) ==
    /\ s \notin engines
    /\ mem' = [mem EXCEPT ![s] = EmptyStore]
    /\ engines' = engines \cup {s}
    /\ tdb' = tdb

\* A Reconfig drops the engines R its configuration lacks, with their rows.
ARemove(R) ==
    /\ R \subseteq engines
    /\ mem' = [s \in Subnets |-> IF s \in R THEN DeleteSubnet(mem[s], s) ELSE mem[s]]
    /\ tdb' = [a \in DOMAIN tdb |-> IF tdb[a] # NoLease /\ tdb[a].SubnetId \in R
                                   THEN NoLease ELSE tdb[a]]
    /\ engines' = engines \ R

\* ... and then the subnets of its configuration c are the engines, each
\* with its rows of the table loaded into a new store.
AReload(c) ==
    /\ engines \subseteq c
    /\ engines' = c
    /\ mem' \in LoadConfig(tdb, c, Subnets)
    /\ tdb' = tdb

\* A restart on configuration c loads the engines from whatever table
\* survived: the writes not yet committed may be lost.
ARestart(c) ==
    /\ engines' = c
    /\ mem' \in LoadConfig(tdb', c, Subnets)

ANext ==
    \/ \E s \in Subnets, l \in Leases : AAdd(s, l) \/ AUpdate(s, l)
    \/ \E s \in Subnets, a \in IPs : ADelete(s, a)
    \/ \E s \in Subnets : ADeleteSubnet(s) \/ AAddSubnet(s)
    \/ \E R \in SUBSET Subnets : ARemove(R)
    \/ \E c \in SUBSET Subnets : AReload(c) \/ ARestart(c)

\* Any set of configured subnets, empty memory and an empty table.
AInit ==
    /\ mem = [s \in Subnets |-> EmptyStore]
    /\ tdb = EmptyTable
    /\ engines \subseteq Subnets

ASpec == AInit /\ [][ANext]_avars

=============================================================================
