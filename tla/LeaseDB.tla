------------------------------- MODULE LeaseDB -------------------------------
(***************************************************************************)
(* The lease table zc_lease4 of src/master/lease_in_db.go and the          *)
(* statements the writer pool replays in a transaction (the *InTx forms).  *)
(* The table is a function from address (its UNIQUE key) to a row or       *)
(* NoLease.                                                                *)
(***************************************************************************)
EXTENDS LeaseStore

\* FromLease: the row a lease is written as.  The expiry is stored instead
\* of the last transaction time; a nil MAC or client id is stored as the
\* empty string, which the row keeps as NoMac / NoClientId.
FromLease(l) ==
    [Address |-> l.Address, State |-> l.State, ValidLifeTime |-> l.ValidLifeTime,
     ClientId |-> l.ClientId, SubnetId |-> l.SubnetId,
     Expire |-> l.ClientLastTransTime + l.ValidLifeTime, Mac |-> l.Mac]

EmptyTable == [a \in IPs |-> NoLease]

\* AddLeaseInTx: an INSERT; an existing address violates the UNIQUE key and
\* the statement fails.  ok reports whether it succeeded.
AddLeaseInTx(db, l) ==
    IF db[l.Address] = NoLease
    THEN [db |-> [db EXCEPT ![l.Address] = FromLease(l)], ok |-> TRUE]
    ELSE [db |-> db, ok |-> FALSE]

\* UpdateLeaseInTx: UPDATE ... WHERE address = l.Address; no row, no effect.
UpdateLeaseInTx(db, l) ==
    IF db[l.Address] # NoLease THEN [db EXCEPT ![l.Address] = FromLease(l)] ELSE db

\* DeleteLeaseInTx with an address: WHERE address = a AND subnet_id = s.
DeleteLeaseInTx(db, s, a) ==
    IF db[a] # NoLease /\ db[a].SubnetId = s THEN [db EXCEPT ![a] = NoLease] ELSE db

\* DeleteSubnetInTx, and DeleteLeaseInTx with a nil address.
DeleteSubnetInTx(db, s) ==
    [a \in DOMAIN db |-> IF db[a] # NoLease /\ db[a].SubnetId = s THEN NoLease ELSE db[a]]

\* DeletePoolInTx: subnet_id = s AND start <= address <= end.
DeletePoolInTx(db, s, start, end) ==
    [a \in DOMAIN db |->
        IF db[a] # NoLease /\ db[a].SubnetId = s /\ start <= a /\ a <= end
        THEN NoLease ELSE db[a]]

\* Mutant: the expiry is read back as the last transaction time.
ToLeaseNoShift(r) ==
    [Address |-> r.Address, State |-> r.State, ValidLifeTime |-> r.ValidLifeTime,
     ClientId |-> r.ClientId, SubnetId |-> r.SubnetId,
     ClientLastTransTime |-> r.Expire, Mac |-> r.Mac]

\* ToLease: a row read back.  The last transaction time is the expiry less
\* the lifetime.  An empty client id decodes into an empty, non-nil slice,
\* which the store indexes under ""; findOldLease never looks that key up
\* (it tests len(ClientID)), so the lease keeps NoClientId here.
ToLease(r) ==
    [Address |-> r.Address, State |-> r.State, ValidLifeTime |-> r.ValidLifeTime,
     ClientId |-> r.ClientId, SubnetId |-> r.SubnetId,
     ClientLastTransTime |-> r.Expire - r.ValidLifeTime, Mac |-> r.Mac]

\* The addresses of subnet s's rows (SELECT ... WHERE subnet_id = s).
RowsOf(db, s) == {a \in DOMAIN db : db[a] # NoLease /\ db[a].SubnetId = s}

\* The stores leaseManager.AddLease(lease.ToLease()) builds from the rows at
\* addresses A, taken in any order (the SELECT has no ORDER BY).
RECURSIVE LoadInto(_, _, _)
LoadInto(st, db, A) ==
    IF A = {} THEN {st}
    ELSE UNION {LoadInto(AddLease(st, ToLease(db[a])).st, db, A \ {a}) : a \in A}

\* The load half of LeaseDB.LoadLease: the rows of subnet s, read into a
\* new store.  WriterPool's configurations keep every lease in its pools,
\* so there it is the whole of LoadLease; ReloadLease adds the deletions.
LoadLease(db, s) == LoadInto(EmptyStore, db, RowsOf(db, s))

\* Mutant: a pool's first address counts as outside it.
deleteLeaseNotInSubnetStrict(db, sub) ==
    [a \in DOMAIN db |->
        IF /\ db[a] # NoLease /\ db[a].SubnetId = sub.Id
           /\ ~\E i \in DOMAIN sub.Pools : sub.Pools[i].Start < a /\ a <= sub.Pools[i].End
        THEN NoLease ELSE db[a]]

\* deleteLeaseNotInSubnet: DELETE WHERE subnet_id = sub.Id AND NOT (the
\* address lies in one of sub.Pools), committed in its own transaction.
deleteLeaseNotInSubnet(db, sub) ==
    [a \in DOMAIN db |->
        IF /\ db[a] # NoLease /\ db[a].SubnetId = sub.Id
           /\ ~\E i \in DOMAIN sub.Pools : sub.Pools[i].Start <= a /\ a <= sub.Pools[i].End
        THEN NoLease ELSE db[a]]

\* The deletions of LeaseDB.LoadLease for subnet sub: every row of a
\* subnet without pools, else the rows outside its pools.
ReloadLease(db, sub) ==
    IF sub.Pools = <<>> THEN DeleteSubnetInTx(db, sub.Id) ELSE deleteLeaseNotInSubnet(db, sub)

\* The stores reloadConf gives the subnets S: those of the configuration
\* c loaded from db, the others none (an empty store).
LoadConfig(db, c, S) ==
    LET choice == [s \in S |-> IF s \in c THEN LoadLease(db, s) ELSE {EmptyStore}]
    IN {f \in [S -> UNION {choice[s] : s \in S}] : \A s \in S : f[s] \in choice[s]}

\* One queued operation of the writer pool applied inside a transaction;
\* ok is FALSE when the statement failed.
ApplyOp(db, o) ==
    CASE o.op = "add"          -> AddLeaseInTx(db, o.lease)
      [] o.op = "update"       -> [db |-> UpdateLeaseInTx(db, o.lease), ok |-> TRUE]
      [] o.op = "delete"       -> [db |-> DeleteLeaseInTx(db, o.subnet, o.addr), ok |-> TRUE]
      [] o.op = "deleteSubnet" -> [db |-> DeleteSubnetInTx(db, o.subnet), ok |-> TRUE]
      [] o.op = "deletePool"   -> [db |-> DeletePoolInTx(db, o.subnet, o.start, o.end), ok |-> TRUE]

=============================================================================
