----------------------------- MODULE LeaseStore -----------------------------
(***************************************************************************)
(* The in-memory lease index of src/master/lease_in_mem.go (LeaseStore)    *)
(* and its bulk deletes in src/master/subnet_command.go.                   *)
(*                                                                         *)
(* A store is a record of three maps.  In Go they hold *Lease pointers;    *)
(* a Lease is never modified after it is inserted (renew and Decline copy  *)
(* it), so a pointer is modelled by the lease record it points to.  An     *)
(* absent map entry is NoLease.  The operators here are pure: each takes   *)
(* a store and returns the new one, so that the engine and the index       *)
(* specification can share them.                                          *)
(***************************************************************************)
EXTENDS Naturals, FiniteSetsExt, TLC

CONSTANTS
    IPs,          \* addresses, as host-order integers (0 is 0.0.0.0)
    Macs,         \* hardware addresses a client can send
    ClientIds,    \* non-empty DHCP client identifiers
    NoLease,      \* absent map entry
    NoMac,        \* Lease.Mac == nil (a declined lease)
    NoClientId    \* Lease.ClientId == nil

ASSUME NoLease \notin IPs /\ NoMac \notin Macs /\ NoClientId \notin ClientIds

\* The three indices: ip_to_leases, mac_to_leases, clientid_to_leases.
EmptyStore ==
    [ip  |-> [a \in IPs |-> NoLease],
     mac |-> [m \in Macs |-> NoLease],
     cid |-> [c \in ClientIds |-> NoLease]]

GetLeaseWithIp(st, a) == st.ip[a]
GetLeaseWithMac(st, m) == st.mac[m]
GetLeaseWithClient(st, c) == st.cid[c]

\* Mutant: the nil check dropped, so the map grows an entry for the empty key.
IndexUnderNoNilCheck(idx, key, none, l) == (key :> l) @@ idx

\* A secondary index entry is set only for a non-nil key.
IndexUnder(idx, key, none, l) ==
    IF key = none THEN idx ELSE [idx EXCEPT ![key] = l]

\* AddLease: refuses an address that is already present, else indexes the
\* lease under its address, its MAC and its client id.
AddLease(st, l) ==
    IF st.ip[l.Address] # NoLease
    THEN [st |-> st, ok |-> FALSE]
    ELSE [st |-> [ip  |-> [st.ip EXCEPT ![l.Address] = l],
                  mac |-> IndexUnder(st.mac, l.Mac, NoMac, l),
                  cid |-> IndexUnder(st.cid, l.ClientId, NoClientId, l)],
          ok |-> TRUE]

\* A secondary entry is cleared only while it still points at address a.
Unindex(idx, key, none, a) ==
    IF key # none /\ idx[key] # NoLease /\ idx[key].Address = a
    THEN [idx EXCEPT ![key] = NoLease]
    ELSE idx

\* Mutant: the MAC index is not cleared.
DeleteLeaseKeepMac(st, s, a) ==
    LET l == st.ip[a] IN
    IF l = NoLease \/ l.SubnetId # s
    THEN st
    ELSE [st EXCEPT !.ip = [@ EXCEPT ![a] = NoLease],
                    !.cid = Unindex(@, l.ClientId, NoClientId, a)]

\* DeleteLease: only a lease of the given subnet is removed.
DeleteLease(st, s, a) ==
    LET l == st.ip[a] IN
    IF l = NoLease \/ l.SubnetId # s
    THEN st
    ELSE [ip  |-> [st.ip EXCEPT ![a] = NoLease],
          mac |-> Unindex(st.mac, l.Mac, NoMac, a),
          cid |-> Unindex(st.cid, l.ClientId, NoClientId, a)]

\* UpdateLease is delete-by-address then AddLease.
UpdateLease(st, l) == AddLease(DeleteLease(st, l.SubnetId, l.Address), l)

\* DeleteSubnet: removes every lease of subnet s; a secondary entry is
\* cleared when one of those leases has its key and the entry's lease
\* belongs to s (the check is on the subnet, not on the address).
DeleteSubnet(st, s) ==
    LET gone   == {a \in IPs : st.ip[a] # NoLease /\ st.ip[a].SubnetId = s}
        Clear(idx, ks) ==
            [k \in DOMAIN idx |->
                IF k \in ks /\ idx[k] # NoLease /\ idx[k].SubnetId = s
                THEN NoLease ELSE idx[k]]
    IN [ip  |-> [a \in IPs |-> IF a \in gone THEN NoLease ELSE st.ip[a]],
        mac |-> Clear(st.mac, {st.ip[a].Mac : a \in gone}),
        cid |-> Clear(st.cid, {st.ip[a].ClientId : a \in gone})]

\* DeletePool: DeleteLease of subnet s for every address of [start, end].
DeletePool(st, s, start, end) ==
    FoldSet(LAMBDA a, acc : DeleteLease(acc, s, a), st, {a \in IPs : start <= a /\ a <= end})

\* GetLeaseCount: the leases of subnet s.
GetLeaseCount(st, s) == Cardinality({a \in IPs : st.ip[a] # NoLease /\ st.ip[a].SubnetId = s})

\* The secondary indices lead to the lease the address index holds at that
\* lease's address, and that lease carries the key.
Indexed(st) ==
    /\ \A m \in Macs : st.mac[m] # NoLease =>
          /\ st.mac[m].Mac = m
          /\ st.ip[st.mac[m].Address] = st.mac[m]
    /\ \A c \in ClientIds : st.cid[c] # NoLease =>
          /\ st.cid[c].ClientId = c
          /\ st.ip[st.cid[c].Address] = st.cid[c]

=============================================================================
