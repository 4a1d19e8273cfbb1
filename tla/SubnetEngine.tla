---------------------------- MODULE SubnetEngine ----------------------------
(***************************************************************************)
(* The per-subnet decision engine of src/master/engine.go, its address     *)
(* picker (src/master/iterative_allocator.go), the subnet and host checks  *)
(* it relies on (subnet.go, host_in_mem.go) and the hybrid lease manager   *)
(* it writes through (hybrid_lease_manager.go).                            *)
(*                                                                         *)
(* An engine call runs under the subnet's mutex, so it is one atomic step; *)
(* it is modelled as a pure operator over                                  *)
(*   env : [sub, hosts, now]    what the call reads and never writes       *)
(*   e   : [st, cur, ops]       the lease store, the picker cursor and the *)
(*                              DB operations the hybrid manager enqueued  *)
(* returning [e, lease, err].  err = "Panic" is a nil dereference in       *)
(* PickAddr, which ends the process.                                       *)
(***************************************************************************)
EXTENDS LeaseStore, Sequences, FiniteSetsExt

CONSTANTS NoHost

(*************************** subnet.go, host_in_mem.go *********************)

IncludeVal(p, v) == p.Start <= v /\ v <= p.End

\* getPoolIncludeAddr over Pools / ReservedPools.
InPools(pools, a) == \E i \in DOMAIN pools : IncludeVal(pools[i], a)
IncludeAddr(sub, a) == InPools(sub.Pools, a)
IsAddrReserved(sub, a) == InPools(sub.ReservedPools, a)

Capacity(sub) ==
    FoldSet(LAMBDA i, acc : acc + sub.Pools[i].End - sub.Pools[i].Start + 1,
            0, DOMAIN sub.Pools)

\* HostStore is keyed by MAC; GetHostWithIp scans it (reserved addresses
\* are assumed distinct within a subnet, see README).
GetHostWithMac(hosts, m) ==
    IF \E h \in hosts : h.Mac = m THEN CHOOSE h \in hosts : h.Mac = m ELSE NoHost
GetHostWithIp(hosts, a) ==
    IF \E h \in hosts : h.ReserveAddr = a
    THEN CHOOSE h \in hosts : h.ReserveAddr = a ELSE NoHost

(******************************** lease.go *********************************)

IsExpired(l, now) == l.ClientLastTransTime + l.ValidLifeTime < now

Decline(l, now) ==
    [l EXCEPT !.State = "Declined", !.ClientLastTransTime = now,
              !.ClientId = NoClientId, !.Mac = NoMac]

(************************ hybrid_lease_manager.go **************************)
(* Memory first; the DB operation is enqueued only when memory accepted   *)
(* it (DeleteLease enqueues unconditionally).                              *)

\* Mutant: an insert enqueued as an update.
HybridAddAsUpdate(e, l) ==
    LET r == AddLease(e.st, l) IN
    [e  |-> [e EXCEPT !.st = r.st,
                      !.ops = IF r.ok THEN Append(@, [op |-> "update", lease |-> l]) ELSE @],
     ok |-> r.ok]

HybridAdd(e, l) ==
    LET r == AddLease(e.st, l) IN
    [e  |-> [e EXCEPT !.st = r.st,
                      !.ops = IF r.ok THEN Append(@, [op |-> "add", lease |-> l]) ELSE @],
     ok |-> r.ok]

\* Mutant: memory updated, nothing enqueued.
HybridUpdateNoEnqueue(e, l) == [e EXCEPT !.st = UpdateLease(@, l).st]

HybridUpdate(e, l) ==
    LET r == UpdateLease(e.st, l) IN
    [e EXCEPT !.st = r.st,
              !.ops = IF r.ok THEN Append(@, [op |-> "update", lease |-> l]) ELSE @]

\* Mutant: memory cleared, nothing enqueued.
HybridDeleteNoEnqueue(e, s, a) == [e EXCEPT !.st = DeleteLease(@, s, a)]

HybridDelete(e, s, a) ==
    [e EXCEPT !.st = DeleteLease(@, s, a),
              !.ops = Append(@, [op |-> "delete", subnet |-> s, addr |-> a])]

(************************* iterative_allocator.go **************************)
(* PickAddr returns [addr, cur, panic].  When the cursor lies in no pool   *)
(* the code resets it but then reads lastPool.Start with lastPool == nil.  *)

\* Mutant: past the end of a pool the cursor wraps to the first pool.
PickAddrWrapFirst(sub, cur) ==
    LET P   == sub.Pools
        idx == {i \in 1..Len(P) : IncludeVal(P[i], cur)}
    IN
    IF cur = 0 THEN [addr |-> P[1].Start, cur |-> P[1].Start, panic |-> FALSE]
    ELSE IF idx = {} THEN [addr |-> 0, cur |-> P[1].Start, panic |-> TRUE]
    ELSE IF IncludeVal(P[Min(idx)], cur + 1)
         THEN [addr |-> cur + 1, cur |-> cur + 1, panic |-> FALSE]
         ELSE [addr |-> P[1].Start, cur |-> P[1].Start, panic |-> FALSE]

PickAddr(sub, cur) ==
    LET P   == sub.Pools
        n   == Len(P)
        idx == {i \in 1..n : IncludeVal(P[i], cur)}
    IN
    IF cur = 0 THEN [addr |-> P[1].Start, cur |-> P[1].Start, panic |-> FALSE]
    ELSE IF idx = {} THEN [addr |-> 0, cur |-> P[1].Start, panic |-> TRUE]
    ELSE LET k == Min(idx) IN
         IF IncludeVal(P[k], cur + 1)
         THEN [addr |-> cur + 1, cur |-> cur + 1, panic |-> FALSE]
         ELSE [addr |-> P[(k % n) + 1].Start, cur |-> P[(k % n) + 1].Start, panic |-> FALSE]

(******************************** engine.go ********************************)

Fail(e, err) == [e |-> e, lease |-> NoLease, err |-> err]
Done(e, l)   == [e |-> e, lease |-> l, err |-> "ok"]

IsRequest(ctx) == ctx.RequestType = "Request"

findOldLease(st, ctx) ==
    IF ctx.ClientId # NoClientId /\ GetLeaseWithClient(st, ctx.ClientId) # NoLease
    THEN GetLeaseWithClient(st, ctx.ClientId)
    ELSE GetLeaseWithMac(st, ctx.Mac)

addressIsReserved(env, a, m) ==
    LET h == GetHostWithIp(env.hosts, a) IN
    IF h # NoHost THEN h.Mac # m ELSE IsAddrReserved(env.sub, a)

\* renewLease: a copy of l owned by the client, persisted only on REQUEST.
renewLease(env, e, l, ctx) ==
    LET nl == [l EXCEPT !.SubnetId = env.sub.Id, !.Mac = ctx.Mac, !.State = "Normal",
                        !.ClientId = ctx.ClientId, !.ClientLastTransTime = env.now,
                        !.ValidLifeTime = env.sub.ValidLifeTime]
    IN Done(IF IsRequest(ctx) THEN HybridUpdate(e, nl) ELSE e, nl)

\* Mutant: a free address is added whatever the request type.
allocateLeaseWithAddrAlwaysAdd(env, e, a, ctx) ==
    LET old == GetLeaseWithIp(e.st, a)
        nl  == [Address |-> a, State |-> "Normal", ValidLifeTime |-> env.sub.ValidLifeTime,
                ClientId |-> ctx.ClientId, SubnetId |-> ctx.SubnetId,
                ClientLastTransTime |-> env.now, Mac |-> ctx.Mac]
    IN
    IF old = NoLease THEN Done(HybridAdd(e, nl).e, nl)
    ELSE IF ~IsExpired(old, env.now) THEN Fail(e, "ErrWantUsedAddress")
    ELSE renewLease(env, e, old, ctx)

allocateLeaseWithAddr(env, e, a, ctx) ==
    LET old == GetLeaseWithIp(e.st, a)
        nl  == [Address |-> a, State |-> "Normal", ValidLifeTime |-> env.sub.ValidLifeTime,
                ClientId |-> ctx.ClientId, SubnetId |-> ctx.SubnetId,
                ClientLastTransTime |-> env.now, Mac |-> ctx.Mac]
    IN
    IF old = NoLease THEN Done(IF IsRequest(ctx) THEN HybridAdd(e, nl).e ELSE e, nl)
    ELSE IF ~IsExpired(old, env.now) THEN Fail(e, "ErrWantUsedAddress")
    ELSE renewLease(env, e, old, ctx)

\* Mutant: one pick fewer than Capacity().
RECURSIVE ScanFromShort(_, _, _, _)
ScanFromShort(env, e, ctx, i) ==
    IF i + 1 >= Capacity(env.sub) THEN Fail(e, "ErrNoAddressLeft")
    ELSE LET p  == PickAddr(env.sub, e.cur)
             e1 == [e EXCEPT !.cur = p.cur]
             r  == allocateLeaseWithAddr(env, e1, p.addr, ctx)
         IN IF p.panic THEN Fail(e1, "Panic")
            ELSE IF ~addressIsReserved(env, p.addr, ctx.Mac) /\ r.err = "ok" THEN r
            ELSE ScanFromShort(env, e1, ctx, i + 1)

\* allocateUnreservedLease: PickAddr up to Capacity times.
RECURSIVE ScanFrom(_, _, _, _)
ScanFrom(env, e, ctx, i) ==
    IF i >= Capacity(env.sub) THEN Fail(e, "ErrNoAddressLeft")
    ELSE LET p  == PickAddr(env.sub, e.cur)
             e1 == [e EXCEPT !.cur = p.cur]
             r  == allocateLeaseWithAddr(env, e1, p.addr, ctx)
         IN IF p.panic THEN Fail(e1, "Panic")
            ELSE IF ~addressIsReserved(env, p.addr, ctx.Mac) /\ r.err = "ok" THEN r
            ELSE ScanFrom(env, e1, ctx, i + 1)

allocateUnreservedLease(env, e, ctx) == ScanFrom(env, e, ctx, 0)

PlanLease(env, e, ctx) ==
    LET old    == findOldLease(e.st, ctx)
        host   == GetHostWithMac(env.hosts, ctx.Mac)
        byHost == allocateLeaseWithAddr(env, e, host.ReserveAddr, ctx)
        byAddr == allocateLeaseWithAddr(env, e, ctx.RequestAddr, ctx)
    IN
    IF host # NoHost /\ old # NoLease /\ old.Address = host.ReserveAddr
        THEN renewLease(env, e, old, ctx)
    ELSE IF host # NoHost /\ byHost.err = "ok" THEN byHost
    ELSE IF old # NoLease THEN renewLease(env, e, old, ctx)
    ELSE IF /\ IncludeAddr(env.sub, ctx.RequestAddr)
            /\ ~addressIsReserved(env, ctx.RequestAddr, ctx.Mac)
            /\ byAddr.err = "ok"
        THEN byAddr
    ELSE allocateUnreservedLease(env, e, ctx)

\* The reserved address of the client is free, expired or its own.
ReservedAddrAvailable(env, e, host, ctx) ==
    LET o == GetLeaseWithIp(e.st, host.ReserveAddr) IN
    o = NoLease \/ IsExpired(o, env.now) \/ o.Mac = ctx.Mac

\* Mutant: the reserved-address check on RequestAddr is missing.
AllocateLeaseNoReservedCheck(env, e, ctx) ==
    LET host == GetHostWithMac(env.hosts, ctx.Mac)
        old  == findOldLease(e.st, ctx)
        r    == allocateLeaseWithAddr(env, e, ctx.RequestAddr, ctx)
    IN
    IF /\ host # NoHost
       /\ host.ReserveAddr # ctx.RequestAddr
       /\ ReservedAddrAvailable(env, e, host, ctx)
        THEN Fail(e, "ErrNotWantReservedAddr")
    ELSE IF old # NoLease /\ old.Address = ctx.RequestAddr THEN renewLease(env, e, old, ctx)
    ELSE IF host = NoHost /\ ~IncludeAddr(env.sub, ctx.RequestAddr)
        THEN Fail(e, "ErrWantAddressInOtherSubnet")
    ELSE IF old # NoLease /\ r.lease # NoLease /\ old.Address # r.lease.Address
        THEN [r EXCEPT !.e = HybridDelete(r.e, old.SubnetId, old.Address)]
    ELSE r

\* Mutant: no check that RequestAddr lies in this subnet.
AllocateLeaseNoSubnetCheck(env, e, ctx) ==
    LET host == GetHostWithMac(env.hosts, ctx.Mac)
        old  == findOldLease(e.st, ctx)
        r    == allocateLeaseWithAddr(env, e, ctx.RequestAddr, ctx)
    IN
    IF addressIsReserved(env, ctx.RequestAddr, ctx.Mac) THEN Fail(e, "ErrWantReservedAddress")
    ELSE IF /\ host # NoHost
            /\ host.ReserveAddr # ctx.RequestAddr
            /\ ReservedAddrAvailable(env, e, host, ctx)
        THEN Fail(e, "ErrNotWantReservedAddr")
    ELSE IF old # NoLease /\ old.Address = ctx.RequestAddr THEN renewLease(env, e, old, ctx)
    ELSE IF old # NoLease /\ r.lease # NoLease /\ old.Address # r.lease.Address
        THEN [r EXCEPT !.e = HybridDelete(r.e, old.SubnetId, old.Address)]
    ELSE r

\* Mutant: the client's previous lease is not deleted.
AllocateLeaseKeepOld(env, e, ctx) ==
    LET host == GetHostWithMac(env.hosts, ctx.Mac)
        old  == findOldLease(e.st, ctx)
        r    == allocateLeaseWithAddr(env, e, ctx.RequestAddr, ctx)
    IN
    IF addressIsReserved(env, ctx.RequestAddr, ctx.Mac) THEN Fail(e, "ErrWantReservedAddress")
    ELSE IF /\ host # NoHost
            /\ host.ReserveAddr # ctx.RequestAddr
            /\ ReservedAddrAvailable(env, e, host, ctx)
        THEN Fail(e, "ErrNotWantReservedAddr")
    ELSE IF old # NoLease /\ old.Address = ctx.RequestAddr THEN renewLease(env, e, old, ctx)
    ELSE IF host = NoHost /\ ~IncludeAddr(env.sub, ctx.RequestAddr)
        THEN Fail(e, "ErrWantAddressInOtherSubnet")
    ELSE r

AllocateLease(env, e, ctx) ==
    LET host == GetHostWithMac(env.hosts, ctx.Mac)
        old  == findOldLease(e.st, ctx)
        r    == allocateLeaseWithAddr(env, e, ctx.RequestAddr, ctx)
    IN
    IF addressIsReserved(env, ctx.RequestAddr, ctx.Mac) THEN Fail(e, "ErrWantReservedAddress")
    ELSE IF /\ host # NoHost
            /\ host.ReserveAddr # ctx.RequestAddr
            /\ ReservedAddrAvailable(env, e, host, ctx)
        THEN Fail(e, "ErrNotWantReservedAddr")
    ELSE IF old # NoLease /\ old.Address = ctx.RequestAddr THEN renewLease(env, e, old, ctx)
    ELSE IF host = NoHost /\ ~IncludeAddr(env.sub, ctx.RequestAddr)
        THEN Fail(e, "ErrWantAddressInOtherSubnet")
    ELSE IF old # NoLease /\ r.lease # NoLease /\ old.Address # r.lease.Address
        THEN [r EXCEPT !.e = HybridDelete(r.e, old.SubnetId, old.Address)]
    ELSE r

ReleaseLease(env, e, ctx) ==
    LET old == findOldLease(e.st, ctx) IN
    IF old = NoLease THEN Fail(e, "ErrRelaseNotExistAddr")
    ELSE IF old.Address # ctx.RequestAddr THEN Fail(e, "ErrRelaseOthersAddr")
    ELSE Done(HybridDelete(e, old.SubnetId, old.Address), NoLease)

DeclineLease(env, e, ctx) ==
    LET old == findOldLease(e.st, ctx) IN
    IF old = NoLease THEN Fail(e, "ErrDeclineNotExistAddr")
    ELSE IF old.Address # ctx.RequestAddr THEN Fail(e, "ErrDeclineOhtersAddr")
    ELSE Done(HybridUpdate(e, Decline(old, env.now)), NoLease)

DeclineConflictIP(env, e, ctx) ==
    LET old == GetLeaseWithIp(e.st, ctx.RequestAddr)
        r   == HybridAdd(e, [Address |-> ctx.RequestAddr, State |-> "Declined",
                             ValidLifeTime |-> env.sub.ValidLifeTime, SubnetId |-> ctx.SubnetId,
                             ClientLastTransTime |-> env.now, ClientId |-> NoClientId,
                             Mac |-> NoMac])
    IN
    IF old = NoLease
    THEN IF r.ok THEN Done(r.e, NoLease) ELSE Fail(r.e, "ErrDeclineConflictAddr")
    ELSE Done(HybridUpdate(e, Decline(old, env.now)), NoLease)

\* The dispatch of AddrAllocator.HandleRequest to the engine.
EngineCall(env, e, ctx) ==
    CASE ctx.RequestType = "Discover"   -> PlanLease(env, e, ctx)
      [] ctx.RequestType = "Request"    -> AllocateLease(env, e, ctx)
      [] ctx.RequestType = "Release"    -> ReleaseLease(env, e, ctx)
      [] ctx.RequestType = "Decline"    -> DeclineLease(env, e, ctx)
      [] ctx.RequestType = "ConflictIP" -> DeclineConflictIP(env, e, ctx)

=============================================================================
