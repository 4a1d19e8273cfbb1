---------------------------- MODULE AddrAllocator ----------------------------
(***************************************************************************)
(* The allocator facade of src/master/addr_allocator.go with its engines   *)
(* (SubnetEngine), the shared-subnet manager (shared_subnet.go) and the    *)
(* hybrid lease manager's write-through to the lease table (LeaseDB).      *)
(*                                                                         *)
(* Every client connection (client.go) runs one request at a time through  *)
(* HandleRequest; connections run concurrently.  One engine call holds the *)
(* subnet's mutex and is one step; the shared-network retries take the     *)
(* next subnet's mutex separately, so other requests interleave between    *)
(* them.  The lease table here is the one the writer pool converges to:    *)
(* each enqueued operation is applied in order at the step that enqueues   *)
(* it (WriterPool refines this with batches and workers).                  *)
(***************************************************************************)
EXTENDS SubnetEngine, LeaseDB, SequencesExt

CONSTANTS
    Subnets,        \* configured subnet ids
    SubnetConf,     \* [Subnets -> [Id, ValidLifeTime, Pools, ReservedPools]]
    HostConf,       \* [Subnets -> SUBSET [Mac, ReserveAddr]]
    SharedConf,     \* shared networks: a sequence of sequences of subnet ids
    Clients,        \* client identities: [Mac: Macs, ClientId: ...]
    RequestAddrs,   \* addresses a request can carry (0 is "none")
    ConflictAnywhere, \* may a ConflictIP name an address outside its subnet?
    Handlers,       \* concurrent client connections
    MaxTime,        \* bound on the clock
    NoCall,         \* "no engine call in this step"
    RequestTypes,   \* the ContextMsg request types a run sends
    AdminCmds,      \* the admin commands a run sends
    MaxCmds,        \* bound on the admin commands of a behaviour
    Ttls,           \* default-valid-lifetime values a command carries
    PoolArgs,       \* [Start, End] ranges a pool command carries
    HostArgs,       \* [Mac, ReserveAddr] pairs a host command carries
    NetArgs,        \* [name, ids] a shared-network command carries
    Reloads         \* [subnets, hosts, shared]: the file as a Reconfig reads it

ASSUME RequestTypes \subseteq {"Discover", "Request", "Release", "Decline", "ConflictIP"}
ASSUME DOMAIN SubnetConf \subseteq Subnets /\ DOMAIN HostConf = Subnets
ASSUME \A r \in Reloads : DOMAIN r.subnets \subseteq Subnets /\ DOMAIN r.hosts = Subnets

VARIABLES
    engines,    \* DOMAIN allocator.engines (and engineLocks)
    subnets,    \* engines[id].Subnet() for each id in engines
    hosts,      \* HostManagerInstance().managers: reservations per subnet
    hostMgrs,   \* the subnets that have an entry in managers
    shared,     \* sharedSubnetMgr.sharedSubnets: a sequence of [name, ids]
    stores,     \* the in-memory LeaseStore of each engine
    cursor,     \* IterativeAllocator.lastAllocateAddr of each engine
    db,         \* the lease table
    now,        \* time.Now() in seconds
    hs,         \* per connection: pc, the request context, subnets left to try
    last,       \* the engine call of the last step, for the properties
    crashed,    \* an unrecovered panic ended the process
    cmds        \* admin commands executed so far

vars == <<engines, subnets, hosts, hostMgrs, shared, stores, cursor, db, now, hs, last, crashed, cmds>>
admin == <<engines, subnets, hosts, hostMgrs, shared, cmds>>

Idle == [pc |-> "idle", ctx |-> NoCall, todo |-> <<>>]

(***************************** shared_subnet.go ****************************)

\* GetSubnetsSharedWith: the other members of the first group holding s.
GetSubnetsSharedWith(nets, s) ==
    LET hits == {i \in DOMAIN nets : \E j \in DOMAIN nets[i].ids : nets[i].ids[j] = s} IN
    IF hits = {} THEN <<>>
    ELSE LET g == nets[Min(hits)].ids
             j == Min({k \in DOMAIN g : g[k] = s})
         IN SubSeq(g, 1, j - 1) \o SubSeq(g, j + 1, Len(g))

(***************************** requests ***********************************)

Ctx(t, s, c, a) ==
    [RequestType |-> t, SubnetId |-> s, Mac |-> c.Mac, ClientId |-> c.ClientId,
     RequestAddr |-> a]

\* A ConflictIP carries the address a slave saw in use; its client fields
\* are not read.
Requests ==
    {Ctx(t, s, c, a) : t \in RequestTypes \ {"ConflictIP"}, s \in Subnets,
                       c \in Clients, a \in RequestAddrs}
    \cup
    IF "ConflictIP" \notin RequestTypes THEN {}
    ELSE UNION {{Ctx("ConflictIP", s, CHOOSE c \in Clients : TRUE, a) :
                   a \in {x \in RequestAddrs : ConflictAnywhere \/ IncludeAddr(SubnetConf[s], x)}} :
                s \in DOMAIN SubnetConf}

EnvOf(s) == [sub |-> subnets[s], hosts |-> hosts[s], now |-> now]

\* One engine call on subnet s: the store, the cursor and the lease table
\* take its effects; a panic ends the process.
Call(s, ctx) ==
    LET r == EngineCall(EnvOf(s), [st |-> stores[s], cur |-> cursor[s], ops |-> <<>>], ctx) IN
    /\ stores' = [stores EXCEPT ![s] = r.e.st]
    /\ cursor' = [cursor EXCEPT ![s] = r.e.cur]
    /\ db' = FoldLeft(LAMBDA d, o : ApplyOp(d, o).db, db, r.e.ops)
    /\ crashed' = (r.err = "Panic")
    /\ last' = [ctx |-> ctx, err |-> r.err]

CallOk == last'.err = "ok"

(***************************** addr_allocator.go **************************)

\* client.ioloop reads a request; HandleRequest starts on it.
Receive(h) ==
    /\ ~crashed
    /\ hs[h].pc = "idle"
    /\ \E ctx \in Requests : hs' = [hs EXCEPT ![h] = [pc |-> "first", ctx |-> ctx, todo |-> <<>>]]
    /\ last' = NoCall
    /\ UNCHANGED <<admin, stores, cursor, db, now, crashed>>

\* HandleRequest on a subnet id without an engine: ToLeaseResult(nil).
UnknownSubnet(h) ==
    /\ ~crashed
    /\ hs[h].pc = "first"
    /\ hs[h].ctx.SubnetId \notin engines
    /\ hs' = [hs EXCEPT ![h] = Idle]
    /\ last' = NoCall
    /\ UNCHANGED <<admin, stores, cursor, db, now, crashed>>

\* planLease / allocateLease / releaseLease / declineLease /
\* declineConflictIP: the call in the requested subnet.  On failure every
\* type but ConflictIP goes on to the subnets shared with it.
FirstAttempt(h) ==
    LET ctx == hs[h].ctx IN
    /\ ~crashed
    /\ hs[h].pc = "first"
    /\ ctx.SubnetId \in engines
    /\ Call(ctx.SubnetId, ctx)
    /\ hs' = [hs EXCEPT ![h] =
                IF CallOk \/ ctx.RequestType = "ConflictIP" THEN Idle
                ELSE [pc |-> "shared", ctx |-> ctx,
                      todo |-> GetSubnetsSharedWith(shared, ctx.SubnetId)]]
    /\ UNCHANGED <<admin, now>>

\* One turn of the shared-subnet loop: ctx.SubnetID becomes the next
\* shared subnet.  DISCOVER tries every one; the others only those whose
\* pools contain RequestAddr.
SharedAttempt(h) ==
    LET ctx  == [hs[h].ctx EXCEPT !.SubnetId = Head(hs[h].todo)]
        rest == [pc |-> "shared", ctx |-> ctx, todo |-> Tail(hs[h].todo)]
    IN
    /\ ~crashed
    /\ hs[h].pc = "shared"
    /\ hs[h].todo # <<>>
    /\ ctx.SubnetId \in engines
    /\ IF ctx.RequestType = "Discover" \/ IncludeAddr(subnets[ctx.SubnetId], ctx.RequestAddr)
       THEN /\ Call(ctx.SubnetId, ctx)
            /\ hs' = [hs EXCEPT ![h] = IF CallOk THEN Idle ELSE rest]
            /\ UNCHANGED <<admin, now>>
       ELSE /\ hs' = [hs EXCEPT ![h] = rest]
            /\ last' = NoCall
            /\ UNCHANGED <<admin, stores, cursor, db, now, crashed>>

\* The shared network names a subnet without an engine: engineLocks[id]
\* is a nil *sync.Mutex (DISCOVER) and engines[id] a nil Engine (the
\* others), and either dereference panics.
NilEngine(h) ==
    /\ ~crashed
    /\ hs[h].pc = "shared"
    /\ hs[h].todo # <<>>
    /\ Head(hs[h].todo) \notin engines
    /\ crashed' = TRUE
    /\ last' = NoCall
    /\ UNCHANGED <<admin, stores, cursor, db, now, hs>>

\* No shared subnet served the request: ToLeaseResult(nil).
GiveUp(h) ==
    /\ ~crashed
    /\ hs[h].pc = "shared"
    /\ hs[h].todo = <<>>
    /\ hs' = [hs EXCEPT ![h] = Idle]
    /\ last' = NoCall
    /\ UNCHANGED <<admin, stores, cursor, db, now, crashed>>

\* Time passes; leases expire lazily against time.Now().
Tick ==
    /\ ~crashed
    /\ now < MaxTime
    /\ now' = now + 1
    /\ last' = NoCall
    /\ UNCHANGED <<admin, stores, cursor, db, hs, crashed>>

(***************************** subnet_command.go **************************)
(* An admin command runs under cmdExecuteLock after stopClient has        *)
(* stopped every connection (Server models that gate); here it is one     *)
(* step taken while no request is in progress.  A command whose lookup    *)
(* fails returns before changing anything and is not a step.              *)

EngineOf(s) == [st |-> stores[s], cur |-> cursor[s], ops |-> <<>>]

\* The hybrid lease manager's effects of a command on subnet s.
WriteThrough(s, e) ==
    /\ stores' = [stores EXCEPT ![s] = e.st]
    /\ db' = FoldLeft(LAMBDA d, o : ApplyOp(d, o).db, db, e.ops)

\* HybridLeaseManager.DeleteSubnet: memory, then the writer pool.
HybridDeleteSubnet(e, s) ==
    [e EXCEPT !.st = DeleteSubnet(@, s),
              !.ops = Append(@, [op |-> "deleteSubnet", subnet |-> s])]

\* HybridLeaseManager.DeletePool: memory, then the writer pool.
HybridDeletePool(e, s, p) ==
    [e EXCEPT !.st = DeletePool(@, s, p.Start, p.End),
              !.ops = Append(@, [op |-> "deletePool", subnet |-> s, start |-> p.Start, end |-> p.End])]

\* deletePoolFromPools: the first pool with the same bounds is cut out.
deletePoolFromPools(p, pools) ==
    RemoveAt(pools, Min({i \in DOMAIN pools : pools[i] = p}))

AdminGate(cmd) ==
    /\ ~crashed
    /\ cmd \in AdminCmds
    /\ cmds < MaxCmds
    /\ \A h \in Handlers : hs[h].pc = "idle"
    /\ cmds' = cmds + 1
    /\ last' = NoCall

\* addSubnet: a new engine with no pools, a new store and a new cursor; it
\* takes the host manager still registered under the id.
AddSubnetCmd(s, ttl) ==
    /\ AdminGate("AddSubnet")
    /\ s \notin engines
    /\ engines' = engines \cup {s}
    /\ subnets' = (s :> [Id |-> s, ValidLifeTime |-> ttl, Pools |-> <<>>, ReservedPools |-> <<>>])
                   @@ subnets
    /\ stores' = [stores EXCEPT ![s] = EmptyStore]
    /\ cursor' = [cursor EXCEPT ![s] = 0]
    /\ UNCHANGED <<hosts, hostMgrs, shared, db, now, hs, crashed>>

\* deleteSubnet: the leases go from memory and table, the engine and its
\* lock from the maps; shared networks and host managers keep the id.
DeleteSubnetCmd(s) ==
    /\ AdminGate("DeleteSubnet")
    /\ s \in engines
    /\ WriteThrough(s, HybridDeleteSubnet(EngineOf(s), s))
    /\ engines' = engines \ {s}
    /\ subnets' = [x \in engines' |-> subnets[x]]
    /\ UNCHANGED <<hosts, hostMgrs, shared, cursor, now, hs, crashed>>

\* updateSubnet: the lifetime of leases given from now on.
UpdateSubnetCmd(s, ttl) ==
    /\ AdminGate("UpdateSubnet")
    /\ s \in engines
    /\ subnets' = [subnets EXCEPT ![s].ValidLifeTime = ttl]
    /\ UNCHANGED <<engines, hosts, hostMgrs, shared, stores, cursor, db, now, hs, crashed>>

\* Pools of one subnet do not overlap (spec 3: an invariant of the
\* configuration that nothing re-checks).
Overlaps(p, q) == p.Start <= q.End /\ q.Start <= p.End

\* addPool, dynamic pool: appended.  The code does not check overlap; the
\* command's pool is one the operator may give, one overlapping no pool.
AddPoolCmd(s, p) ==
    /\ AdminGate("AddPool")
    /\ s \in engines
    /\ \A i \in DOMAIN subnets[s].Pools : ~Overlaps(p, subnets[s].Pools[i])
    /\ subnets' = [subnets EXCEPT ![s].Pools = Append(@, p)]
    /\ UNCHANGED <<engines, hosts, hostMgrs, shared, stores, cursor, db, now, hs, crashed>>

\* addPool, reserved pool: the leases in the range are deleted first.
AddReservedPoolCmd(s, p) ==
    /\ AdminGate("AddReservedPool")
    /\ s \in engines
    /\ WriteThrough(s, HybridDeletePool(EngineOf(s), s, p))
    /\ subnets' = [subnets EXCEPT ![s].ReservedPools = Append(@, p)]
    /\ UNCHANGED <<engines, hosts, hostMgrs, shared, cursor, now, hs, crashed>>

\* deletePool, dynamic pool: cut out of Pools, its leases deleted.  The
\* IterativeAllocator's lastAllocateAddr is left as it was.
DeletePoolCmd(s, p) ==
    /\ AdminGate("DeletePool")
    /\ s \in engines
    /\ \E i \in DOMAIN subnets[s].Pools : subnets[s].Pools[i] = p
    /\ subnets' = [subnets EXCEPT ![s].Pools = deletePoolFromPools(p, @)]
    /\ WriteThrough(s, HybridDeletePool(EngineOf(s), s, p))
    /\ UNCHANGED <<engines, hosts, hostMgrs, shared, cursor, now, hs, crashed>>

\* deletePool, reserved pool: cut out of ReservedPools; leases untouched.
DeleteReservedPoolCmd(s, p) ==
    /\ AdminGate("DeleteReservedPool")
    /\ s \in engines
    /\ \E i \in DOMAIN subnets[s].ReservedPools : subnets[s].ReservedPools[i] = p
    /\ subnets' = [subnets EXCEPT ![s].ReservedPools = deletePoolFromPools(p, @)]
    /\ UNCHANGED <<engines, hosts, hostMgrs, shared, stores, cursor, db, now, hs, crashed>>

\* addPool with a hardware address: HostStore.AddHost, whose error on a
\* MAC that already has a host is dropped.  A lease already at the
\* address is left in place.
AddHostCmd(s, h) ==
    /\ AdminGate("AddHost")
    /\ s \in engines
    /\ hostMgrs' = hostMgrs \cup {s}
    /\ hosts' = [hosts EXCEPT ![s] = IF GetHostWithMac(@, h.Mac) = NoHost THEN @ \cup {h} ELSE @]
    /\ UNCHANGED <<engines, subnets, shared, stores, cursor, db, now, hs, crashed>>

\* deletePool with a hardware address: the lease at the address is
\* deleted, whoever holds it, and only then HostStore.DeleteHost looks the
\* host up; a MAC without a host or with another address is an error
\* that leaves the host in place.
DeleteHostCmd(s, h) ==
    /\ AdminGate("DeleteHost")
    /\ s \in engines
    /\ s \in hostMgrs
    /\ WriteThrough(s, HybridDelete(EngineOf(s), s, h.ReserveAddr))
    /\ hosts' = [hosts EXCEPT ![s] = @ \ {h}]
    /\ UNCHANGED <<engines, subnets, hostMgrs, shared, cursor, now, hs, crashed>>

\* The first shared network with the name.
NetIndex(name) == {i \in DOMAIN shared : shared[i].name = name}

\* addSharedNetwork: appended, with no check of its ids or its name.
AddSharedNetworkCmd(n) ==
    /\ AdminGate("AddSharedNetwork")
    /\ shared' = Append(shared, n)
    /\ UNCHANGED <<engines, subnets, hosts, hostMgrs, stores, cursor, db, now, hs, crashed>>

\* deleteSharedNetwork: the first network with the name is cut out.
DeleteSharedNetworkCmd(name) ==
    /\ AdminGate("DeleteSharedNetwork")
    /\ NetIndex(name) # {}
    /\ shared' = RemoveAt(shared, Min(NetIndex(name)))
    /\ UNCHANGED <<engines, subnets, hosts, hostMgrs, stores, cursor, db, now, hs, crashed>>

\* updateSharedNetwork: the first network with the name gets the ids.
UpdateSharedNetworkCmd(n) ==
    /\ AdminGate("UpdateSharedNetwork")
    /\ NetIndex(n.name) # {}
    /\ shared' = [shared EXCEPT ![Min(NetIndex(n.name))].ids = n.ids]
    /\ UNCHANGED <<engines, subnets, hosts, hostMgrs, stores, cursor, db, now, hs, crashed>>

(***************************** reloadConf ********************************)

\* LoadSubnet's host registry: initHostManagers empties it, then every
\* subnet of the file with reservations registers a new HostStore.
HostManagersOf(h) == {s \in Subnets : h[s] # {}}

\* The table after LeaseDBPool.LoadLease of the file r: LeaseDB.LoadLease
\* of each subnet of r, and allocateDBConn's DeleteLease(id, nil) of every
\* indexed subnet r no longer names.  Every subnet that ever had an engine
\* is indexed (at start, or by addSubnet's AllocateNewDBConn), so that is
\* every other subnet.  Rows of distinct subnets are disjoint, so the
\* order of the loads and of the asynchronous deletions does not change
\* the result (WriterPool checks those steps).
ReloadTable(d, r) ==
    FoldSet(LAMBDA s, t : ReloadLease(t, r.subnets[s]),
            FoldSet(LAMBDA s, t : DeleteSubnetInTx(t, s), d, Subnets \ DOMAIN r.subnets),
            DOMAIN r.subnets)

\* AddrAllocator.reloadConf: new stores loaded from the table, new engines
\* with their cursor at 0, and the file's shared networks.
reloadConf(r) ==
    /\ db' = ReloadTable(db, r)
    /\ stores' \in LoadConfig(db', DOMAIN r.subnets, Subnets)
    /\ engines' = DOMAIN r.subnets
    /\ subnets' = r.subnets
    /\ hosts' = r.hosts
    /\ hostMgrs' = HostManagersOf(r.hosts)
    /\ shared' = r.shared
    /\ cursor' = [s \in Subnets |-> 0]

\* Server.reloadConf on the Reconfig command: the file parsed, stopClient,
\* and, with an allocator, its reloadConf (without one, the start: Init).
\* A file that fails to parse makes HandleCmd panic; the files here parse.
ReconfigCmd(r) ==
    /\ AdminGate("Reconfig")
    /\ reloadConf(r)
    /\ UNCHANGED <<now, hs, crashed>>

Init ==
    /\ engines = DOMAIN SubnetConf
    /\ subnets = SubnetConf
    /\ hosts = HostConf
    /\ hostMgrs = HostManagersOf(HostConf)
    /\ shared = SharedConf
    /\ stores = [s \in Subnets |-> EmptyStore]
    /\ cursor = [s \in Subnets |-> 0]
    /\ db = EmptyTable
    /\ now = 0
    /\ hs = [h \in Handlers |-> Idle]
    /\ last = NoCall
    /\ crashed = FALSE
    /\ cmds = 0

Next ==
    \/ \E h \in Handlers :
          \/ Receive(h) \/ UnknownSubnet(h) \/ FirstAttempt(h)
          \/ SharedAttempt(h) \/ NilEngine(h) \/ GiveUp(h)
    \/ Tick
    \/ \E s \in Subnets :
          \/ DeleteSubnetCmd(s)
          \/ \E ttl \in Ttls : AddSubnetCmd(s, ttl) \/ UpdateSubnetCmd(s, ttl)
          \/ \E p \in PoolArgs :
                AddPoolCmd(s, p) \/ AddReservedPoolCmd(s, p) \/ DeletePoolCmd(s, p) \/ DeleteReservedPoolCmd(s, p)
          \/ \E h \in HostArgs : AddHostCmd(s, h) \/ DeleteHostCmd(s, h)
    \/ \E n \in NetArgs :
          AddSharedNetworkCmd(n) \/ DeleteSharedNetworkCmd(n.name) \/ UpdateSharedNetworkCmd(n)
    \/ \E r \in Reloads : ReconfigCmd(r)

Spec == Init /\ [][Next]_vars

(******************************** properties *******************************)

Leases ==
    [Address: IPs, SubnetId: Subnets, State: {"Normal", "Declined"},
     Mac: Macs \cup {NoMac}, ClientId: ClientIds \cup {NoClientId},
     ClientLastTransTime: 0..MaxTime,
     ValidLifeTime: UNION {{c[s].ValidLifeTime : s \in DOMAIN c} : c \in {SubnetConf} \cup {r.subnets : r \in Reloads}} \cup Ttls]

TypeOK ==
    /\ stores \in [Subnets -> [ip: [IPs -> Leases \cup {NoLease}],
                               mac: [Macs -> Leases \cup {NoLease}],
                               cid: [ClientIds -> Leases \cup {NoLease}]]]
    /\ cursor \in [Subnets -> IPs]
    /\ db \in [IPs -> {FromLease(l) : l \in Leases} \cup {NoLease}]
    /\ now \in 0..MaxTime
    /\ \A h \in Handlers : hs[h].pc \in {"idle", "first", "shared"}
    /\ crashed \in BOOLEAN
    /\ engines \subseteq Subnets /\ hostMgrs \subseteq Subnets
    /\ cmds \in 0..MaxCmds

HeldBy(s, a) == stores[s].ip[a]

(***************************************************************************)
(* Spec 3 and 8.1: in every engine's store a MAC or client id found        *)
(* through its index leads to the lease the address index holds at that   *)
(* lease's address.  DeleteLease clears a secondary entry only while it    *)
(* still points at the deleted address, and DeleteSubnet only when it      *)
(* points into the subnet; a renewal by another client, a release, a pool  *)
(* or host deletion that slips leaves findOldLease a lease no longer in    *)
(* the store, or one at an address since given to another client.         *)
(***************************************************************************)
IndexConsistent == \A s \in Subnets : Indexed(stores[s])

(***************************************************************************)
(* The hybrid manager's contract (spec 4.6, 8.2): once the writer pool has *)
(* applied what was enqueued, the lease table holds exactly the leases of  *)
(* the in-memory stores, each row the encoding of its lease, and every row *)
(* belongs to the store of its subnet.  It fails when memory accepts a     *)
(* change the table refuses or applies differently (an INSERT on an        *)
(* address another subnet's row holds, an UPDATE of a row that is not      *)
(* there), or when a path changes memory without enqueuing its operation.  *)
(***************************************************************************)
MemoryMatchesDB ==
    \A a \in IPs :
        /\ \A s \in Subnets : HeldBy(s, a) # NoLease => db[a] = FromLease(HeldBy(s, a))
        /\ db[a] # NoLease => HeldBy(db[a].SubnetId, a) # NoLease

(***************************************************************************)
(* A client holds at most one Normal lease in a subnet.  A REQUEST for a   *)
(* new address deletes the client's previous lease only after the new one  *)
(* is stored, and findOldLease must find that previous lease by client id  *)
(* or MAC; a path that forgets either leaves the client two addresses.     *)
(***************************************************************************)
OneLeasePerClient ==
    \A s \in Subnets, c \in Clients :
        \A a, b \in IPs :
            (/\ HeldBy(s, a) # NoLease /\ HeldBy(s, b) # NoLease
             /\ HeldBy(s, a).State = "Normal" /\ HeldBy(s, b).State = "Normal"
             /\ HeldBy(s, a).Mac = c.Mac /\ HeldBy(s, b).Mac = c.Mac) => a = b

(***************************************************************************)
(* No engine call leaves a Normal lease it wrote at an address reserved    *)
(* against its owner: a host reservation of another MAC, or a reserved     *)
(* pool without a reservation for this MAC (addressIsReserved).  Leases    *)
(* reach an address through REQUEST, renewal, expired-lease stealing and   *)
(* shared-subnet retries; a path that skips the check lets a client occupy *)
(* another's reserved IP.  A lease that was already there when an admin    *)
(* command reserved its address is left to expire and is not a write.     *)
(***************************************************************************)
ReservationRespected ==
    [][last' # NoCall =>
         \A s \in engines, a \in IPs :
             LET l == stores'[s].ip[a] IN
             (l # HeldBy(s, a) /\ l # NoLease /\ l.State = "Normal")
                 => ~addressIsReserved(EnvOf(s), a, l.Mac)]_vars

\* The address is one the client could be given in subnet s right now.
FreeFor(s, a, m) ==
    /\ IncludeAddr(subnets[s], a)
    /\ ~addressIsReserved(EnvOf(s), a, m)
    /\ HeldBy(s, a) = NoLease \/ IsExpired(HeldBy(s, a), now)

(***************************************************************************)
(* A DISCOVER answers ErrNoAddressLeft only when no address of the subnet  *)
(* was free for the client: the IterativeAllocator cursor, starting        *)
(* wherever earlier calls left it, visits every pool address within        *)
(* Capacity() picks, across pool boundaries and the wrap to pool[0].       *)
(***************************************************************************)
ScanComplete ==
    [][last' # NoCall /\ last'.ctx.RequestType = "Discover" /\ last'.err = "ErrNoAddressLeft"
         => ~\E a \in IPs : FreeFor(last'.ctx.SubnetId, a, last'.ctx.Mac)]_vars

(***************************************************************************)
(* Spec 8.6: DISCOVER changes neither the lease stores nor the table.      *)
(* renewLease and allocateLeaseWithAddr are shared with REQUEST and decide *)
(* by RequestType whether to write.                                        *)
(***************************************************************************)
DiscoverNoPersist ==
    [][last' # NoCall /\ last'.ctx.RequestType = "Discover"
         => UNCHANGED <<stores, db>>]_vars

(***************************************************************************)
(* No address is held by Normal, unexpired leases of two different         *)
(* clients in two subnets (within one subnet the store holds one lease per *)
(* address; the lease table's UNIQUE key on address says the same).       *)
(***************************************************************************)
NoAddressLeasedTwice ==
    \A a \in IPs, s, t \in Subnets :
        LET x == HeldBy(s, a)
            y == HeldBy(t, a)
        IN (/\ s # t /\ x # NoLease /\ y # NoLease
            /\ x.State = "Normal" /\ y.State = "Normal"
            /\ ~IsExpired(x, now) /\ ~IsExpired(y, now)) => x.Mac = y.Mac

(***************************************************************************)
(* Spec 4.2.3: a REQUEST from a client whose reservation X differs from    *)
(* RequestAddr fails with ErrNotWantReservedAddr when the lease at X is    *)
(* held by someone else (present, unexpired, another MAC).                 *)
(***************************************************************************)
RedirectAsSpecified ==
    [][(last' # NoCall /\ last'.err = "ErrNotWantReservedAddr")
         => LET s == last'.ctx.SubnetId
                o == HeldBy(s, GetHostWithMac(hosts[s], last'.ctx.Mac).ReserveAddr)
            IN o # NoLease /\ ~IsExpired(o, now) /\ o.Mac # last'.ctx.Mac]_vars


(***************************************************************************)
(* Spec 4.5 and 4.7: a Reconfig deletes only the rows outside the reloaded *)
(* pools.  Every lease an engine held before the reload, in a subnet the   *)
(* file still names and at an address inside one of that subnet's pools   *)
(* in the file, is the lease of the new store at that address afterwards. *)
(* The lease travels through the table: it needs the table to have kept   *)
(* up with memory, deleteLeaseNotInSubnet to spare exactly the pools, and  *)
(* FromLease then ToLease to give the lease back unchanged.                *)
(***************************************************************************)
ReloadKeepsPoolLeases ==
    [][\A r \in Reloads :
         ReconfigCmd(r) =>
             \A s \in engines \cap DOMAIN r.subnets, a \in IPs :
                 (HeldBy(s, a) # NoLease /\ IncludeAddr(r.subnets[s], a))
                     => stores'[s].ip[a] = HeldBy(s, a)]_vars

(***************************************************************************)
(* Spec 5: the engine panics only on programmer errors, never on data; and *)
(* spec 4.1: a picker cursor that no pool contains any more "(pools were   *)
(* edited)" is reset to pool[0].start.  So no sequence of admin commands   *)
(* and requests ends the process: DeletePool must not leave PickAddr a     *)
(* cursor it dereferences through a nil pool, and DeleteSubnet must not    *)
(* leave a shared network naming an id whose engine and lock are gone.    *)
(***************************************************************************)
NoPanic == ~crashed

=============================================================================
