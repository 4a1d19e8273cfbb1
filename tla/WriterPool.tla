----------------------------- MODULE WriterPool -----------------------------
(***************************************************************************)
(* The lease write-behind of src/master/lease_db_pool.go: DBCount workers,  *)
(* each with a buffered channel of operations (OptChanBufferLen), a batch  *)
(* flushed in one transaction when it reaches OptBufCount or when the      *)
(* 10 s ticker fires, and the map subnetToDbIndex that sends each subnet's *)
(* operations to one worker.  The producers are the engines' hybrid lease  *)
(* managers (an engine call is one step under its subnet's mutex) and the  *)
(* admin commands AddSubnet, DeleteSubnet and Reconfig.  The process may  *)
(* crash and restart from the table.                                       *)
(***************************************************************************)
EXTENDS SubnetEngine, LeaseDB, SequencesExt

CONSTANTS
    Subnets,       \* subnet ids
    Leases,        \* the leases the engines may write
    InitSubnets,   \* the subnets of the configuration loaded at startup
    AddIds,        \* subnet ids an AddSubnet command may carry
    DeleteIds,     \* subnet ids a DeleteSubnet command may carry
    DBCount,       \* DefaultDBConnCount
    BatchMax,      \* OptBufCount
    ChanMax,       \* OptChanBufferLen
    MaxSteps,      \* bound on engine writes plus admin commands
    Configs,       \* the subnet sets the configuration file may hold
    MaxCrashes,    \* bound on crashes
    NoWorker       \* subnetToDbIndex has no entry

Workers == 0 .. DBCount - 1

ASSUME InitSubnets \subseteq Subnets /\ Configs \subseteq SUBSET Subnets /\ NoWorker \notin Workers

VARIABLES
    mem,       \* [Subnets -> store]: each engine's in-memory index
    engines,   \* subnets with an engine (allocator.engines)
    index,     \* subnetToDbIndex
    chan,      \* optChans: [Workers -> Seq(op)]
    buf,       \* each runDB's optBuf
    table,     \* the lease table
    steps,     \* engine writes and admin commands so far
    exited,    \* the process has ended
    phase,     \* a Reconfig: "idle", "old" (reloading the old subnets), "new"
    cfg,       \* the configuration the last Reconfig read
    waiting,   \* subnets whose LoadLease notifyChan has not yet fired
    fresh,     \* [Subnets -> store]: the stores reloadConf loads into
    crashes    \* crashes so far

reconf == <<phase, cfg, waiting, fresh>>
vars == <<mem, engines, index, chan, buf, table, steps, exited, reconf, crashes>>

(********************************* helpers *********************************)

\* The hybrid manager of subnet s, as SubnetEngine's operators see it.
Engine(s) == [st |-> mem[s], cur |-> 0, ops |-> <<>>]

\* asyncDoOption: a subnet with a worker sends to that worker's channel,
\* blocking while it is full; an unknown subnet's operation is dropped.
AsyncDoOption(s, ops) ==
    IF index[s] = NoWorker
    THEN UNCHANGED chan
    ELSE /\ Len(chan[index[s]]) + Len(ops) <= ChanMax
         /\ chan' = [chan EXCEPT ![index[s]] = @ \o ops]

\* One statement after another in one transaction.  PostgreSQL aborts the
\* transaction at the first failing statement (an INSERT on an existing
\* address), ignores the rest, and turns the Commit into a rollback.
RECURSIVE RunTx(_, _)
RunTx(d, ops) ==
    IF ops = <<>> THEN [db |-> d, ok |-> TRUE]
    ELSE LET r == ApplyOp(d, Head(ops)) IN
         IF r.ok THEN RunTx(r.db, Tail(ops)) ELSE [db |-> d, ok |-> FALSE]

\* flushDBOp: Begin, replay the batch, Commit.
FlushDBOp(d, batch) == IF RunTx(d, batch).ok THEN RunTx(d, batch).db ELSE d

\* allocateDBConn at startup: every subnet is new and gets the next index
\* round-robin, in the (random) order of the map iteration.
RoundRobin(order) ==
    [s \in Subnets |->
        IF s \in Range(order)
        THEN ((CHOOSE i \in DOMAIN order : order[i] = s) - 1) % DBCount
        ELSE NoWorker]

\* The operations of ops that go to worker w under the index ix.
ForWorker(ops, ix, w) == SelectSeq(ops, LAMBDA o : ix[o.subnet] = w)

\* Sends dels under index ix1, then loads under ix2, each op to its
\* subnet's worker; the senders block while a channel has no room.
Send(dels, ix1, loads, ix2) ==
    LET add(w) == ForWorker(dels, ix1, w) \o ForWorker(loads, ix2, w) IN
    /\ \A w \in Workers : Len(chan[w]) + Len(add(w)) <= ChanMax
    /\ chan' = [w \in Workers |-> chan[w] \o add(w)]

\* An OptLoadLease per subnet of the sequence o, and the
\* DeleteLease(id, nil) allocateDBConn sends for a removed subnet.
LoadOps(o) == [i \in DOMAIN o |-> [op |-> "load", subnet |-> o[i]]]
DropOps(o) == [i \in DOMAIN o |-> [op |-> "deleteSubnet", subnet |-> o[i]]]

(************************** engines (producers) ****************************)

\* An engine call ends in one hybrid-manager write, which memory applies
\* and asyncDoOption sends on; the call holds the subnet's mutex meanwhile.
Produce(s, e2) ==
    /\ ~exited /\ phase = "idle"
    /\ steps < MaxSteps
    /\ mem' = [mem EXCEPT ![s] = e2.st]
    /\ AsyncDoOption(s, e2.ops)
    /\ steps' = steps + 1
    /\ UNCHANGED <<engines, index, buf, table, exited, reconf, crashes>>

\* pool.AddLease of a lease memory accepted (the engine adds a free address).
EngineAdd(s, l) ==
    /\ s \in engines /\ l.SubnetId = s
    /\ HybridAdd(Engine(s), l).ok
    /\ Produce(s, HybridAdd(Engine(s), l).e)

\* pool.UpdateLease of a lease the engine found in memory (renew, decline).
EngineUpdate(s, l) ==
    /\ s \in engines /\ l.SubnetId = s
    /\ mem[s].ip[l.Address] # NoLease
    /\ Produce(s, HybridUpdate(Engine(s), l))

\* pool.DeleteLease of a lease the engine found in memory (release).
EngineDelete(s, a) ==
    /\ s \in engines
    /\ mem[s].ip[a] # NoLease
    /\ Produce(s, HybridDelete(Engine(s), s, a))

(******************************** runDB ************************************)

\* Mutant: the size check is made before the append.
BatchLate(w, o) ==
    LET batch == Append(buf[w], o) IN
    IF Len(buf[w]) = BatchMax
    THEN table' = FlushDBOp(table, batch) /\ buf' = [buf EXCEPT ![w] = <<>>]
    ELSE buf' = [buf EXCEPT ![w] = batch] /\ UNCHANGED table

\* optBuf = append(optBuf, opt), flushed once it holds OptBufCount.
Batch(w, o) ==
    LET batch == Append(buf[w], o) IN
    IF Len(batch) = BatchMax
    THEN /\ table' = FlushDBOp(table, batch)
         /\ buf' = [buf EXCEPT ![w] = <<>>]
    ELSE /\ buf' = [buf EXCEPT ![w] = batch]
         /\ UNCHANGED table

\* Mutant: the rows are read before the batch is flushed.
LoadStepNoFlush(w, s) ==
    /\ table' = FlushDBOp(table, buf[w])
    /\ buf' = [buf EXCEPT ![w] = <<>>]
    /\ fresh' \in {[fresh EXCEPT ![s] = st] : st \in LoadLease(table, s)}
    /\ waiting' = waiting \ {s}

\* OptLoadLease: flushDBOp first, then LeaseDB.LoadLease reads the
\* subnet's rows into the new store and signals notifyChan.
LoadStep(w, s) ==
    LET t == FlushDBOp(table, buf[w]) IN
    /\ table' = t
    /\ buf' = [buf EXCEPT ![w] = <<>>]
    /\ fresh' \in {[fresh EXCEPT ![s] = st] : st \in LoadLease(t, s)}
    /\ waiting' = waiting \ {s}

\* runDB receives the next operation of its channel.
Receive(w) ==
    /\ ~exited
    /\ chan[w] # <<>>
    /\ chan' = [chan EXCEPT ![w] = Tail(@)]
    /\ IF Head(chan[w]).op = "load"
       THEN LoadStep(w, Head(chan[w]).subnet)
       ELSE Batch(w, Head(chan[w])) /\ UNCHANGED <<waiting, fresh>>
    /\ UNCHANGED <<mem, engines, index, steps, exited, phase, cfg, crashes>>

\* The flusher ticker fires (an empty batch is a no-op, left out).
Ticker(w) ==
    /\ ~exited
    /\ buf[w] # <<>>
    /\ table' = FlushDBOp(table, buf[w])
    /\ buf' = [buf EXCEPT ![w] = <<>>]
    /\ UNCHANGED <<mem, engines, index, chan, steps, exited, reconf, crashes>>

(***************************** admin commands ******************************)

\* HybridLeaseManager.DeleteSubnet: memory, then pool.DeleteSubnet.
HybridDeleteSubnet(e, s) ==
    [e EXCEPT !.st = DeleteSubnet(@, s),
              !.ops = Append(@, [op |-> "deleteSubnet", subnet |-> s])]

\* deleteSubnet: drops the engine; subnetToDbIndex keeps its entry.
DeleteSubnetCmd(s) ==
    /\ ~exited /\ phase = "idle" /\ steps < MaxSteps
    /\ s \in DeleteIds \cap engines
    /\ mem' = [mem EXCEPT ![s] = HybridDeleteSubnet(Engine(s), s).st]
    /\ AsyncDoOption(s, HybridDeleteSubnet(Engine(s), s).ops)
    /\ engines' = engines \ {s}
    /\ steps' = steps + 1
    /\ UNCHANGED <<index, buf, table, exited, reconf, crashes>>

\* addSubnet: a new engine over an empty store, and AllocateNewDBConn
\* assigns a worker chosen by rand.Intn(DefaultDBConnCount).
AddSubnetCmd(s, w) ==
    /\ ~exited /\ phase = "idle" /\ steps < MaxSteps
    /\ s \in AddIds \ engines
    /\ mem' = [mem EXCEPT ![s] = EmptyStore]
    /\ engines' = engines \cup {s}
    /\ index' = [index EXCEPT ![s] = w]
    /\ steps' = steps + 1
    /\ UNCHANGED <<chan, buf, table, exited, reconf, crashes>>

\* The Stop command: Server.stop closes the listener and the connections,
\* and the process returns from main; LeaseDBPool.Stop is never called.
Exit ==
    /\ ~exited /\ phase = "idle"
    /\ exited' = TRUE
    /\ UNCHANGED <<mem, engines, index, chan, buf, table, steps, reconf, crashes>>

\* Reconfig, AddrAllocator.reloadConf with the config file's subnets c:
\* LeaseDBPool.LoadLease first reloads the subnets of c that have a worker
\* (the old ones), each on its worker, and waits for them all.
ReconfigStart(c) ==
    /\ ~exited /\ phase = "idle" /\ steps < MaxSteps
    /\ LET old == {s \in c : index[s] # NoWorker} IN
       /\ \E o \in SetToSeqs(old) : Send(<<>>, index, LoadOps(o), index)
       /\ waiting' = old
    /\ phase' = "old" /\ cfg' = c
    /\ fresh' = [s \in Subnets |-> EmptyStore]
    /\ steps' = steps + 1
    /\ UNCHANGED <<mem, engines, index, buf, table, exited, crashes>>

\* allocateDBConn: the old subnets, then the new, get workers round robin
\* in map order; every other subnet of the old map gets DeleteLease(id,
\* nil) on its old worker.  Then the new subnets are loaded.
ReconfigAlloc ==
    LET old     == {s \in cfg : index[s] # NoWorker}
        new     == cfg \ old
        removed == {s \in Subnets : index[s] # NoWorker} \ cfg
    IN
    /\ ~exited /\ phase = "old" /\ waiting = {}
    /\ \E o1 \in SetToSeqs(old), o2 \in SetToSeqs(new), od \in SetToSeqs(removed) :
         /\ index' = RoundRobin(o1 \o o2)
         /\ Send(DropOps(od), index, LoadOps(o2), index')
    /\ waiting' = new
    /\ phase' = "new"
    /\ UNCHANGED <<mem, engines, buf, table, steps, exited, cfg, fresh, crashes>>

\* reloadConf installs the engines over the loaded stores.
ReconfigEnd ==
    /\ ~exited /\ phase = "new" /\ waiting = {}
    /\ engines' = cfg
    /\ mem' = [s \in Subnets |-> IF s \in cfg THEN fresh[s] ELSE EmptyStore]
    /\ phase' = "idle"
    /\ UNCHANGED <<index, chan, buf, table, steps, exited, cfg, waiting, fresh, crashes>>

\* The process dies (a panic, a kill) and NewServer starts it again on the
\* config file's subnets c: channels, batches and stores are lost.
\* CreateAddrAllocator assigns workers round robin and loads every subnet
\* of c from the table before any request is served.
CrashRestart(c) ==
    /\ ~exited /\ crashes < MaxCrashes
    /\ \E o \in SetToSeqs(c) : index' = RoundRobin(o)
    /\ engines' = c
    /\ mem' \in LoadConfig(table, c, Subnets)
    /\ chan' = [w \in Workers |-> <<>>]
    /\ buf' = [w \in Workers |-> <<>>]
    /\ phase' = "idle" /\ cfg' = c /\ waiting' = {}
    /\ fresh' = [s \in Subnets |-> EmptyStore]
    /\ crashes' = crashes + 1
    /\ UNCHANGED <<table, steps, exited>>

(******************************* the system ********************************)

\* Startup: an empty table, so every engine starts with an empty store.
Init ==
    /\ engines = InitSubnets
    /\ mem = [s \in Subnets |-> EmptyStore]
    /\ index \in {RoundRobin(o) : o \in SetToSeqs(InitSubnets)}
    /\ chan = [w \in Workers |-> <<>>]
    /\ buf = [w \in Workers |-> <<>>]
    /\ table = EmptyTable
    /\ steps = 0
    /\ exited = FALSE
    /\ phase = "idle" /\ cfg = InitSubnets /\ waiting = {}
    /\ fresh = [s \in Subnets |-> EmptyStore]
    /\ crashes = 0

Next ==
    \/ \E s \in Subnets, l \in Leases : EngineAdd(s, l) \/ EngineUpdate(s, l)
    \/ \E s \in Subnets, a \in IPs : EngineDelete(s, a)
    \/ \E w \in Workers : Receive(w) \/ Ticker(w)
    \/ \E s \in Subnets : DeleteSubnetCmd(s)
    \/ \E s \in Subnets, w \in Workers : AddSubnetCmd(s, w)
    \/ \E c \in Configs : ReconfigStart(c) \/ CrashRestart(c)
    \/ ReconfigAlloc \/ ReconfigEnd
    \/ Exit

Spec == Init /\ [][Next]_vars

(******************************* properties ********************************)

\* The operations a worker has received or has yet to receive.
Pending(w) == buf[w] \o chan[w]

\* The table once every worker has committed its pending operations, the
\* workers taken in index order.
RECURSIVE ApplyAll(_, _)
ApplyAll(t, ops) == IF ops = <<>> THEN t ELSE ApplyAll(ApplyOp(t, Head(ops)).db, Tail(ops))

\* (An OptLoadLease writes no row.)
Drained ==
    ApplyAll(table, SelectSeq(FlattenSeq([i \in 1 .. DBCount |-> Pending(i - 1)]),
                              LAMBDA o : o.op # "load"))

Quiescent == \A w \in Workers : Pending(w) = <<>>

\* The table as the engines' memory says it should be.
MemoryView ==
    [a \in IPs |->
        IF \E s \in engines : mem[s].ip[a] # NoLease
        THEN FromLease(mem[CHOOSE s \in engines : mem[s].ip[a] # NoLease].ip[a])
        ELSE NoLease]

TypeOK ==
    /\ engines \subseteq Subnets
    /\ index \in [Subnets -> Workers \cup {NoWorker}]
    /\ \A w \in Workers : Len(chan[w]) <= ChanMax /\ Len(buf[w]) < BatchMax
    /\ steps \in 0 .. MaxSteps
    /\ exited \in BOOLEAN
    /\ phase \in {"idle", "old", "new"} /\ cfg \in Configs \cup {InitSubnets} /\ waiting \subseteq cfg
    /\ crashes \in 0 .. MaxCrashes

\* Whenever the workers have nothing pending, the lease table holds exactly
\* the leases in the engines' memory (spec 4.6: memory is the truth, the
\* table its durable copy), across DeleteSubnet, AddSubnet and Reconfig
\* commands, crashes and restarts, and whatever order the workers' tickers
\* fire in.  (Inside a Reconfig the engines are not yet the new ones.)
\* Rows of a subnet without an engine are left out: after a restart on a
\* configuration without it nothing deletes them (README, finding 8).
TableMatchesMemory ==
    Quiescent /\ phase = "idle" =>
        \A a \in IPs :
            (table[a] = NoLease \/ table[a].SubnetId \in engines \/ MemoryView[a] # NoLease)
                => table[a] = MemoryView[a]

\* The write-behind implements LeaseTable: mapping the table to what it
\* becomes once the workers drain, every step of the pool is a step of
\* the synchronous hybrid manager or leaves it unchanged; in particular a
\* flush never changes what the table will hold (per-subnet order, spec 5),
\* a Reconfig reloads each engine with what its subnet's rows will be, and a
\* restart with what the committed table holds.  Once allocateDBConn has
\* dropped them, the subnets a Reconfig removes are no longer engines.
AbsEngines == IF phase = "new" THEN engines \cap cfg ELSE engines
AbsMem ==
    [s \in Subnets |-> IF s \in engines \ AbsEngines THEN DeleteSubnet(mem[s], s) ELSE mem[s]]
\* (LT!ANext is written out with its quantifiers here: TLC 1.7.4 fails to
\* evaluate the instance's own quantified disjunction as an implied action.)
LT == INSTANCE LeaseTable WITH tdb <- Drained, engines <- AbsEngines, mem <- AbsMem
Refines ==
    /\ LT!AInit
    /\ [][\/ \E s \in Subnets, l \in Leases : LT!AAdd(s, l) \/ LT!AUpdate(s, l)
          \/ \E s \in Subnets, a \in IPs : LT!ADelete(s, a)
          \/ \E s \in Subnets : LT!ADeleteSubnet(s) \/ LT!AAddSubnet(s)
          \/ \E R \in SUBSET Subnets : LT!ARemove(R)
          \/ \E c \in Configs : LT!AReload(c) \/ LT!ARestart(c)]_LT!avars

\* Shutdown (spec 4.7): when the process ends, every operation sent to a
\* worker has been committed.
ShutdownFlushed == exited => Quiescent

=============================================================================
