# TLA+ models of the zdhcp DHCPv4 master (`src/master`)

These modules model the lease-allocation core of the DHCPv4 "kea master": the
per-subnet engine that decides leases, the allocator facade that dispatches
requests and retries them across shared subnets, the triple-indexed in-memory
lease store, and the write-through to the lease table. TLC checks them.
`PROJECT.json` lists every component, run, mutant, finding and hazard, and maps
each definition to the source lines it translates.

## 1. The system

| Part | Source | State | Operations |
|---|---|---|---|
| Subnet / pools | `subnet.go` | pools, reserved pools, valid lifetime | `IncludeAddr`, `IsAddrReserved`, `Capacity` |
| Host registry | `host_in_mem.go` | MAC -> reserved IP, per subnet; the registry of host managers | `GetHostWithMac`, `GetHostWithIp`, `AddHost`, `DeleteHost` |
| In-memory lease index | `lease_in_mem.go` | `ip_to_leases`, `mac_to_leases`, `clientid_to_leases` | `AddLease`, `UpdateLease` (= delete + add), `DeleteLease`, `DeleteSubnet`, `DeletePool` |
| Lease table | `lease_in_db.go` | table `zc_lease4`, UNIQUE on address | the `*InTx` statements, `LoadLease` |
| Hybrid manager | `hybrid_lease_manager.go` | none of its own | writes memory, then enqueues the DB op if memory accepted it |
| Writer pool | `lease_db_pool.go` | 8 workers, each with a channel (1024), a batch (40) and a 10 s ticker; subnet -> worker map | `asyncDoOption`, `runDB`'s flush, `LoadLease`, `allocateDBConn` |
| Address picker | `iterative_allocator.go` | `lastAllocateAddr` cursor | `PickAddr` |
| Subnet engine | `engine.go` | an index, a picker and hosts | `PlanLease` (DISCOVER), `AllocateLease` (REQUEST), `ReleaseLease`, `DeclineLease`, `DeclineConflictIP` |
| Shared-subnet manager | `shared_subnet.go` | named groups of subnet ids | `GetSubnetsSharedWith`, add/delete/update of a group |
| Allocator facade | `addr_allocator.go` | engines and one mutex per engine | `HandleRequest`: first attempt, then shared-subnet retries |
| Request server | `server.go`, `client.go` | connections, `clientsLock`, `duringReconfig` | accept loop, a connection's read-handle-write loop, `stopClient`, `removeClient`, `stop` |
| Admin commands | `server_command.go`, `subnet_command.go`, `command/raw_tcp.go` | `cmdExecuteLock`, `RawTCP.clients` | an admin connection's read-handle-reply loop; Stop, GetClientCount, Reconfig, Add/Delete/UpdateSubnet, Add/DeletePool (dynamic, reserved or host), Add/Delete/UpdateSharedNetwork |

How the parts interact:
- A connection's goroutine reads a request and calls `HandleRequest`.
- `HandleRequest` locks the subnet's engine and calls it.
- The engine reads the in-memory index and the hosts. It writes through the hybrid manager, which updates memory and sends an op to the writer assigned to the subnet.
- If the call fails, the facade retries in each subnet shared with the first. Every retry takes that subnet's lock separately, so other connections run between the attempts.
- Each admin connection has its own goroutine (`RawTCP`'s `client.ioLoop`). Their commands serialise on `cmdExecuteLock`, and every command sets `duringReconfig`, GetClientCount and an undecodable command included. The mutating ones stop every connection (`stopClient`) and then mutate the engine maps.
- Stop runs `Server.stop`: the request listener closed, a handshake with the accept loop, then `stopClient`. The admin connection then writes the result, and only if that succeeds calls `RawTCP.stop`, whose closed command listener makes `main` return.

### Hard behaviours

- **Interleaving.**
  - Connections interleave between the attempts of one request.
  - The accept loop races the admin gate.
  - `stopClient` races `removeClient` for `clientsLock`.
  - Admin connections queue on `cmdExecuteLock`; a Stop on one ends the process while others are listed.
- **Write-behind.**
  - The table lags memory by up to 10 s or 40 ops per worker.
  - A batch is one transaction whose statement errors are ignored.
  - A crash loses the unflushed ops, and the restart reloads only the configuration file's subnets.
  - After a delete and re-add, a subnet can move to another worker.
  - A Reconfig reloads the old subnets, rehomes every subnet and drops the removed ones, with other ops in flight.
- **Admin commands against live state.**
  - `deleteSubnet` leaves the id in its shared network and in the host-manager registry.
  - `deletePool` leaves the picker cursor where it was.
  - `addPool` with a host reserves an address without looking at its lease; `deletePool` with a host deletes the lease before it checks the host.
- **Boundaries.**
  - The picker cursor crosses pool ends and wraps around.
  - Expiry is strict (`ltt + vlt < now`).
  - Reserved pools and host reservations sit inside the pools.
- **Shared code paths.**
  - DISCOVER and REQUEST share `renewLease` and `allocateLeaseWithAddr`, and only REQUEST may persist.

## 2. Modules

| Module | Models | Kind |
|---|---|---|
| `LeaseStore` | `lease_in_mem.go` and the index half of `DeleteSubnet`/`DeletePool` | pure operators over a store record `[ip, mac, cid]` |
| `LeaseDB` | the lease table, the `*InTx` statements, the row encoding both ways (`FromLease`, `ToLease`) and `LoadLease` with `deleteLeaseNotInSubnet` (`ReloadLease`); `ApplyOp` is the dispatch in `runDB` | pure operators |
| `SubnetEngine` | `engine.go`, `iterative_allocator.go`, `subnet.go`, `host_in_mem.go`, `hybrid_lease_manager.go` | pure operators: an engine call is `EngineCall(env, e, ctx)` returning `[e, lease, err]` |
| `AddrAllocator` | `addr_allocator.go` (with `reloadConf`), `shared_subnet.go`, a connection's loop in `client.go`, the mutations of `subnet_command.go`, `Server.reloadConf`, the host registry `LoadSubnet` rebuilds | state machine composing all of the above |
| `Server` | `server.go`, `client.go`, the gate of `server_command.go`, the admin connections of `command/raw_tcp.go` (`Run`, `readCommand`, `ioLoop`, `removeClient`, `stop`) | state machine: the accept loop, connection goroutines, admin connection goroutines and the one command holding `cmdExecuteLock` |
| `WriterPool` | `lease_db_pool.go` (`runDB` with its load operation, `asyncDoOption`, `LoadLease`, `loadLeaseForSubnets`, `allocateDBConn`), the producers in `hybrid_lease_manager.go`, `Server.addSubnet`/`deleteSubnet`, `reloadConf` and `CreateAddrAllocator` in `addr_allocator.go`, the exit of the Stop command | state machine: write-behind workers, Reconfig, crash and restart |
| `LeaseTable` | what the hybrid manager promises: memory and table written in one step | abstract specification, refined by `WriterPool` |
| `MCAddrAllocator`, `MCServer`, `MCWriterPool` | model values and configurations for TLC | |

Correspondence:
- **Leases.** A Go `*Lease` is never modified after it is stored: `renewLease` and `Decline` copy it. So a pointer is modelled by the lease record itself.
- **Map entries.** An absent map entry is `NoLease`; nil MAC and nil client id are `NoMac` and `NoClientId`.
- **Time.** Time is the integer `now`, advanced by `Tick`.
- **Addresses.** Addresses are integers, and `0` is 0.0.0.0: a request without an address carries 0.0.0.0, never nil.
- **Engine state.** An engine's state is `[st, cur, ops]`: its store, its picker cursor, and the DB operations the hybrid manager enqueued during the call.
- **Panics.** `err = "Panic"` is the nil dereference in `PickAddr`; `NilEngine` is the nil engine or lock of a shared subnet without an engine. Either ends the process: `crashed` then disables every action.

`AddrAllocator` state:
- configuration: `engines` (the ids with an engine), `subnets` (their `Subnet`), `hosts`, `hostMgrs` (the ids with a registered host manager), `shared` (the sequence of `[name, ids]`);
- `cmds`: admin commands so far;
- memory: `stores` and `cursor`, one per subnet;
- the table: `db`;
- the clock: `now`;
- connections: `hs[h]` = `[pc, ctx, todo]`;
- `last`: the engine call of the last step, which only the action properties read.

Each connection has these actions:
- `Receive`: read a request.
- `UnknownSubnet`: a request for an id without an engine is answered with failure.
- `FirstAttempt`: dispatch and call the engine in the request's subnet, under the engine mutex.
- `SharedAttempt`: one turn of the shared-subnet loop. DISCOVER calls the engine in every shared subnet. The other types call it only in shared subnets whose pools contain RequestAddr, and skip the rest.
- `NilEngine`: the next shared subnet has no engine (it was deleted): the nil dereference panics.
- `GiveUp`: return failure when no shared subnet is left.
- `Tick` advances time.

Each admin command is one action, taken by `AdminGate` only while every connection is idle (the gate `Server` models and checks) and while fewer than `MaxCmds` commands have run; a command whose lookup fails returns before changing anything and is not a step:
- `AddSubnetCmd(s, ttl)`: a new engine with no pools, an empty store and cursor 0; it keeps the host manager registered under the id (`newEngine`).
- `DeleteSubnetCmd(s)`: `HybridLeaseManager.DeleteSubnet` on store and table, the engine dropped; `shared` and `hostMgrs` keep the id.
- `UpdateSubnetCmd(s, ttl)`: the lifetime of leases given from then on.
- `AddPoolCmd`/`DeletePoolCmd`: a dynamic pool appended, or cut out (`deletePoolFromPools`) with its leases deleted (`HybridDeletePool`); the cursor is left alone.
- `AddReservedPoolCmd`/`DeleteReservedPoolCmd`: a reserved pool appended after its leases are deleted, or cut out with the leases untouched.
- `AddHostCmd`/`DeleteHostCmd`: `AddHost` (ignored for a MAC that has a host); `DeletePool` with a hardware address deletes the lease at the address first and only then removes the matching host, if any.
- `AddSharedNetworkCmd`, `DeleteSharedNetworkCmd`, `UpdateSharedNetworkCmd`: the first group of the name appended, cut or given new ids.
- `ReconfigCmd(r)`: `Server.reloadConf` with the file as it reads now, `r \in Reloads` (`[subnets, hosts, shared]`, the values `LoadSubnet` parses). `reloadConf` replaces everything. The host registry is reset and refilled (`HostManagersOf`). The table loses every row of a subnet the file no longer names (`allocateDBConn`'s `DeleteLease(id, nil)`: every subnet that ever had an engine is in `subnetToDbIndex`) and, per named subnet, the rows outside its pools (`ReloadLease`: `deleteLeaseNotInSubnet`, or all rows without pools). New stores are loaded from what remains, in any row order (`LoadConfig`), cursors restart at 0 and the shared networks are the file's. Admin changes since the last load are undone, as spec 3 ("recreated wholesale") says. The load's interleaving with the workers is `WriterPool`'s; rows of distinct subnets are disjoint, so its converged result is this one step.

`addPool` checks no overlap. Spec 3 makes non-overlapping pools an invariant of the configuration that nothing re-checks, so `AddPoolCmd` only takes pools that overlap none (`Overlaps`): the operator's obligation, not the code's.

Every action that changes a lease (a store, the table, a cursor) does so through one `Call` or one command (`WriteThrough`). Both apply the engine's store and cursor and replay its enqueued ops on the table in order. There is no separate step that "may or may not" persist.

The table is modelled as what the writer pool converges to: each op is applied, in order, at the step that enqueued it. That is exact for one subnet, because the code sends all of a subnet's ops to one worker's FIFO channel. `WriterPool` models the write-behind, and shows that it implements this converged table.

`Server` abstracts what a connection asks to `busy` (inside `HandleRequest`) and what a command mutates to the `mutate` phase. It keeps the synchronisation exactly:
- `accPc`/`accConn`: the accept loop, between `AcceptTCP`, the `duringReconfig` check plus `newClient` (`Gate`, which starts the goroutine) and the append under `clientsLock` (`AppendClient`).
- `cst[c]`: a connection goroutine: `idle` (in `readContext`), `busy`, `exit` (at `Disconnect`), `removing` (signalled `stopChan`, about to call `removeClient`), `done`. `closed` is the set of closed sockets, `tok[c]` the one-slot buffer of `stopChan`.
- `apc`, `atodo`, `stopped`, `cmds`: `HandleCmd` and `stopClient`: `stopping` holds `clientsLock` and walks `atodo`, closing the head's socket (`StopNext`, `conn.Close`) and then blocking on its `stopChan` (`StopWait`); `mutate` is the command body; `EndCmd` runs the deferred resets. `apc = "idle"` is `cmdExecuteLock` free; `owner` is the admin connection holding it.
- `HangUp(c)` is the peer closing the socket, an environment step.
- `ast[a]`, `aclients`: admin connection `a`'s goroutine and `RawTCP.clients`. `AdminAccept` is `Run`'s accept with `addClient`; `read` is `readCommand` (or waiting for `cmdExecuteLock`), which can fail (`AdminReadFail`: the peer closed, `IODeadLine`, a bad length); `cmd` while its command runs; `reply`/`replyStop` the two writes (`Reply`, which may fail); `close`/`closeStop` after the loop (`AdminDisconnect`: `conn.Close`, `removeClient`); `stop` is about to call `RawTCP.stop`, whose first statement closes the command listener (`RawTCPStop`, `Exit`).
- `kind`, `lsn`, `exited`: `BeginCmd(a, k)` starts a `Mutate` command (those that call `stopClient`), a `Query` (GetClientCount, whose body reads `len(s.clients)` under `clientsLock`, or `UnknownCmd`; phase `query`) or Stop. Stop's `StopServer` closes the request listener (`lsn`, after which `Accept` is disabled) and sends on `s.stopChan`. The accept loop's select takes it (`AcceptStop`) and its `Stop:` label sends back (`AcceptSignal`, `accPc = "stopped"`). Then `stopClient` runs as for any command. After `EndCmd`, the owner's `Reply` writes the result: when the writes succeed, `getStopCmd` is set and `RawTCP.stop` ends the process (`exited`; every action is guarded by `~exited`); when the peer is gone, the connection disconnects and the process goes on with the request server already stopped.

`WriterPool` abstracts the engines to the hybrid manager's producers and keeps the pool exactly:
- `mem[s]`, `engines`: each subnet's store and the subnets with an engine. `EngineAdd`/`EngineUpdate`/`EngineDelete` are one `HybridLeaseManager` call: the store changes, and when memory accepted it, `asyncDoOption` appends the op to `chan[index[s]]`. A subnet with no `subnetToDbIndex` entry has its op dropped (the code logs "unknown subnet"). A full channel blocks the caller: the guard `Len(chan) + Len(ops) <= ChanMax`.
- `index`: `subnetToDbIndex`. At startup it is `allocateDBConn`'s round robin over the configured subnets in any map order (`RoundRobin`). `AddSubnetCmd(s, w)` gives a new subnet any worker `w` (`AllocateNewDBConn`'s `rand.Intn`). `DeleteSubnetCmd` runs `HybridLeaseManager.DeleteSubnet` (memory cleared, `DeleteSubnet` op enqueued) and drops the engine, but leaves `index[s]`, as the code does.
- `chan[w]`, `buf[w]`: worker `w`'s channel and `optBuf`. `Receive(w)` takes the head of the channel: a load operation flushes the batch and reads the subnet's rows into `fresh[s]` (`LoadStep`, `LeaseDB.LoadLease`, the rows in any order); any other op joins the batch, which flushes at `BatchMax` (`Batch`, `OptBufCount`). `Ticker(w)` flushes a nonempty batch.
- `table`: the lease table. A flush (`FlushDBOp`) is one transaction with PostgreSQL's semantics (`RunTx`): the first failing statement aborts it, later statements fail, and `Commit` rolls back, so the whole batch is lost or the whole batch is applied.
- `phase`, `cfg`, `waiting`, `fresh`: a Reconfig (`reloadConf` reading configuration `c`). `ReconfigStart(c)` sends a load per old subnet of `c` (one with a worker) and waits; `ReconfigAlloc` runs `allocateDBConn` once they are loaded: round robin over the old then the new subnets, `DeleteLease(id, nil)` for every other subnet of the old map on its old worker, then loads for the new subnets; `ReconfigEnd` installs the engines over the loaded stores.
- `CrashRestart(c)`: the process dies, channels and batches are lost, and `CreateAddrAllocator` restarts on the file's subnets `c`: a fresh round robin, and every subnet of `c` loaded from the committed table (`LoadConfig`). `crashes` bounds it.
- `exited`: the Stop command's exit of the process (`Exit`); `steps` bounds the producers' calls and commands.

Refinement. `LeaseTable` has `mem`, `engines` and `tdb`, and every mutation writes memory and table together; besides the engine writes it has `ARemove` (subnets dropped by a Reconfig), `AReload` (the engines reloaded from the table) and `ARestart`. `WriterPool` implements it under `tdb <- Drained`, `engines <- AbsEngines`, `mem <- AbsMem`: `Drained` is the table after each worker's pending ops (batch, then channel) are applied, worker 0 first; during a Reconfig's second phase the removed subnets already count as gone. Only one worker holds a subnet's ops, unless it is re-added on another worker, so the order across workers does not matter on the passing run. `Refines` is the abstract spec as a PROPERTY. Its next-state relation is written in `WriterPool` with the quantifiers outside the instance's actions, not as `LT!ANext`: TLC 1.7.4 fails to evaluate the instantiated quantified disjunction on some steps ("Evaluating action property failed"), while the equivalent form evaluates.

## 3. Runs

| Run | Config | Expect | What it shows |
|---|---|---|---|
| `alloc_hosts` | `MCAddrAllocatorHosts.cfg` | pass | One subnet s1 (pools 1-2 and 4, reserved address 2) with m2's host reservation on 4; requests for 1, 2 and 4; one admin command among UpdateSubnet, AddPool/DeletePool and the reserved-pool forms (pools 3, 4 and 2) and AddHost/DeleteHost (m2 on 4, m1 on 1), or a Reconfig from the file edited (pool 1-2 shrunk to 1, m2's reservation replaced by m1 on 2). Checks `MemoryMatchesDB`, `IndexConsistent`, `OneLeasePerClient`, `ReservationRespected`, `ScanComplete`, `DiscoverNoPersist` and `ReloadKeepsPoolLeases`. A second subnet is left out of this run: with a host reservation, finding 1 breaks `MemoryMatchesDB`. |
| `alloc_two_conns` | `MCAddrAllocatorTwo.cfg` | pass | Two connections on two one-pool shared subnets without hosts (DISCOVER/REQUEST/RELEASE), and up to two admin commands among AddSubnet, DeleteSubnet and the three shared-network commands. The retries interleave, and still the table tracks memory (`MemoryMatchesDB`, which also rules out one address held in two subnets: both would encode to the same table row) and the indices stay consistent. |
| `alloc_double_lease` | `MCAddrAllocatorDoubleLease.cfg` | violation | `NoAddressLeasedTwice` fails: see finding 1. |
| `alloc_admin_panic` | `MCAddrAllocatorPanic.cfg` | violation | `NoPanic` fails after one DeleteSubnet or DeletePool: findings 9 and 10. |
| `alloc_redirect` | `MCAddrAllocatorRedirect.cfg` | violation | `RedirectAsSpecified` fails: see finding 2. |
| `server_gate` | `MCServer.cfg` | pass | Two connections, two admin connections, one admin command (mutating, Stop or a query): after Stop's `stopClient` the accept loop has ended and no connection serves (`StopQuiesces`), the command finishes (`CommandsComplete`), and a Stop whose reply was written ends the process while the other admin connection is listed (`StopExits`). |
| `server_accept_race` | `MCServerRace.cfg` | violation | `NoRequestDuringCommand` fails: finding 3. |
| `server_dead_listed` | `MCServerDeadListed.cfg` | violation | `NoDeadListed` fails: finding 4. |
| `server_hang` | `MCServerHang.cfg` | violation | `CommandsComplete` fails with two commands: findings 5 and 11. |
| `wp_refines` | `MCWriterPool.cfg` | pass | Subnets s1, s2 configured, s1 deleted, s3 added, a Reconfig to {s2, s3} and one crash with restart on {s2, s3}; two workers, batches of two, channels of two. Checks `TypeOK`, `TableMatchesMemory` and `Refines`. |
| `wp_readd` | `MCWriterPoolReadd.cfg` | violation | `TableMatchesMemory` fails when a subnet id is added back: s1 after its delete (finding 6), s3 after a restart on the file's {s1, s2} (finding 8, TLC's trace). |
| `wp_shutdown` | `MCWriterPoolExit.cfg` | violation | `ShutdownFlushed` fails: finding 7. |

The properties:
- **`MemoryMatchesDB`**: every lease in memory is its row in the table, and every row is a lease in its subnet's store. It catches a path that changes memory without enqueuing, or an op the table applies differently.
- **`IndexConsistent`**: in every store, each MAC and client-id entry is the lease stored at its address, through engine calls and the admin commands' pool, host and subnet deletions.
- **`OneLeasePerClient`**: one Normal lease per MAC per subnet.
- **`ReservationRespected`** (action): no step writes a Normal lease on an address reserved against its owner. A lease already there when an admin command reserves the address is left to expire, as the code does.
- **`ScanComplete`** (action): a DISCOVER answers ErrNoAddressLeft only when no address of the subnet is free for the client, wherever earlier calls left the cursor.
- **`DiscoverNoPersist`** (action): DISCOVER changes neither stores nor table (spec 8.6).
- **`ReloadKeepsPoolLeases`** (action): a Reconfig keeps every lease that lies in a pool of its subnet in the reloaded file: the new store holds the same lease at that address. The lease travels memory -> table -> memory, so the property needs the table to have kept up, the pool test of `deleteLeaseNotInSubnet` to be exact at both ends, and `ToLease` to undo `FromLease`.
- **`NoAddressLeasedTwice`**: no address is held by unexpired Normal leases of two MACs in two subnets.
- **`NoPanic`**: the process never panics (spec 7: panics are for programmer errors only).
- **`NoRequestDuringCommand`**: no connection is inside `HandleRequest` while a command mutates.
- **`StopQuiesces`**: once a Stop command's `stopClient` is done, the accept loop has ended and every connection it accepted has left its loop (spec 6: Stop shuts the server down). It rests on `stop()` waiting for the accept loop before `stopClient`.
- **`NoDeadListed`**: no connection whose goroutine has ended is in `s.clients`.
- **`TableMatchesMemory`**: once every channel and batch is empty and no Reconfig is under way, the table is exactly the leases in memory, rows of subnets without an engine aside.
- **`Refines`**: the writer pool implements `LeaseTable` under the mapping above. A flush never applies a batch out of order, never loses a batch, and never applies an op memory refused; a Reconfig reloads each engine with what its rows will be; a restart with what the committed table holds.
- **`ShutdownFlushed`**: when the process exits, nothing is pending (spec 4.7's final flush).
- **`CommandsComplete`** (liveness): an admin command that started finishes, or the process ends.
- **`StopExits`** (liveness): once Stop's result is written, the process ends, whatever the other admin connections do. It rests on `RawTCP.stop` closing the command listener before it takes `clientsLock` and calls `c.stop()` on each listed connection, whose unbuffered `stopChan` send a connection blocked in `readCommand` or `removeClient` never receives.

Each property of a passing run has a mutant: a plausible bug in a mapped operator, which TLC must catch. They are listed in `PROJECT.json`, for example:
- the picker wrapping to the first pool instead of the next;
- `AllocateLease` without the reserved-address check, or without deleting the old lease;
- `allocateLeaseWithAddr` storing the lease it plans for DISCOVER;
- `DeleteLease` leaving the MAC index entry behind;
- a load that reads the rows before flushing the batch;
- `Server.stop` going to `stopClient` without the accept loop's handshake;
- `RawTCP.stop` stopping the listed admin connections before it closes the listener;
- `deleteLeaseNotInSubnet` treating a pool's first address as outside it;
- the hybrid manager not enqueuing.

### Findings

1. **Code bug, `engine.go:116`.** `AllocateLease` checks that RequestAddr is in the subnet only for clients without a host reservation. TLC's trace:
   - m1 leases 5 in s2.
   - A ConflictIP marks m2's reserved address 4 in s1 as Declined.
   - m2's REQUEST for 5 in s1 succeeds.

   Two clients now hold 5, and the second INSERT collides on the table's UNIQUE address key.
2. **Spec/code divergence, `engine.go:103`.** Spec 4.2.3 says a reserved client asking for another address is refused when its reservation is held by someone else. The code refuses when the reservation is free, expired or its own, and grants the request when someone else holds it.
3. **Code bug, `server.go:125`.** The accept loop checks `duringReconfig`, starts the goroutine and only then appends the connection under `clientsLock`. TLC's trace: a connection is accepted and passes the check; it reads a request; a command sets the flag and `stopClient` finds the list empty; the command mutates while the request runs.
4. **Code bug, `server.go:130`.** `newClient` starts the goroutine before the append. A peer that hangs up at once makes the goroutine signal `stopChan` and call `removeClient`, which finds nothing, before the append: the connection stays in `s.clients` with no goroutine.
5. **Code bug, `server.go:163`.** `stopClient` waits on each `stopChan` with `clientsLock` held; a stopped connection leaves the list only in its own `removeClient`, which needs the lock. A second command that wins the lock first calls `Stop` on that connection again and waits for ever, holding `clientsLock` and `cmdExecuteLock`. Finding 4's dead entry leads to the same hang on the second command after it.
6. **Code bug, `subnet_command.go:122`.** `deleteSubnet` (line 139) enqueues `DeleteSubnet` on the subnet's worker and leaves its `subnetToDbIndex` entry. `addSubnet` with the same id assigns a random worker (`AllocateNewDBConn`). With `MaxCrashes` set to 0 (the run's `MCWriterPoolReadd.cfg` has 1, and TLC then reports finding 8's trace), TLC's trace is: s1 is deleted, its `DeleteSubnet` waiting in worker 0's channel; s1 is re-added on worker 1 and leases an address; worker 1 receives and commits the INSERT on its ticker; worker 0 then commits the `DeleteSubnet`, deleting the new row. Memory holds the lease and the table does not, and stays so until restart, which then loses the lease. Spec 5 promises that one subnet's writes go to one worker, in order.
7. **Spec/code divergence, `server.go:141`.** Spec 4.7 says shutdown closes every worker's channel, each worker making a final flush. The Stop command's `s.stop()` closes the listener and connections, and `main` returns: nothing calls `AddrAllocator.Stop` (`addr_allocator.go:210`), the only caller of `LeaseDBPool.Stop`. Up to one batch per worker and every channel's ops are lost (TLC's trace: one add, then exit).
8. **Code bug, `lease_db_pool.go:206`.** A subnet added by the admin command is not written to the configuration file. After a restart `subnetToDbIndex` starts empty, so `LoadLease` neither loads that subnet's rows nor, in `allocateDBConn`, deletes them. TLC's trace (`wp_readd`): AddSubnet s3, one of its leases committed, a crash and restart on {s1, s2}, AddSubnet s3 again. The new store is empty over a table that holds the row: the address looks free, and leasing it sends an INSERT that breaks the UNIQUE address key and rolls back its whole batch (`RunTx`).
9. **Code bug, `addr_allocator.go:120`.** `deleteSubnet` removes the engine and its lock but not the id from its shared network. TLC's trace (`alloc_admin_panic`) deletes one subnet of the network, s1 or s2 depending on which of TLC's workers reaches the state first; a REQUEST on the other fails there and falls back to the shared subnets, and `Subnet()` on the deleted id's engine is a call on a nil interface (a DISCOVER locks a nil mutex at line 104). The process panics.
10. **Code bug, `iterative_allocator.go:42`.** `deletePool` cuts the pool and its leases but leaves `lastAllocateAddr`. With `AdminCmds = {"DeletePool"}` in the same configuration TLC shows: a DISCOVER puts the cursor in pool 1-2, DeletePool 1-2, and the next DISCOVER finds the cursor in no pool and reads `lastPool.Start` with `lastPool` nil. Spec 4.1 says such a cursor is reset to the first pool's start; spec 9 lists the nil dereference as an open question.
11. **Code bug, `command/raw_tcp.go:103`.** Spec 6 says a Stop command shuts the server down. `Server.stop` runs inside `HandleCmd`, but the admin connection sets `getStopCmd`, and calls `RawTCP.stop` (whose closed listener ends the process), only after both writes of the result succeed. In `MCServerHang.cfg` TLC's trace is: a Stop on admin connection a2 runs `Server.stop` (the accept loop ends, the connections are stopped); its reply fails, a2 disconnects, and the process goes on without a request server. A Stop on a1 sends on `s.stopChan`, which nothing will receive, and waits for ever holding `cmdExecuteLock`, so every later admin command waits too.

## 4. Bounds, symmetry, fairness

- **Addresses** are 0..5. That gives two pools so the cursor crosses a pool end and wraps; a reserved address inside a pool; an address outside s1 (5, in s2); and 0.0.0.0.
- **Clients:**
  - m1 has no client id, so findOldLease falls back to the MAC;
  - m2 has client id k2.
- **Time.**
  - `ValidLifeTime` is 1 and `MaxTime` 2 in `alloc_hosts`, the least that lets a lease expire: at `now = 2` a lease taken at 0 is expired. `UpdateSubnet` sets 2, so a lease given after it outlives the bound.
  - The two-connection run uses `MaxTime` 0: its question is the interleaving of retries with subnet and shared-network commands, not expiry, and it stays under two minutes.
- **Admin commands.** One command per behaviour in `alloc_hosts` and two in `alloc_two_conns`: two are needed for a subnet deleted and added back, or a network deleted and added again. The arguments are the cases that matter: an existing and a new pool, the reserved pool, a pool that would overlap (refused by `Overlaps`), an existing and a missing host, and a shared network reordered. The reloaded file of `alloc_hosts` shrinks a pool, so the purge deletes a lease (at 2) and must keep those at 1 and 4, and it moves a reservation onto the reserved pool.
- **No symmetry.** Subnets, MACs and addresses all play distinct roles, so no symmetry set is declared.
- **VIEW.** `MCView` omits `last`. Next never reads `last`, and the action properties read only `last'`.
- **AddrAllocator assumes no fairness** (it checks no liveness). Its passing runs say `CHECK_DEADLOCK FALSE` because a panic (findings 9 and 10, reachable through the admin commands they enable) stops the process; apart from that `Receive` keeps every state live.
- **Server bounds.** Two connections (`MCServer.cfg`) let one be stopped while the other is mid-accept or hangs up; a third multiplied the states by twenty once admin connections were actors, and the mutants of every property are caught with two. Two admin connections: one runs the command while the other is listed in `RawTCP.clients` (what `StopExits` is about) or, in the hang, runs the second command. `MaxCmds` 1 for the passing run, 2 for the hang. `CmdKinds` is {Mutate, Stop, Query} in the passing run, {Mutate, Stop} in the hang, and {Mutate} with one admin connection in the two safety violations (their questions are about mutating commands).
- **Server fairness.** Goroutine steps (the accept loop's `Gate`, `AcceptStop`, `AcceptSignal`, `ReadFail`, `Respond`, `SignalStop`, the command's steps, and an admin connection's `Reply` (its outcome the environment's), `AdminDisconnect` and `RawTCPStop`) are weakly fair: a runnable goroutine runs. The two `clientsLock` acquisitions (`AppendClient`, `RemoveClient`) are strongly fair: Go's `sync.Mutex` switches to starvation mode after 1 ms, handing the lock to the longest waiter. Accepting, reading a request, hanging up, starting a command and an admin connection's failing read are the environment's choice and get no fairness: `IODeadLine` drops an idle admin connection, but an operator may keep one busy. `CHECK_DEADLOCK FALSE` in the Server configs: once the connections are done and the commands used up, the server waits in `AcceptTCP`, which is correct.
- **WriterPool bounds.** Three subnets (two configured, s1 deletable, s3 addable), one address per subnet and two lease versions (times 0 and 1) so that an add and an update differ. Two workers so subnets share or split workers; `BatchMax` 2 so both the size flush and the ticker flush of a partial batch occur; `ChanMax` 2 so a producer blocks on a full channel; `MaxSteps` 4 producer calls and commands. One configuration {s2, s3} for Reconfig and restart, so a Reconfig both drops (s1) and adds (s3) a subnet, and one crash. No fairness: the run checks safety only. `CHECK_DEADLOCK FALSE`: behaviours end at the exit or when the producer bound is used up with the channels empty.

## 5. Not modelled, and why

- A Reconfig that rehomes a subnet with ops pending on its old worker can reorder them as in finding 6; `wp_refines` has one configuration and does not reach that case. `AddrAllocator`'s `ReconfigCmd` takes the converged result.
- A failing DELETE in `deleteLeaseNotInSubnet` (rolled back and logged, after which the rows outside the pools are loaded): `AddrAllocator`'s table never refuses a statement. A file that fails to parse (HandleCmd then panics) and the pool and host parsing: the reloaded files are given as values.
- `DeclineConflictIP` with an address outside the subnet (`engine.go:233`): the pass runs keep `ConflictAnywhere` FALSE, as a slave reports conflicts on addresses that subnet offered. With it TRUE, TLC breaks `MemoryMatchesDB` in four steps: s1 leases 2, s2 takes a conflict on 2 into its own store, and the INSERT fails on s1's row.
- `deletePool` with a host deleting the lease at the address before it checks the host (`subnet_command.go:314`) is modelled, but no property says a failed command must change nothing: the spec does not say it.
- Two hosts reserving one address: `AddHost` does not check, and `GetHostWithIp` then picks at random; the arguments keep reserved addresses distinct.

Not modelled at all:
- the framing and JSON transport;
- what `RawTCP.stop` does after closing the listener (`c.stop()` on each listed connection under `clientsLock`, and the select at the top of `ioLoop` that answers it): the process is ending, and `StopExits` checks that nothing before the close can hold it up;
- the MQ broadcast (`command/broadcast`): no package imports it, and the `sq` client it wraps is not in the repository;
- GetClientCount and unknown commands setting `duringReconfig` (spec 4.9 gives it to mutating commands) is in the model, so a query refuses new connections; no property singles it out, as it would fail on the first connection accepted during a query;
- config parsing (what `LoadSubnet` parses is given as values);
- logging;
- `smart_allocator.go`, which no code path constructs.
