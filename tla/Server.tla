-------------------------------- MODULE Server --------------------------------
(***************************************************************************)
(* The request server's connection handling and the admin gate:            *)
(*   server.go      the accept loop (ioloop), removeClient, stopClient     *)
(*   client.go      newClient, a connection's read-handle-write loop, Stop *)
(*   server_command.go  HandleCmd: cmdExecuteLock, duringReconfig; the    *)
(*                  Stop command's Server.stop                            *)
(*   command/raw_tcp.go  the admin connection's reply and, after a Stop,   *)
(*                  RawTCP.stop, which ends the process                   *)
(*                                                                         *)
(* Actors: the accept goroutine, one goroutine per accepted connection,    *)
(* and one per admin connection (RawTCP's client.ioLoop).  HandleCmd      *)
(* serialises the admin connections on cmdExecuteLock: apc is the pc of    *)
(* the one holding it (owner), "idle" while it is free.  Every mutating    *)
(* (Reconfig, Add/Delete/UpdateSubnet, Add/DeletePool, the shared-network  *)
(* commands) calls stopClient before it mutates; what it mutates is left   *)
(* to AddrAllocator, and here the "mutate" phase is a control location.   *)
(*                                                                         *)
(* removeClient and the accept loop's append take clientsLock for a few    *)
(* statements and are one step each, allowed only while stopClient does   *)
(* not hold the lock.  Closing a connection (Stop, or the peer hanging up) *)
(* makes the connection's next read or write fail.                         *)
(***************************************************************************)
EXTENDS Integers, Sequences, SequencesExt

CONSTANTS
    Conns,      \* connections that may be accepted, each used once
    MaxCmds,    \* admin commands run in one behaviour
    CmdKinds,   \* "Mutate" (the commands that call stopClient), "Stop",
                \* "Query" (GetClientCount, or a command that fails to decode)
    AdminConns  \* admin connections that may be accepted

VARIABLES
    accPc,      \* accept loop: "accept", "gate" (after AcceptTCP), "append"
    accConn,    \* the connection the accept loop holds
    reconfig,   \* duringReconfig
    apc,        \* HandleCmd of the owner: "idle" (cmdExecuteLock free), Server.stop, stopClient, "mutate", "query"
    atodo,      \* stopClient's remaining iteration over s.clients
    stopped,    \* connections whose Stop returned in the current command
    cmds,       \* commands started
    clients,    \* s.clients
    cst,        \* per connection: where its goroutine is
    closed,     \* connections whose socket is closed
    tok,        \* per connection: items in stopChan (buffer 1)
    lsn,        \* the request listener is closed
    kind,       \* the kind of the command running or last run
    exited,     \* main has returned: the process is gone
    ast,        \* per admin connection: where its ioLoop is
    owner,      \* the admin connection in HandleCmd (meaningful unless apc = "idle")
    aclients    \* RawTCP.clients

adm == <<ast, owner, aclients>>
vars == <<accPc, accConn, reconfig, apc, atodo, stopped, cmds, clients, cst, closed, tok, lsn, kind, exited, adm>>

ConnStates == {"new", "rejected", "idle", "busy", "exit", "removing", "done"}

\* stopClient holds clientsLock from its Lock to its Unlock.
ClientsLockHeld == apc \in {"stopping", "waiting"}

(******************************** accept loop *******************************)

\* AcceptTCP returns a new connection.  On a closed listener it fails and
\* the loop goes round to its select, which AcceptStop takes.
Accept(c) ==
    /\ ~exited
    /\ accPc = "accept"
    /\ ~lsn
    /\ cst[c] = "new"
    /\ accPc' = "gate"
    /\ accConn' = c
    /\ UNCHANGED <<reconfig, apc, atodo, stopped, cmds, clients, cst, closed, tok, lsn, kind, exited, adm>>

\* The duringReconfig check: close the socket, or newClient, which starts
\* the connection's goroutine before it is appended to s.clients.
Gate ==
    /\ ~exited
    /\ accPc = "gate"
    /\ IF reconfig = 1
       THEN /\ cst' = [cst EXCEPT ![accConn] = "rejected"]
            /\ closed' = closed \cup {accConn}
            /\ accPc' = "accept"
       ELSE /\ cst' = [cst EXCEPT ![accConn] = "idle"]
            /\ accPc' = "append"
            /\ UNCHANGED closed
    /\ UNCHANGED <<accConn, reconfig, apc, atodo, stopped, cmds, clients, tok, lsn, kind, exited, adm>>

\* The select at the top of the loop receives Server.stop's signal ...
AcceptStop ==
    /\ ~exited
    /\ accPc = "accept"
    /\ apc = "stopSend"
    /\ accPc' = "signal"
    /\ apc' = "stopRecv"
    /\ UNCHANGED <<accConn, reconfig, atodo, stopped, cmds, clients, cst, closed, tok, lsn, kind, exited, adm>>

\* ... and at Stop: sends on s.stopChan, which stop() receives; ioloop ends.
AcceptSignal ==
    /\ ~exited
    /\ accPc = "signal"
    /\ apc = "stopRecv"
    /\ accPc' = "stopped"
    /\ apc' = "stopClient"
    /\ UNCHANGED <<accConn, reconfig, atodo, stopped, cmds, clients, cst, closed, tok, lsn, kind, exited, adm>>

AppendClient ==
    /\ ~exited
    /\ accPc = "append"
    /\ ~ClientsLockHeld
    /\ clients' = Append(clients, accConn)
    /\ accPc' = "accept"
    /\ UNCHANGED <<accConn, reconfig, apc, atodo, stopped, cmds, cst, closed, tok, lsn, kind, exited, adm>>

(****************************** connection loop *****************************)

\* readContext returns a request; HandleRequest runs.
ReadRequest(c) ==
    /\ ~exited
    /\ cst[c] = "idle"
    /\ c \notin closed
    /\ cst' = [cst EXCEPT ![c] = "busy"]
    /\ UNCHANGED <<accPc, accConn, reconfig, apc, atodo, stopped, cmds, clients, closed, tok, lsn, kind, exited, adm>>

\* readContext fails on a closed socket: goto Disconnect.
ReadFail(c) ==
    /\ ~exited
    /\ cst[c] = "idle"
    /\ c \in closed
    /\ cst' = [cst EXCEPT ![c] = "exit"]
    /\ UNCHANGED <<accPc, accConn, reconfig, apc, atodo, stopped, cmds, clients, closed, tok, lsn, kind, exited, adm>>

\* HandleRequest returned; the response write fails on a closed socket.
Respond(c) ==
    /\ ~exited
    /\ cst[c] = "busy"
    /\ cst' = [cst EXCEPT ![c] = IF c \in closed THEN "exit" ELSE "idle"]
    /\ UNCHANGED <<accPc, accConn, reconfig, apc, atodo, stopped, cmds, clients, closed, tok, lsn, kind, exited, adm>>

\* The peer hangs up.
HangUp(c) ==
    /\ ~exited
    /\ cst[c] \in {"idle", "busy"}
    /\ c \notin closed
    /\ closed' = closed \cup {c}
    /\ UNCHANGED <<accPc, accConn, reconfig, apc, atodo, stopped, cmds, clients, cst, tok, lsn, kind, exited, adm>>

\* Disconnect: c.stopChan <- struct{}{} (blocks while the buffer is full).
SignalStop(c) ==
    /\ ~exited
    /\ cst[c] = "exit"
    /\ tok[c] = 0
    /\ tok' = [tok EXCEPT ![c] = 1]
    /\ cst' = [cst EXCEPT ![c] = "removing"]
    /\ UNCHANGED <<accPc, accConn, reconfig, apc, atodo, stopped, cmds, clients, closed, lsn, kind, exited, adm>>

\* c.server.removeClient(c): the first occurrence leaves s.clients.
RemoveClient(c) ==
    /\ ~exited
    /\ cst[c] = "removing"
    /\ ~ClientsLockHeld
    /\ clients' = RemoveFirst(clients, c)
    /\ cst' = [cst EXCEPT ![c] = "done"]
    /\ UNCHANGED <<accPc, accConn, reconfig, apc, atodo, stopped, cmds, closed, tok, lsn, kind, exited, adm>>

(******************************** HandleCmd ********************************)

\* Admin connection a's command (readCommand) enters HandleCmd:
\* cmdExecuteLock taken, duringReconfig set, whatever the command.  A
\* mutating command goes to stopClient, Stop to Server.stop, and
\* GetClientCount or an undecodable command (UnknownCmd) to its body.
BeginCmd(a, k) ==
    /\ ~exited
    /\ ast[a] = "read"
    /\ apc = "idle"
    /\ cmds < MaxCmds
    /\ reconfig' = 1
    /\ apc' = CASE k = "Stop" -> "stopServer" [] k = "Query" -> "query" [] OTHER -> "stopClient"
    /\ kind' = k
    /\ cmds' = cmds + 1
    /\ stopped' = {}
    /\ ast' = [ast EXCEPT ![a] = "cmd"]
    /\ owner' = a
    /\ UNCHANGED <<accPc, accConn, atodo, clients, cst, closed, tok, lsn, exited, aclients>>

\* Mutant: stop() goes to stopClient without waiting for the accept loop.
StopServerNoHandshake ==
    /\ ~exited
    /\ apc = "stopServer"
    /\ lsn' = TRUE
    /\ apc' = "stopClient"
    /\ UNCHANGED <<accPc, accConn, reconfig, atodo, stopped, cmds, clients, cst, closed, tok, kind, exited, adm>>

\* Server.stop: s.listener.Close(), then s.stopChan <- struct{}{}, which
\* blocks until the accept loop's select takes it.
StopServer ==
    /\ ~exited
    /\ apc = "stopServer"
    /\ lsn' = TRUE
    /\ apc' = "stopSend"
    /\ UNCHANGED <<accPc, accConn, reconfig, atodo, stopped, cmds, clients, cst, closed, tok, kind, exited, adm>>

\* stopClient: clientsLock.Lock(), then range over s.clients.
StopClientLock ==
    /\ ~exited
    /\ apc = "stopClient"
    /\ apc' = "stopping"
    /\ atodo' = clients
    /\ UNCHANGED <<accPc, accConn, reconfig, stopped, cmds, clients, cst, closed, tok, lsn, kind, exited, adm>>

\* Mutant: Stop without conn.Close().
StopNextNoClose ==
    /\ ~exited
    /\ apc = "stopping"
    /\ atodo # <<>>
    /\ apc' = "waiting"
    /\ UNCHANGED <<accPc, accConn, reconfig, atodo, stopped, cmds, clients, cst, closed, tok, lsn, kind, exited, adm>>

\* client.Stop(): c.conn.Close() ...
StopNext ==
    /\ ~exited
    /\ apc = "stopping"
    /\ atodo # <<>>
    /\ closed' = closed \cup {Head(atodo)}
    /\ apc' = "waiting"
    /\ UNCHANGED <<accPc, accConn, reconfig, atodo, stopped, cmds, clients, cst, tok, lsn, kind, exited, adm>>

\* Mutant: the receive is taken whether or not anything was sent.
StopWaitNoBlock ==
    /\ ~exited
    /\ apc = "waiting"
    /\ tok' = [tok EXCEPT ![Head(atodo)] = @ - 1]
    /\ stopped' = stopped \cup {Head(atodo)}
    /\ atodo' = Tail(atodo)
    /\ apc' = "stopping"
    /\ UNCHANGED <<accPc, accConn, reconfig, cmds, clients, cst, closed, lsn, kind, exited, adm>>

\* ... then <-c.stopChan.
StopWait ==
    /\ ~exited
    /\ apc = "waiting"
    /\ tok[Head(atodo)] = 1
    /\ tok' = [tok EXCEPT ![Head(atodo)] = 0]
    /\ stopped' = stopped \cup {Head(atodo)}
    /\ atodo' = Tail(atodo)
    /\ apc' = "stopping"
    /\ UNCHANGED <<accPc, accConn, reconfig, cmds, clients, cst, closed, lsn, kind, exited, adm>>

\* clientsLock.Unlock(); the command goes on to mutate the allocator.
StopClientUnlock ==
    /\ ~exited
    /\ apc = "stopping"
    /\ atodo = <<>>
    /\ apc' = "mutate"
    /\ UNCHANGED <<accPc, accConn, reconfig, atodo, stopped, cmds, clients, cst, closed, tok, lsn, kind, exited, adm>>

\* The mutation is done (Stop has none), or GetClientCount has read
\* len(s.clients) under clientsLock (a query); the deferred
\* StoreUint32(&duringReconfig, 0) and cmdExecuteLock.Unlock().  The
\* owner goes on to write the result.
EndCmd ==
    /\ ~exited
    /\ apc \in {"mutate", "query"}
    /\ reconfig' = 0
    /\ apc' = "idle"
    /\ ast' = [ast EXCEPT ![owner] = IF kind = "Stop" THEN "replyStop" ELSE "reply"]
    /\ UNCHANGED <<accPc, accConn, atodo, stopped, cmds, clients, cst, closed, tok, lsn, kind, exited,
                   owner, aclients>>

(************************ command/raw_tcp.go *******************************)

srv == <<accPc, accConn, reconfig, apc, atodo, stopped, cmds, clients, cst, closed, tok, lsn, kind, exited>>

\* Run's AcceptTCP returns a connection; newClinet, go c.ioLoop(), whose
\* first statement is addClient.
AdminAccept(a) ==
    /\ ~exited
    /\ ast[a] = "new"
    /\ ast' = [ast EXCEPT ![a] = "read"]
    /\ aclients' = Append(aclients, a)
    /\ UNCHANGED <<srv, owner>>

\* readCommand fails: the peer closed, IODeadLine passed without a command,
\* or the length prefix is out of range; the loop breaks.
AdminReadFail(a) ==
    /\ ~exited
    /\ ast[a] = "read"
    /\ ast' = [ast EXCEPT ![a] = "close"]
    /\ UNCHANGED <<srv, owner, aclients>>

\* The two writes of the result.  If either fails the loop breaks; after
\* both, a Stop sets getStopCmd and breaks, any other command goes round
\* to the next readCommand.  A failed Stop reply leaves the process
\* running with its request server stopped.
Reply(a) ==
    /\ ~exited
    /\ ast[a] \in {"reply", "replyStop"}
    /\ \E ok \in BOOLEAN :
          ast' = [ast EXCEPT ![a] = CASE ~ok                 -> "close"
                                      [] @ = "replyStop"     -> "closeStop"
                                      [] OTHER               -> "read"]
    /\ UNCHANGED <<srv, owner, aclients>>

\* After the loop: c.conn.Close() and removeClient under clientsLock; with
\* getStopCmd set, on to transport.stop().
AdminDisconnect(a) ==
    /\ ~exited
    /\ ast[a] \in {"close", "closeStop"}
    /\ aclients' = RemoveFirst(aclients, a)
    /\ ast' = [ast EXCEPT ![a] = IF @ = "closeStop" THEN "stop" ELSE "done"]
    /\ UNCHANGED <<srv, owner>>

\* Closing the command listener makes Run's AcceptTCP return nil; Run
\* returns, and main with it.
Exit == exited' = TRUE

\* Mutant: stop() stops the listed admin connections before it closes the
\* listener; a listed connection's c.stop() never returns.
RawTCPStopLockFirst(a) ==
    /\ ~exited
    /\ ast[a] = "stop"
    /\ aclients = <<>>
    /\ Exit
    /\ ast' = [ast EXCEPT ![a] = "done"]
    /\ UNCHANGED <<accPc, accConn, reconfig, apc, atodo, stopped, cmds, clients, cst, closed, tok, lsn, kind,
                   owner, aclients>>

\* RawTCP.stop: transport.listener.Close() comes first, so the process
\* ends whatever the c.stop() calls under clientsLock then do.
RawTCPStop(a) ==
    /\ ~exited
    /\ ast[a] = "stop"
    /\ Exit
    /\ ast' = [ast EXCEPT ![a] = "done"]
    /\ UNCHANGED <<accPc, accConn, reconfig, apc, atodo, stopped, cmds, clients, cst, closed, tok, lsn, kind,
                   owner, aclients>>

Init ==
    /\ accPc = "accept"
    /\ accConn = CHOOSE c \in Conns : TRUE
    /\ reconfig = 0
    /\ apc = "idle"
    /\ atodo = <<>>
    /\ stopped = {}
    /\ cmds = 0
    /\ clients = <<>>
    /\ cst = [c \in Conns |-> "new"]
    /\ closed = {}
    /\ tok = [c \in Conns |-> 0]
    /\ lsn = FALSE
    /\ kind = "Mutate"
    /\ exited = FALSE
    /\ ast = [a \in AdminConns |-> "new"]
    /\ owner = CHOOSE a \in AdminConns : TRUE
    /\ aclients = <<>>

Next ==
    \/ \E c \in Conns : Accept(c)
    \/ Gate \/ AppendClient \/ AcceptStop \/ AcceptSignal
    \/ \E c \in Conns :
           ReadRequest(c) \/ ReadFail(c) \/ Respond(c) \/ HangUp(c)
           \/ SignalStop(c) \/ RemoveClient(c)
    \/ StopServer \/ StopClientLock \/ StopNext \/ StopWait \/ StopClientUnlock \/ EndCmd
    \/ \E a \in AdminConns :
           \/ \E k \in CmdKinds : BeginCmd(a, k)
           \/ AdminAccept(a) \/ AdminReadFail(a) \/ Reply(a) \/ AdminDisconnect(a) \/ RawTCPStop(a)

(***************************************************************************)
(* Fairness.  Goroutines that can run do run (WF); a goroutine waiting on  *)
(* clientsLock gets it if it is free infinitely often (sync.Mutex's        *)
(* starvation mode; SF).  New connections, requests, hang-ups and admin   *)
(* commands come from outside and are not forced.                          *)
(***************************************************************************)
Fairness ==
    /\ WF_vars(Gate) /\ SF_vars(AppendClient)
    /\ \A c \in Conns : /\ WF_vars(ReadFail(c)) /\ WF_vars(Respond(c))
                        /\ WF_vars(SignalStop(c)) /\ SF_vars(RemoveClient(c))
    /\ WF_vars(StopClientLock) /\ WF_vars(StopNext) /\ WF_vars(StopWait)
    /\ WF_vars(StopClientUnlock) /\ WF_vars(EndCmd)
    /\ WF_vars(StopServer) /\ WF_vars(AcceptStop) /\ WF_vars(AcceptSignal)
    /\ \A a \in AdminConns : /\ WF_vars(Reply(a)) /\ WF_vars(AdminDisconnect(a))
                             /\ WF_vars(RawTCPStop(a))

Spec == Init /\ [][Next]_vars /\ Fairness


(******************************** properties *******************************)

TypeOK ==
    /\ accPc \in {"accept", "gate", "append", "signal", "stopped"} /\ accConn \in Conns
    /\ reconfig \in {0, 1}
    /\ apc \in {"idle", "stopServer", "stopSend", "stopRecv", "stopClient", "stopping",
                "waiting", "mutate", "query"}
    /\ atodo \in Seq(Conns) /\ stopped \subseteq Conns /\ cmds \in 0..MaxCmds
    /\ clients \in Seq(Conns)
    /\ cst \in [Conns -> ConnStates] /\ closed \subseteq Conns
    /\ tok \in [Conns -> 0..1]
    /\ lsn \in BOOLEAN /\ kind \in CmdKinds \cup {"Mutate"} /\ exited \in BOOLEAN
    /\ ast \in [AdminConns -> {"new", "read", "cmd", "reply", "replyStop", "close", "closeStop",
                               "stop", "done"}]
    /\ owner \in AdminConns /\ aclients \in Seq(AdminConns)

(***************************************************************************)
(* Spec 4.9: while an admin command mutates, no request is being handled:  *)
(* new connections are refused by the duringReconfig gate and existing    *)
(* ones were stopped.                                                      *)
(***************************************************************************)
NoRequestDuringCommand ==
    apc = "mutate" => \A c \in Conns : cst[c] # "busy"

(***************************************************************************)
(* Every connection in s.clients still has its goroutine, which will send  *)
(* on stopChan when stopped; a listed connection whose goroutine is gone   *)
(* makes the next Stop(c) wait for ever.                                   *)
(***************************************************************************)
NoDeadListed ==
    \A i \in DOMAIN clients : cst[clients[i]] # "done"

(***************************************************************************)
(* Spec 6: a Stop command shuts the request server down.  Once Server.stop *)
(* has returned from stopClient, the accept loop has ended and every       *)
(* connection it accepted has left its read-handle-write loop.  It rests   *)
(* on the order inside stop(): the listener closed, then the handshake on  *)
(* s.stopChan that waits for the accept loop to finish appending the       *)
(* connection it holds, and only then stopClient; a connection appended    *)
(* after stopClient took the list would go on serving.                     *)
(***************************************************************************)
StopQuiesces ==
    (\/ kind = "Stop" /\ apc = "mutate"
     \/ \E a \in AdminConns : ast[a] \in {"replyStop", "closeStop", "stop"}) =>
        /\ accPc = "stopped"
        /\ \A c \in Conns : cst[c] \notin {"idle", "busy"}

(***************************************************************************)
(* Every admin command completes: stopClient's Stop calls all return and   *)
(* the command releases cmdExecuteLock, whatever the connections do; or    *)
(* the process has ended (a Stop on another admin connection).            *)
(***************************************************************************)
CommandsComplete == apc # "idle" ~> (apc = "idle" \/ exited)

(***************************************************************************)
(* Spec 6: Stop shuts the server down.  Once the operator has Stop's       *)
(* result (both writes done, getStopCmd set), the process ends, whatever   *)
(* the other admin connections are doing.  RawTCP.stop closes the command  *)
(* listener before it takes clientsLock and calls c.stop() on each listed  *)
(* connection; c.stop() sends on an unbuffered stopChan that a connection  *)
(* blocked in readCommand, or waiting in removeClient for that same lock,  *)
(* never receives.  Closing the listener later would leave the process     *)
(* hanging, alive, with its request server gone.                           *)
(***************************************************************************)
StopExits == \A a \in AdminConns : ast[a] = "closeStop" ~> exited

=============================================================================
