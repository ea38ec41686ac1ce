---------------------------- MODULE CommandQueue ----------------------------
(***************************************************************************)
(* The commands of run_bridge.py and the connection of mcp_server/         *)
(* ws_bridge.py that carries them to the device.  POST /cmd is served by a *)
(* thread of its own for each command; a command that cannot be sent is    *)
(* kept in _pending, which the thread of _flush_pending replays while the  *)
(* device is connected.  Both send through _run_coro: they hand _send_json *)
(* to the event loop of the bridge and wait for its result, at most five   *)
(* seconds; the coroutine is not cancelled when they stop waiting.  The    *)
(* event loop also runs a handler and a keepalive for every connection.    *)
(***************************************************************************)
EXTENDS Naturals, Sequences, Functions

CONSTANTS
    MaxCommands,    \* bound on the commands ever posted
    Unknown,        \* those that _dispatch does not know
    MaxConnections, \* bound on the connections the device ever opens
    MaxTimeouts     \* bound on how often a sender stops waiting too early

Commands == 1 .. MaxCommands
Connections == 1 .. MaxConnections

ASSUME CommandAssumption ==
    /\ MaxCommands \in Nat /\ MaxConnections \in Nat /\ MaxTimeouts \in Nat
    /\ Unknown \subseteq Commands

VARIABLES
    reply,      \* what POST /cmd answered: "none" so far, or "sending"
    pending,    \* _pending
    expired,    \* commands whose PENDING_TTL has passed
    batch,      \* what is left of the batch that _flush_pending took
    outdated,   \* commands that had expired when it took the batch
    flushing,   \* the command it waits for: <<>> or <<command>>
    settled,    \* commands that were replayed or dropped (history)
    tasks,      \* _send_json coroutines the event loop has to start
    draining,   \* those that wrote their command and wait for the socket
    ws,         \* self._ws: a connection, or 0 for None
    handlers,   \* connections whose _handle_connection runs
    closed,     \* those of them whose socket is known to be closed
    silent,     \* nothing was received for 65 seconds (self._last_rx)
    device,     \* the connection the device uses, 0 for none
    opened,     \* how many connections were opened
    executed,   \* how often the device received a command (history)
    failed,     \* commands an attempt to send which failed (history)
    timeouts    \* how often a sender stopped waiting too early

queueVars == <<pending, expired, batch, outdated, flushing, settled>>
sendVars == <<tasks, draining>>
linkVars == <<ws, handlers, closed, silent, device, opened>>
failVars == <<failed, timeouts>>

vars == <<reply, queueVars, sendVars, linkVars, executed, failVars>>

Init ==
    /\ reply = [c \in Commands |-> "none"]
    /\ pending = <<>> /\ expired = {} /\ batch = <<>> /\ outdated = {}
    /\ flushing = <<>> /\ settled = {}
    /\ tasks = <<>> /\ draining = {}
    /\ ws = 0 /\ handlers = {} /\ closed = {} /\ silent = FALSE
    /\ device = 0 /\ opened = 0
    /\ executed = [c \in Commands |-> 0]
    /\ failed = {} /\ timeouts = 0

\* A coroutine, the thread that waits for it ("post", "flush" or "nobody"), and
\* the connection it has written to.
Tasks == [command : Commands, waiter : {"post", "flush", "nobody"}, on : 0 .. MaxConnections]

Task(c, waiter) == [command |-> c, waiter |-> waiter, on |-> 0]

connected == ws # 0

-----------------------------------------------------------------------------
(* The threads that send *)

\* do_POST while the link is down.
KeepCommand(c) ==
    /\ reply[c] = "none" /\ ~connected
    /\ reply' = [reply EXCEPT ![c] = "queued"]
    /\ pending' = Append(pending, c)
    /\ UNCHANGED <<expired, batch, outdated, flushing, settled>>
    /\ UNCHANGED <<sendVars, linkVars, executed, failVars>>

RejectCommand(c) ==
    /\ reply[c] = "none" /\ connected /\ c \in Unknown
    /\ reply' = [reply EXCEPT ![c] = "rejected"]
    /\ UNCHANGED <<queueVars, sendVars, linkVars, executed, failVars>>

\* Mutant: the command is kept before it is sent.
DispatchAndKeep(c) ==
    /\ reply[c] = "none" /\ connected /\ c \notin Unknown
    /\ reply' = [reply EXCEPT ![c] = "sending"]
    /\ tasks' = Append(tasks, Task(c, "post"))
    /\ pending' = Append(pending, c)
    /\ UNCHANGED <<expired, batch, outdated, flushing, settled>>
    /\ UNCHANGED <<draining, linkVars, executed, failVars>>

DispatchCommand(c) ==
    /\ reply[c] = "none" /\ connected /\ c \notin Unknown
    /\ reply' = [reply EXCEPT ![c] = "sending"]
    /\ tasks' = Append(tasks, Task(c, "post"))
    /\ UNCHANGED <<draining, queueVars, linkVars, executed, failVars>>

\* Mutant: what is pending is copied and not cleared.
CopyBatch ==
    /\ flushing = <<>> /\ batch = <<>>
    /\ connected /\ pending # <<>>
    /\ batch' = pending /\ outdated' = expired
    /\ UNCHANGED <<pending, expired, flushing, settled>>
    /\ UNCHANGED <<reply, sendVars, linkVars, executed, failVars>>

\* _flush_pending takes everything that is pending.
TakeBatch ==
    /\ flushing = <<>> /\ batch = <<>>
    /\ connected /\ pending # <<>>
    /\ batch' = pending /\ pending' = <<>> /\ outdated' = expired
    /\ UNCHANGED <<expired, flushing, settled>>
    /\ UNCHANGED <<reply, sendVars, linkVars, executed, failVars>>

\* Mutant: a command that has expired is kept.
KeepExpired ==
    /\ flushing = <<>> /\ batch # <<>> /\ Head(batch) \in outdated
    /\ batch' = Tail(batch)
    /\ pending' = Append(pending, Head(batch))
    /\ UNCHANGED <<expired, outdated, flushing, settled>>
    /\ UNCHANGED <<reply, sendVars, linkVars, executed, failVars>>

DropExpired ==
    /\ flushing = <<>> /\ batch # <<>> /\ Head(batch) \in outdated
    /\ batch' = Tail(batch)
    /\ settled' = settled \cup {Head(batch)}
    /\ UNCHANGED <<pending, expired, outdated, flushing>>
    /\ UNCHANGED <<reply, sendVars, linkVars, executed, failVars>>

\* An exception of _dispatch, whatever it was: the command is kept.
Requeue ==
    /\ flushing = <<>> /\ batch # <<>> /\ Head(batch) \notin outdated
    /\ ~connected \/ Head(batch) \in Unknown
    /\ batch' = Tail(batch)
    /\ pending' = Append(pending, Head(batch))
    /\ UNCHANGED <<expired, outdated, flushing, settled>>
    /\ UNCHANGED <<reply, sendVars, linkVars, executed, failVars>>

Replay ==
    /\ flushing = <<>> /\ batch # <<>> /\ Head(batch) \notin outdated
    /\ connected /\ Head(batch) \notin Unknown
    /\ flushing' = <<Head(batch)>>
    /\ batch' = Tail(batch)
    /\ tasks' = Append(tasks, Task(Head(batch), "flush"))
    /\ UNCHANGED <<pending, expired, outdated, settled, draining>>
    /\ UNCHANGED <<reply, linkVars, executed, failVars>>

\* The waiting thread gets the result of its coroutine.
Succeeds(t) ==
    /\ reply' = IF t.waiter = "post" THEN [reply EXCEPT ![t.command] = "ok"] ELSE reply
    /\ IF t.waiter = "flush"
       THEN flushing' = <<>> /\ settled' = settled \cup {t.command}
       ELSE UNCHANGED <<flushing, settled>>
    /\ UNCHANGED <<pending, expired, batch, outdated>>
    /\ UNCHANGED failVars

Keep(t) ==
    /\ reply' = IF t.waiter = "post" THEN [reply EXCEPT ![t.command] = "queued"] ELSE reply
    /\ flushing' = IF t.waiter = "flush" THEN <<>> ELSE flushing
    /\ pending' = IF t.waiter = "nobody" THEN pending ELSE Append(pending, t.command)
    /\ UNCHANGED <<expired, batch, outdated, settled>>

Fails(t) ==
    /\ Keep(t)
    /\ failed' = failed \cup {t.command}
    /\ UNCHANGED timeouts

\* A coroutine that has written to a connection that the device has left waits
\* until that is closed.
Stuck(t) == t.on # device /\ t.on \in handlers \ closed

\* fut.result(timeout) gives up; the coroutine goes on.
Abandoned(t) == [t EXCEPT !.waiter = "nobody"]

GivesUp(t) ==
    /\ t.waiter # "nobody"
    /\ \/ Stuck(t) /\ UNCHANGED timeouts
       \/ timeouts < MaxTimeouts /\ timeouts' = timeouts + 1
    /\ Keep(t)
    /\ failed' = failed \cup {t.command}
    /\ UNCHANGED <<linkVars, executed>>

GivesUpBeforeStart ==
    \E i \in DOMAIN tasks :
        /\ GivesUp(tasks[i])
        /\ tasks' = [tasks EXCEPT ![i] = Abandoned(@)]
        /\ UNCHANGED draining

GivesUpDraining ==
    \E t \in draining :
        /\ GivesUp(t)
        /\ draining' = (draining \ {t}) \cup {Abandoned(t)}
        /\ UNCHANGED tasks

\* PENDING_TTL seconds after it was first kept.
Expire(c) ==
    /\ reply[c] = "queued" /\ c \notin expired \cup settled
    /\ expired' = expired \cup {c}
    /\ UNCHANGED <<pending, batch, outdated, flushing, settled>>
    /\ UNCHANGED <<reply, sendVars, linkVars, executed, failVars>>

-----------------------------------------------------------------------------
(* The event loop of the bridge: _send_json *)

\* Between the check of the thread and now the connection has gone: nothing is
\* sent, and nobody is told.
SendNothing ==
    /\ tasks # <<>> /\ ~connected
    /\ tasks' = Tail(tasks)
    /\ Succeeds(Head(tasks))
    /\ UNCHANGED <<draining, linkVars, executed>>

\* ws.send raises ConnectionClosed.
SendRaises ==
    /\ tasks # <<>> /\ connected /\ ws \in closed
    /\ tasks' = Tail(tasks)
    /\ Fails(Head(tasks))
    /\ UNCHANGED <<draining, linkVars, executed>>

\* The command is written, and the device executes it, unless it has left the
\* connection or leaves it before the command arrives.
Write(c) ==
    \/ UNCHANGED executed
    \/ ws = device /\ executed' = [executed EXCEPT ![c] = @ + 1]

\* The coroutine may have to wait until the socket takes more.
SendWrites ==
    /\ tasks # <<>> /\ connected /\ ws \notin closed
    /\ tasks' = Tail(tasks)
    /\ Write(Head(tasks).command)
    /\ \/ Succeeds(Head(tasks)) /\ UNCHANGED draining
       \/ /\ draining' = draining \cup {[Head(tasks) EXCEPT !.on = ws]}
          /\ UNCHANGED <<reply, queueVars, failVars>>
    /\ UNCHANGED linkVars

\* The socket of the device takes more, or the connection was closed.
DrainEnds ==
    \E t \in draining :
        /\ draining' = draining \ {t}
        /\ \/ t.on = device /\ Succeeds(t)
           \/ t.on \notin handlers \ closed /\ Fails(t)
        /\ UNCHANGED <<tasks, linkVars, executed>>

-----------------------------------------------------------------------------
(* Connections: _handle_connection and _keepalive, and the device *)

\* The newest connection is the one that is used.
Connect ==
    /\ device = 0 /\ opened < MaxConnections
    /\ opened' = opened + 1 /\ device' = opened + 1
    /\ handlers' = handlers \cup {opened + 1}
    /\ ws' = opened + 1
    /\ silent' = FALSE
    /\ UNCHANGED <<reply, queueVars, sendVars, closed, executed, failVars>>

\* The device loses its link; the bridge need not notice.  It keeps its last.
LinkBreaks ==
    /\ device # 0 /\ opened < MaxConnections
    /\ device' = 0
    /\ UNCHANGED <<ws, handlers, closed, silent, opened>>
    /\ UNCHANGED <<reply, queueVars, sendVars, executed, failVars>>

\* The device answers pings, so there is silence only when it has gone.
SilenceGrows ==
    /\ device = 0 /\ handlers # {} /\ ~silent
    /\ silent' = TRUE
    /\ UNCHANGED <<ws, handlers, closed, device, opened>>
    /\ UNCHANGED <<reply, queueVars, sendVars, executed, failVars>>

CloseSocket(c) ==
    /\ c \in handlers \ closed
    /\ closed' = closed \cup {c}
    /\ UNCHANGED <<ws, handlers, silent, device, opened>>
    /\ UNCHANGED <<reply, queueVars, sendVars, executed, failVars>>

\* The bridge is told that the device has gone.
SocketCloses(c) == c # device /\ CloseSocket(c)

\* Mutant: the keepalive only reaps connections that were replaced.
ReapReplaced(c) == silent /\ c # ws /\ CloseSocket(c)

\* Mutant: the keepalive is not cancelled when the handler ends.
ReapEnded(c) ==
    /\ silent /\ c \in 1 .. opened \ closed
    /\ closed' = closed \cup {c}
    /\ UNCHANGED <<ws, handlers, silent, device, opened>>
    /\ UNCHANGED <<reply, queueVars, sendVars, executed, failVars>>

\* The keepalive of a connection reaps it.
Reap(c) == silent /\ CloseSocket(c)

\* Mutant: whatever connection is in use is forgotten.
ForgetAnyConnection(c) == 0

ForgetConnection(c) == IF ws = c THEN 0 ELSE ws

HandlerEnds(c) ==
    /\ c \in closed
    /\ handlers' = handlers \ {c} /\ closed' = closed \ {c}
    /\ ws' = ForgetConnection(c)
    /\ UNCHANGED <<silent, device, opened>>
    /\ UNCHANGED <<reply, queueVars, sendVars, executed, failVars>>

-----------------------------------------------------------------------------

Post == \E c \in Commands : KeepCommand(c) \/ RejectCommand(c) \/ DispatchCommand(c)

Flush == TakeBatch \/ DropExpired \/ Requeue \/ Replay

Send == SendNothing \/ SendRaises \/ SendWrites

StopWaiting == GivesUpBeforeStart \/ GivesUpDraining

Time == SilenceGrows \/ \E c \in Commands : Expire(c)

Handlers == \E c \in Connections : Reap(c) \/ HandlerEnds(c)

Device == Connect \/ LinkBreaks

Next ==
    \/ Post \/ Flush \/ Send \/ DrainEnds \/ StopWaiting \/ Time
    \/ Handlers \/ Device
    \/ \E c \in Connections : SocketCloses(c)

Spec == Init /\ [][Next]_vars

\* The threads and the event loop run and time passes.  Nobody has to post a
\* command, the device need not come back, and nothing need tell the bridge
\* that it has gone.
Fairness ==
    /\ WF_vars(Flush) /\ WF_vars(Send) /\ WF_vars(DrainEnds) /\ WF_vars(GivesUpDraining)
    /\ WF_vars(SilenceGrows) /\ WF_vars(Handlers)
    /\ \A c \in Commands : WF_vars(Expire(c))

FairSpec == Spec /\ Fairness

-----------------------------------------------------------------------------
(* Properties *)

\* Every variable of the runner, of the bridge and of the device has its type.
TypeOK ==
    /\ reply \in [Commands -> {"none", "sending", "ok", "queued", "rejected"}]
    /\ pending \in Seq(Commands) /\ batch \in Seq(Commands)
    /\ flushing \in Seq(Commands) /\ Len(flushing) <= 1
    /\ expired \subseteq Commands /\ outdated \subseteq Commands
    /\ settled \subseteq Commands
    /\ tasks \in Seq(Tasks) /\ draining \subseteq Tasks
    /\ ws \in 0 .. MaxConnections /\ device \in 0 .. MaxConnections
    /\ opened \in 0 .. MaxConnections /\ silent \in BOOLEAN
    /\ handlers \subseteq Connections /\ closed \subseteq handlers
    /\ executed \in [Commands -> Nat] /\ failed \subseteq Commands
    /\ timeouts \in 0 .. MaxTimeouts

\* The connection that is used is the newest one and its handler still runs: the
\* end of an older one never takes it away ("if self._ws is ws").
CurrentConnection ==
    /\ ws # 0 => ws \in handlers /\ ws = opened
    /\ device # 0 => ws = device

\* A command that was answered "queued" is kept in exactly one place until it
\* was replayed or has expired, whatever happens to the link and the threads.
QueuedIsKept ==
    /\ \A s \in {pending, batch, flushing} : IsInjective(s)
    /\ Range(pending) \cap Range(batch) = {}
    /\ Range(flushing) \cap (Range(pending) \cup Range(batch)) = {}
    /\ Range(pending) \cup Range(batch) \cup Range(flushing)
          = {c \in Commands : reply[c] = "queued"} \ settled

\* The device executes a command again only if an attempt to send it failed.
RepeatedOnlyAfterFailure == \A c \in Commands : executed[c] > 1 => c \in failed

\* Once the device stays connected, every queued command is replayed or expires:
\* none blocks the others.
QueueDrains ==
    <>[](device # 0) =>
        \A c \in Commands : reply[c] = "queued" ~> c \in settled

\* A connection that the device has left does not stay in use: the keepalive
\* reaps the zombie (ws_bridge.py:111).
ZombieReaped == (ws # 0 /\ ws # device) ~> (ws = 0 \/ ws = device)

\* A command is answered "ok" only while there is a connection to send it to:
\* when the "link died between check and send" (run_bridge.py:130) it is kept.
OkMeansSent ==
    [][\A c \in Commands : reply[c] = "sending" /\ reply'[c] = "ok" => connected]_vars

=============================================================================
