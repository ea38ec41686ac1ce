------------------------- MODULE CommandQueue_proofs -------------------------
(***************************************************************************)
(* Proofs about CommandQueue: its types, that the connection in use is the *)
(* newest one, that a queued command is kept in exactly one place, and     *)
(* that the device executes one again only after a failed attempt.         *)
(***************************************************************************)
EXTENDS CommandQueue, TLAPS

-----------------------------------------------------------------------------
(* Sequences without repetition *)

\* Appending an element that is not in the sequence.
LEMMA AppendKeeps ==
    ASSUME NEW S, NEW s \in Seq(S), NEW x \in S
    PROVE  /\ Append(s, x) \in Seq(S)
           /\ Range(Append(s, x)) = Range(s) \cup {x}
           /\ IsInjective(s) /\ x \notin Range(s) => IsInjective(Append(s, x))
<1>1. /\ Append(s, x) \in Seq(S)
      /\ Len(Append(s, x)) = Len(s) + 1
      /\ \A i \in 1 .. Len(s) : Append(s, x)[i] = s[i]
      /\ Append(s, x)[Len(s) + 1] = x
      /\ DOMAIN s = 1 .. Len(s) /\ DOMAIN Append(s, x) = 1 .. Len(s) + 1
      /\ Len(s) \in Nat
  OBVIOUS
<1>2. Range(Append(s, x)) = Range(s) \cup {x}
  BY <1>1 DEF Range
<1>3. ASSUME IsInjective(s), x \notin Range(s)
      PROVE  IsInjective(Append(s, x))
  BY <1>1, <1>3 DEF Range, IsInjective
<1> QED
  BY <1>1, <1>2, <1>3

\* Removing the head.
LEMMA TailKeeps ==
    ASSUME NEW S, NEW s \in Seq(S), s # <<>>
    PROVE  /\ Head(s) \in S /\ Tail(s) \in Seq(S)
           /\ Range(s) = Range(Tail(s)) \cup {Head(s)}
           /\ IsInjective(s) => IsInjective(Tail(s)) /\ Head(s) \notin Range(Tail(s))
<1>1. /\ Head(s) \in S /\ Tail(s) \in Seq(S)
      /\ Len(s) \in Nat \ {0}
      /\ Head(s) = s[1]
      /\ Len(Tail(s)) = Len(s) - 1
      /\ \A i \in 1 .. Len(s) - 1 : Tail(s)[i] = s[i + 1]
      /\ DOMAIN s = 1 .. Len(s) /\ DOMAIN Tail(s) = 1 .. Len(s) - 1
  OBVIOUS
<1>2. Range(s) = Range(Tail(s)) \cup {Head(s)}
  <2>1. ASSUME NEW i \in DOMAIN s
        PROVE  s[i] \in Range(Tail(s)) \cup {Head(s)}
    <3>1. CASE i = 1
      BY <3>1, <1>1
    <3>2. CASE i # 1
      <4>1. i - 1 \in DOMAIN Tail(s) /\ Tail(s)[i - 1] = s[i]
        BY <3>2, <2>1, <1>1
      <4> QED
        BY <4>1 DEF Range
    <3> QED
      BY <3>1, <3>2
  <2>2. ASSUME NEW i \in DOMAIN Tail(s)
        PROVE  Tail(s)[i] \in Range(s)
    <3>1. i + 1 \in DOMAIN s /\ s[i + 1] = Tail(s)[i]
      BY <2>2, <1>1
    <3> QED
      BY <3>1 DEF Range
  <2>3. Head(s) \in Range(s)
    BY <1>1 DEF Range
  <2> QED
    BY <2>1, <2>2, <2>3 DEF Range
<1>3. ASSUME IsInjective(s)
      PROVE  IsInjective(Tail(s)) /\ Head(s) \notin Range(Tail(s))
  BY <1>1, <1>3 DEF Range, IsInjective
<1> QED
  BY <1>1, <1>2, <1>3

LEMMA SmallSequences ==
    /\ Range(<<>>) = {} /\ IsInjective(<<>>)
    /\ \A x : Range(<<x>>) = {x} /\ IsInjective(<<x>>)
  BY DEF Range, IsInjective

-----------------------------------------------------------------------------
(* Types *)

\* What a finished coroutine does to the threads is type-correct.
LEMMA ResultTypes ==
    ASSUME TypeOK, NEW t \in Tasks, Succeeds(t) \/ Keep(t)
    PROVE  /\ reply' \in [Commands -> {"none", "sending", "ok", "queued", "rejected"}]
           /\ pending' \in Seq(Commands) /\ batch' \in Seq(Commands)
           /\ flushing' \in Seq(Commands) /\ Len(flushing') <= 1
           /\ expired' \subseteq Commands /\ outdated' \subseteq Commands
           /\ settled' \subseteq Commands
<1>1. t.command \in Commands
  BY DEF Tasks
<1>2. CASE Succeeds(t)
  <2>1. reply' \in [Commands -> {"none", "sending", "ok", "queued", "rejected"}]
    <3>1. reply' = reply \/ reply' = [reply EXCEPT ![t.command] = "ok"]
      BY <1>2 DEF Succeeds
    <3> QED
      BY <3>1 DEF TypeOK
  <2>2. flushing' = flushing \/ flushing' = <<>>
    BY <1>2 DEF Succeeds
  <2>3. flushing' \in Seq(Commands) /\ Len(flushing') <= 1
    <3>1. CASE flushing' = flushing
      BY <3>1 DEF TypeOK
    <3>2. CASE flushing' = <<>>
      BY <3>2
    <3> QED
      BY <2>2, <3>1, <3>2
  <2>4. settled' \subseteq Commands
    BY <1>1, <1>2 DEF Succeeds, TypeOK
  <2> QED
    BY <1>2, <2>1, <2>3, <2>4 DEF Succeeds, TypeOK
<1>3. CASE Keep(t)
  BY <1>1, <1>3 DEF Keep, TypeOK
<1> QED
  BY <1>2, <1>3

LEMMA TypesInductive == TypeOK /\ [Next]_vars => TypeOK'
<1> SUFFICES ASSUME TypeOK, [Next]_vars PROVE TypeOK'
  OBVIOUS
<1> USE CommandAssumption
<1>1. ASSUME NEW c \in Commands, KeepCommand(c) \/ RejectCommand(c) \/ DispatchCommand(c)
      PROVE  TypeOK'
  <2>1. Task(c, "post") \in Tasks
    BY DEF Task, Tasks
  <2>2. CASE KeepCommand(c)
    BY <2>2 DEF TypeOK, KeepCommand, sendVars, linkVars, failVars
  <2>3. CASE RejectCommand(c)
    BY <2>3 DEF TypeOK, RejectCommand, queueVars, sendVars, linkVars, failVars
  <2>4. CASE DispatchCommand(c)
    BY <2>1, <2>4 DEF TypeOK, DispatchCommand, queueVars, linkVars, failVars
  <2> QED
    BY <1>1, <2>2, <2>3, <2>4
<1>2. CASE Flush
  <2>1. CASE TakeBatch
    BY <2>1 DEF TypeOK, TakeBatch, sendVars, linkVars, failVars
  <2>2. CASE DropExpired
    BY <2>2, TailKeeps DEF TypeOK, DropExpired, sendVars, linkVars, failVars
  <2>3. CASE Requeue
    BY <2>3, TailKeeps DEF TypeOK, Requeue, sendVars, linkVars, failVars
  <2>4. CASE Replay
    <3>1. Head(batch) \in Commands /\ Tail(batch) \in Seq(Commands)
      BY <2>4, TailKeeps DEF TypeOK, Replay
    <3>2. Task(Head(batch), "flush") \in Tasks
      BY <3>1 DEF Task, Tasks
    <3> QED
      BY <2>4, <3>1, <3>2 DEF TypeOK, Replay, linkVars, failVars
  <2> QED
    BY <1>2, <2>1, <2>2, <2>3, <2>4 DEF Flush
<1>3. CASE Send
  <2>1. tasks # <<>> /\ Head(tasks) \in Tasks /\ Tail(tasks) \in Seq(Tasks)
    BY <1>3, TailKeeps DEF TypeOK, Send, SendNothing, SendRaises, SendWrites
  <2>2. CASE SendNothing
    BY <2>1, <2>2, ResultTypes DEF TypeOK, SendNothing, Succeeds, linkVars, failVars
  <2>3. CASE SendRaises
    <3>1. Keep(Head(tasks)) /\ Head(tasks).command \in Commands
      BY <2>1, <2>3 DEF SendRaises, Fails, Tasks
    <3> QED
      BY <2>1, <2>3, <3>1, ResultTypes DEF TypeOK, SendRaises, Fails, linkVars
  <2>4. CASE SendWrites
    <3>1. executed' \in [Commands -> Nat]
      <4>1. \/ UNCHANGED executed
            \/ executed' = [executed EXCEPT ![Head(tasks).command] = @ + 1]
        BY <2>4 DEF SendWrites, Write
      <4> QED
        BY <4>1 DEF TypeOK
    <3>2. CASE Succeeds(Head(tasks)) /\ UNCHANGED draining
      BY <2>1, <2>4, <3>1, <3>2, ResultTypes
         DEF TypeOK, SendWrites, Succeeds, linkVars, failVars
    <3>3. CASE /\ draining' = draining \cup {[Head(tasks) EXCEPT !.on = ws]}
               /\ UNCHANGED <<reply, queueVars, failVars>>
      <4>1. [Head(tasks) EXCEPT !.on = ws] \in Tasks
        BY <2>1 DEF TypeOK, Tasks
      <4> QED
        BY <2>1, <2>4, <3>1, <3>3, <4>1
           DEF TypeOK, SendWrites, queueVars, linkVars, failVars
    <3> QED
      BY <2>4, <3>2, <3>3 DEF SendWrites
  <2> QED
    BY <1>3, <2>2, <2>3, <2>4 DEF Send
<1>4. CASE DrainEnds
  <2>1. PICK t \in draining :
            /\ draining' = draining \ {t}
            /\ Succeeds(t) \/ Fails(t)
            /\ UNCHANGED <<tasks, linkVars, executed>>
    BY <1>4 DEF DrainEnds
  <2>2. t \in Tasks /\ t.command \in Commands
    BY <2>1 DEF TypeOK, Tasks
  <2>3. (Succeeds(t) \/ Keep(t)) /\ failed' \subseteq Commands /\ UNCHANGED timeouts
    BY <2>1, <2>2 DEF TypeOK, Succeeds, Fails, failVars
  <2> QED
    BY <2>1, <2>2, <2>3, ResultTypes DEF TypeOK, linkVars
<1>5. CASE StopWaiting
  <2>1. ASSUME NEW t \in Tasks, GivesUp(t),
               tasks' \in Seq(Tasks), draining' \subseteq Tasks
        PROVE  TypeOK'
    <3>1. Keep(t) /\ t.command \in Commands
      BY <2>1 DEF GivesUp, Tasks
    <3>2. timeouts' \in 0 .. MaxTimeouts /\ failed' \subseteq Commands
      BY <2>1, <3>1 DEF GivesUp, TypeOK
    <3> QED
      BY <2>1, <3>1, <3>2, ResultTypes DEF TypeOK, GivesUp, linkVars
  <2>2. \A t \in Tasks : Abandoned(t) \in Tasks
    BY DEF Abandoned, Tasks
  <2>3. CASE GivesUpBeforeStart
    <3>1. PICK i \in DOMAIN tasks :
              /\ GivesUp(tasks[i])
              /\ tasks' = [tasks EXCEPT ![i] = Abandoned(@)]
              /\ UNCHANGED draining
      BY <2>3 DEF GivesUpBeforeStart
    <3>2. tasks[i] \in Tasks /\ tasks' \in Seq(Tasks)
      BY <2>2, <3>1 DEF TypeOK
    <3> QED
      BY <2>1, <3>1, <3>2 DEF TypeOK
  <2>4. CASE GivesUpDraining
    BY <2>1, <2>2, <2>4 DEF GivesUpDraining, TypeOK
  <2> QED
    BY <1>5, <2>3, <2>4 DEF StopWaiting
<1>6. CASE Time
  BY <1>6 DEF TypeOK, Time, SilenceGrows, Expire, queueVars, sendVars, linkVars, failVars
<1>7. ASSUME NEW c \in Connections, Reap(c) \/ HandlerEnds(c) \/ SocketCloses(c)
      PROVE  TypeOK'
  BY <1>7 DEF TypeOK, Reap, SocketCloses, CloseSocket, HandlerEnds, ForgetConnection,
      queueVars, sendVars, failVars
<1>8. CASE Device
  <2>1. CASE Connect
    <3>1. opened + 1 \in Connections /\ opened + 1 \in 0 .. MaxConnections
      BY <2>1 DEF Connect, TypeOK, Connections
    <3>2. ws' \in 0 .. MaxConnections /\ device' \in 0 .. MaxConnections
          /\ opened' \in 0 .. MaxConnections /\ silent' \in BOOLEAN
          /\ handlers' \subseteq Connections /\ closed' \subseteq handlers'
      BY <2>1, <3>1 DEF TypeOK, Connect
    <3> QED
      BY <2>1, <3>2 DEF TypeOK, Connect, queueVars, sendVars, failVars
  <2>2. CASE LinkBreaks
    BY <2>2 DEF TypeOK, LinkBreaks, queueVars, sendVars, failVars
  <2> QED
    BY <1>8, <2>1, <2>2 DEF Device
<1>9. CASE UNCHANGED vars
  BY <1>9 DEF TypeOK, vars, queueVars, sendVars, linkVars, failVars
<1> QED
  BY <1>1, <1>2, <1>3, <1>4, <1>5, <1>6, <1>7, <1>8, <1>9 DEF Next, Post, Handlers

LEMMA InitTypes == Init => TypeOK
<1> SUFFICES ASSUME Init PROVE TypeOK
  OBVIOUS
<1>1. pending \in Seq(Commands) /\ batch \in Seq(Commands)
      /\ flushing \in Seq(Commands) /\ Len(flushing) <= 1 /\ tasks \in Seq(Tasks)
  BY DEF Init
<1>2. ws \in 0 .. MaxConnections /\ device \in 0 .. MaxConnections
      /\ opened \in 0 .. MaxConnections /\ timeouts \in 0 .. MaxTimeouts
  BY CommandAssumption DEF Init
<1> QED
  BY <1>1, <1>2 DEF Init, TypeOK

\* Every variable of the command queue keeps its type (run_bridge.py,
\* ws_bridge.py), for any number of commands, connections and timeouts.
THEOREM TypeCorrect == Spec => []TypeOK
  BY InitTypes, TypesInductive, PTL DEF Spec

-----------------------------------------------------------------------------
(* The connection in use *)

\* The connection of the device is open, silence means that the device has
\* gone, and connections are numbered in the order they were opened.
LinkInv ==
    /\ CurrentConnection
    /\ device \notin closed
    /\ silent => device = 0
    /\ handlers \subseteq 1 .. opened

LEMMA LinkInductive == TypeOK /\ LinkInv /\ [Next]_vars => LinkInv'
<1> SUFFICES ASSUME TypeOK, LinkInv, [Next]_vars PROVE LinkInv'
  OBVIOUS
<1>1. CASE UNCHANGED linkVars
  BY <1>1 DEF LinkInv, CurrentConnection, linkVars
<1>2. CASE SilenceGrows
  BY <1>2 DEF SilenceGrows, LinkInv, CurrentConnection
<1>3. ASSUME NEW c \in Connections, SocketCloses(c) \/ Reap(c)
      PROVE  LinkInv'
  <2>1. CloseSocket(c) /\ c # device
    BY <1>3 DEF SocketCloses, Reap, LinkInv, Connections
  <2> QED
    BY <2>1 DEF CloseSocket, LinkInv, CurrentConnection
<1>4. ASSUME NEW c \in Connections, HandlerEnds(c)
      PROVE  LinkInv'
  <2>1. c # device
    BY <1>4 DEF HandlerEnds, LinkInv
  <2> QED
    BY <1>4, <2>1 DEF HandlerEnds, ForgetConnection, LinkInv, CurrentConnection
<1>5. CASE Connect
  <2>1. opened \in Nat /\ opened + 1 # 0 /\ opened + 1 \notin closed
    BY CommandAssumption DEF TypeOK, LinkInv
  <2>2. handlers' \subseteq 1 .. opened'
    BY <1>5, <2>1 DEF Connect, LinkInv
  <2> QED
    BY <1>5, <2>1, <2>2 DEF Connect, LinkInv, CurrentConnection
<1>6. CASE LinkBreaks
  <2>1. 0 \notin closed
    BY DEF TypeOK, Connections
  <2> QED
    BY <1>6, <2>1 DEF LinkBreaks, LinkInv, CurrentConnection
<1>7. ASSUME Post \/ Flush \/ Send \/ DrainEnds \/ StopWaiting
      PROVE  UNCHANGED linkVars
  BY <1>7 DEF Post, KeepCommand, RejectCommand, DispatchCommand,
      Flush, TakeBatch, DropExpired, Requeue, Replay,
      Send, SendNothing, SendRaises, SendWrites, DrainEnds,
      StopWaiting, GivesUpBeforeStart, GivesUpDraining, GivesUp
<1>8. ASSUME NEW c \in Commands, Expire(c)
      PROVE  UNCHANGED linkVars
  BY <1>8 DEF Expire
<1> QED
  BY <1>1, <1>2, <1>3, <1>4, <1>5, <1>6, <1>7, <1>8 DEF Next, Time, Handlers, Device, vars

\* The connection in use is the newest one and its handler runs; as long as the
\* device is connected it is the device's (_handle_connection).
THEOREM NewestConnectionIsUsed == Spec => []CurrentConnection
<1>1. Init => LinkInv
  BY DEF Init, LinkInv, CurrentConnection
<1>2. LinkInv => CurrentConnection
  BY DEF LinkInv
<1> QED
  BY <1>1, <1>2, LinkInductive, TypeCorrect, PTL DEF Spec

-----------------------------------------------------------------------------
(* The queue *)

\* With the replies r and the command f that _flush_pending waits for: the thread
\* that waits for t waits for its command.
Waits(t, r, f) ==
    /\ t.waiter = "post" => r[t.command] = "sending"
    /\ t.waiter = "flush" => f = <<t.command>>

SameWaiter(t, u) ==
    t.waiter # "nobody" /\ t.waiter = u.waiter /\ t.command = u.command

\* No two of the coroutines ts, which have to start, and d, which have written,
\* have the same thread waiting for them.
AllWait(ts, d, r, f) ==
    /\ \A i \in DOMAIN ts : Waits(ts[i], r, f)
    /\ \A t \in d : Waits(t, r, f)
    /\ \A i, j \in DOMAIN ts : SameWaiter(ts[i], ts[j]) => i = j
    /\ \A i \in DOMAIN ts, t \in d : ~SameWaiter(ts[i], t)
    /\ \A t, u \in d : SameWaiter(t, u) => t = u

Waiters == AllWait(tasks, draining, reply, flushing)

QueueInv ==
    /\ QueuedIsKept
    /\ \A c \in settled : reply[c] = "queued"

\* The result of a coroutine leaves the queue right: what is answered "queued"
\* is kept, what was replayed is not.
LEMMA ResultKeepsQueue ==
    ASSUME TypeOK, QueueInv, NEW t \in Tasks, Waits(t, reply, flushing), Succeeds(t) \/ Keep(t)
    PROVE  QueueInv'
<1>1. t.command \in Commands
  BY DEF Tasks
<1>2. CASE t.waiter = "nobody"
  <2>1. UNCHANGED <<reply, pending, batch, flushing, settled>>
    BY <1>2 DEF Succeeds, Keep
  <2> QED
    BY <2>1 DEF QueueInv, QueuedIsKept
<1>3. CASE t.waiter = "post"
  <2>1. /\ reply[t.command] = "sending"
        /\ t.command \notin Range(pending) \cup Range(batch) \cup Range(flushing)
        /\ t.command \notin settled
    BY <1>1, <1>3 DEF Waits, QueueInv, QueuedIsKept
  <2>2. CASE Succeeds(t)
    <3>1. /\ reply' = [reply EXCEPT ![t.command] = "ok"]
          /\ UNCHANGED <<pending, batch, flushing, settled>>
      BY <1>3, <2>2 DEF Succeeds
    <3>2. {c \in Commands : reply'[c] = "queued"} = {c \in Commands : reply[c] = "queued"}
      BY <2>1, <3>1 DEF TypeOK
    <3>3. \A c \in settled' : reply'[c] = "queued"
      BY <2>1, <3>1 DEF QueueInv, TypeOK
    <3> QED
      BY <3>1, <3>2, <3>3 DEF QueueInv, QueuedIsKept
  <2>3. CASE Keep(t)
    <3>1. /\ reply' = [reply EXCEPT ![t.command] = "queued"]
          /\ pending' = Append(pending, t.command)
          /\ UNCHANGED <<batch, flushing, settled>>
      BY <1>3, <2>3 DEF Keep
    <3>2. {c \in Commands : reply'[c] = "queued"}
            = {c \in Commands : reply[c] = "queued"} \cup {t.command}
      BY <1>1, <3>1 DEF TypeOK
    <3>3. \A c \in settled' : reply'[c] = "queued"
      BY <2>1, <3>1 DEF QueueInv, TypeOK
    <3>4. Range(pending') = Range(pending) \cup {t.command} /\ IsInjective(pending')
      BY <1>1, <2>1, <3>1, AppendKeeps DEF TypeOK, QueueInv, QueuedIsKept
    <3> QED
      BY <2>1, <3>1, <3>2, <3>3, <3>4 DEF QueueInv, QueuedIsKept
  <2> QED
    BY <2>2, <2>3
<1>4. CASE t.waiter = "flush"
  <2>1. flushing = <<t.command>> /\ Range(flushing) = {t.command}
    BY <1>4, SmallSequences DEF Waits
  <2>2. flushing' = <<>> /\ Range(flushing') = {} /\ IsInjective(flushing')
    BY <1>4, SmallSequences DEF Succeeds, Keep
  <2>3. reply' = reply /\ reply[t.command] = "queued" /\ batch' = batch
    BY <1>4, <2>1 DEF Succeeds, Keep, QueueInv, QueuedIsKept
  <2>4. CASE Succeeds(t)
    <3>1. settled' = settled \cup {t.command} /\ pending' = pending
      BY <1>4, <2>4 DEF Succeeds
    <3> QED
      BY <2>1, <2>2, <2>3, <3>1 DEF QueueInv, QueuedIsKept
  <2>5. CASE Keep(t)
    <3>1. settled' = settled /\ pending' = Append(pending, t.command)
      BY <1>4, <2>5 DEF Keep
    <3>2. t.command \notin Range(pending)
      BY <2>1 DEF QueueInv, QueuedIsKept
    <3>3. Range(pending') = Range(pending) \cup {t.command} /\ IsInjective(pending')
      BY <1>1, <3>1, <3>2, AppendKeeps DEF TypeOK, QueueInv, QueuedIsKept
    <3> QED
      BY <2>1, <2>2, <2>3, <3>1, <3>3 DEF QueueInv, QueuedIsKept
  <2> QED
    BY <2>4, <2>5
<1> QED
  BY <1>2, <1>3, <1>4 DEF Tasks

\* The other threads wait as before.
LEMMA ResultKeepsOthers ==
    ASSUME TypeOK, NEW t \in Tasks, NEW u \in Tasks,
           Waits(t, reply, flushing), Waits(u, reply, flushing),
           ~SameWaiter(t, u), Succeeds(t) \/ Keep(t)
    PROVE  Waits(u, reply', flushing')
<1>1. t.command \in Commands /\ u.command \in Commands
  BY DEF Tasks
<1>2. u.waiter = "post" => reply'[u.command] = "sending"
  BY <1>1 DEF TypeOK, Waits, SameWaiter, Succeeds, Keep
<1>3. u.waiter = "flush" => flushing' = <<u.command>>
  <2> SUFFICES ASSUME u.waiter = "flush" PROVE flushing' = <<u.command>>
    OBVIOUS
  <2>1. t.waiter # "flush"
    <3>1. t.waiter = "flush" => flushing = <<t.command>> /\ flushing = <<u.command>>
      BY DEF Waits
    <3> QED
      BY <3>1 DEF SameWaiter
  <2> QED
    BY <2>1 DEF Waits, Succeeds, Keep
<1> QED
  BY <1>2, <1>3 DEF Waits

\* A coroutine is handed to the event loop.
LEMMA TaskAdded ==
    ASSUME NEW ts \in Seq(Tasks), NEW d, NEW r, NEW f, NEW q, NEW g, NEW t \in Tasks,
           AllWait(ts, d, r, f), Waits(t, q, g),
           \A i \in DOMAIN ts : Waits(ts[i], q, g) /\ ~SameWaiter(ts[i], t),
           \A u \in d : Waits(u, q, g) /\ ~SameWaiter(u, t)
    PROVE  AllWait(Append(ts, t), d, q, g)
<1>1. /\ DOMAIN Append(ts, t) = DOMAIN ts \cup {Len(ts) + 1}
      /\ Append(ts, t)[Len(ts) + 1] = t
      /\ \A i \in DOMAIN ts : Append(ts, t)[i] = ts[i]
  OBVIOUS
<1>2. \A u, v : SameWaiter(u, v) <=> SameWaiter(v, u)
  BY DEF SameWaiter
<1> QED
  BY <1>1, <1>2 DEF AllWait

\* The first coroutine runs to its end.
LEMMA HeadRemoved ==
    ASSUME NEW ts \in Seq(Tasks), ts # <<>>, NEW d, NEW r, NEW f, NEW q, NEW g,
           AllWait(ts, d, r, f),
           \A u \in Tasks : Waits(u, r, f) /\ ~SameWaiter(Head(ts), u) => Waits(u, q, g),
           d \subseteq Tasks
    PROVE  AllWait(Tail(ts), d, q, g)
<1>1. /\ Head(ts) = ts[1] /\ 1 \in DOMAIN ts
      /\ \A i \in DOMAIN Tail(ts) :
            i + 1 \in DOMAIN ts /\ i + 1 # 1 /\ Tail(ts)[i] = ts[i + 1]
      /\ \A i, j \in DOMAIN Tail(ts) : i + 1 = j + 1 => i = j
      /\ \A i \in DOMAIN ts : ts[i] \in Tasks
  OBVIOUS
<1> QED
  BY <1>1 DEF AllWait

\* The first coroutine has written and waits for the socket; u is what it is then.
LEMMA HeadDrains ==
    ASSUME NEW ts \in Seq(Tasks), ts # <<>>, NEW d, NEW r, NEW f, NEW u,
           AllWait(ts, d, r, f),
           u.waiter = Head(ts).waiter, u.command = Head(ts).command
    PROVE  AllWait(Tail(ts), d \cup {u}, r, f)
<1>1. /\ Head(ts) = ts[1] /\ 1 \in DOMAIN ts
      /\ \A i \in DOMAIN Tail(ts) :
            i + 1 \in DOMAIN ts /\ i + 1 # 1 /\ Tail(ts)[i] = ts[i + 1]
      /\ \A i, j \in DOMAIN Tail(ts) : i + 1 = j + 1 => i = j
  OBVIOUS
<1>2. Waits(u, r, f) /\ \A v : SameWaiter(u, v) => SameWaiter(ts[1], v)
  BY <1>1 DEF AllWait, Waits, SameWaiter
<1>3. \A v, w : SameWaiter(v, w) => SameWaiter(w, v)
  BY DEF SameWaiter
<1> QED
  BY <1>1, <1>2, <1>3 DEF AllWait

\* Nobody waits for a coroutine any more.
LEMMA TaskAbandoned ==
    ASSUME NEW ts \in Seq(Tasks), NEW d \in SUBSET Tasks, NEW r, NEW f, NEW q, NEW g,
           AllWait(ts, d, r, f), NEW i \in DOMAIN ts,
           \A u \in Tasks : Waits(u, r, f) /\ ~SameWaiter(ts[i], u) => Waits(u, q, g)
    PROVE  AllWait([ts EXCEPT ![i] = Abandoned(@)], d, q, g)
<1> DEFINE new == [ts EXCEPT ![i] = Abandoned(@)]
<1>1. /\ DOMAIN new = DOMAIN ts
      /\ \A j \in DOMAIN ts : ts[j] \in Tasks
      /\ new[i] = Abandoned(ts[i])
      /\ \A j \in DOMAIN ts : j # i => new[j] = ts[j]
  OBVIOUS
<1>2. new[i].waiter = "nobody"
  BY <1>1 DEF Abandoned, Tasks
<1> HIDE DEF new
<1>3. \A j \in DOMAIN ts : Waits(new[j], q, g)
  <2>1. Waits(new[i], q, g)
    BY <1>2 DEF Waits
  <2> QED
    BY <1>1, <2>1 DEF AllWait
<1>4. \A u \in d : Waits(u, q, g)
  BY DEF AllWait
<1>5. \A u : ~SameWaiter(new[i], u) /\ ~SameWaiter(u, new[i])
  BY <1>2 DEF SameWaiter
<1> QED
  BY <1>1, <1>3, <1>4, <1>5 DEF AllWait, new

\* A coroutine ends or is abandoned while it waits for the socket.
LEMMA DrainRemoved ==
    ASSUME NEW ts \in Seq(Tasks), NEW d \in SUBSET Tasks, NEW r, NEW f, NEW q, NEW g,
           AllWait(ts, d, r, f), NEW t \in d, NEW e,
           \A u \in e : u \in d \ {t} \/ u.waiter = "nobody",
           \A u \in Tasks : Waits(u, r, f) /\ ~SameWaiter(t, u) => Waits(u, q, g)
    PROVE  AllWait(ts, e, q, g)
<1>1. \A u, v : SameWaiter(u, v) <=> SameWaiter(v, u)
  BY DEF SameWaiter
<1>2. \A u, v : u.waiter = "nobody" => ~SameWaiter(u, v) /\ Waits(u, q, g)
  BY DEF SameWaiter, Waits
<1>3. \A j \in DOMAIN ts : Waits(ts[j], q, g)
  BY <1>1 DEF AllWait
<1>4. \A u \in e : Waits(u, q, g)
  BY <1>2 DEF AllWait
<1>5. \A j \in DOMAIN ts, u \in e : ~SameWaiter(ts[j], u)
  BY <1>1, <1>2 DEF AllWait
<1>6. \A u, v \in e : SameWaiter(u, v) => u = v
  BY <1>1, <1>2 DEF AllWait
<1> QED
  BY <1>3, <1>4, <1>5, <1>6 DEF AllWait

\* What a finished coroutine does leaves the other threads waiting.
LEMMA ResultWaits ==
    ASSUME TypeOK, NEW t \in Tasks, Waits(t, reply, flushing), Succeeds(t) \/ Keep(t)
    PROVE  \A u \in Tasks : Waits(u, reply, flushing) /\ ~SameWaiter(t, u)
                                => Waits(u, reply', flushing')
  BY ResultKeepsOthers

LEMMA PostKeepsQueue ==
    ASSUME TypeOK, QueueInv, Waiters, NEW c \in Commands,
           KeepCommand(c) \/ RejectCommand(c) \/ DispatchCommand(c)
    PROVE  QueueInv' /\ Waiters'
<1>1. /\ reply[c] = "none"
      /\ c \notin Range(pending) \cup Range(batch) \cup Range(flushing)
      /\ c \notin settled
  BY DEF KeepCommand, RejectCommand, DispatchCommand, QueueInv, QueuedIsKept
<1>2. /\ \A i \in DOMAIN tasks : tasks[i] \in Tasks
      /\ \A t \in Tasks : t.command \in Commands
  <2>1. \A i \in DOMAIN tasks : tasks[i] \in Tasks
    BY DEF TypeOK
  <2> QED
    BY <2>1 DEF Tasks
<1>3. ASSUME NEW t \in Tasks, NEW x, Waits(t, reply, flushing),
             reply' = [reply EXCEPT ![c] = x], flushing' = flushing
      PROVE  Waits(t, reply', flushing')
  BY <1>1, <1>2, <1>3 DEF TypeOK, Waits
<1>4. CASE KeepCommand(c)
  <2>1. /\ {x \in Commands : reply'[x] = "queued"}
             = {x \in Commands : reply[x] = "queued"} \cup {c}
        /\ \A x \in settled : reply'[x] = "queued"
    BY <1>1, <1>4 DEF KeepCommand, TypeOK, QueueInv
  <2>2. Range(pending') = Range(pending) \cup {c} /\ IsInjective(pending')
    BY <1>1, <1>4, AppendKeeps DEF KeepCommand, TypeOK, QueueInv, QueuedIsKept
  <2>3. QueueInv'
    BY <1>1, <1>4, <2>1, <2>2 DEF KeepCommand, QueueInv, QueuedIsKept
  <2>4. Waiters'
    BY <1>2, <1>3, <1>4 DEF KeepCommand, sendVars, TypeOK, Waiters, AllWait
  <2> QED
    BY <2>3, <2>4
<1>5. CASE RejectCommand(c)
  <2>1. /\ {x \in Commands : reply'[x] = "queued"}
             = {x \in Commands : reply[x] = "queued"}
        /\ \A x \in settled : reply'[x] = "queued"
    BY <1>1, <1>5 DEF RejectCommand, TypeOK, QueueInv
  <2>2. QueueInv'
    BY <1>5, <2>1 DEF RejectCommand, queueVars, QueueInv, QueuedIsKept
  <2>3. Waiters'
    BY <1>2, <1>3, <1>5 DEF RejectCommand, queueVars, sendVars, TypeOK, Waiters, AllWait
  <2> QED
    BY <2>2, <2>3
<1>6. CASE DispatchCommand(c)
  <2>1. /\ {x \in Commands : reply'[x] = "queued"}
             = {x \in Commands : reply[x] = "queued"}
        /\ \A x \in settled : reply'[x] = "queued"
    BY <1>1, <1>6 DEF DispatchCommand, TypeOK, QueueInv
  <2>2. QueueInv'
    BY <1>6, <2>1 DEF DispatchCommand, queueVars, QueueInv, QueuedIsKept
  <2> DEFINE t == Task(c, "post")
  <2>3. t \in Tasks /\ t.waiter = "post" /\ t.command = c
    BY CommandAssumption DEF Task, Tasks
  <2>4. reply' = [reply EXCEPT ![c] = "sending"] /\ flushing' = flushing
    BY <1>6 DEF DispatchCommand, queueVars
  <2>5. Waits(t, reply', flushing')
    BY <2>3, <2>4 DEF Waits, TypeOK
  <2>6. \A u \in Tasks : Waits(u, reply, flushing) => ~SameWaiter(u, t)
    BY <1>1, <2>3 DEF Waits, SameWaiter
  <2> HIDE DEF t
  <2>7. AllWait(Append(tasks, t), draining, reply', flushing')
    <3>1. \A i \in DOMAIN tasks : Waits(tasks[i], reply', flushing')
                                  /\ ~SameWaiter(tasks[i], t)
      BY <1>2, <1>3, <2>4, <2>6 DEF Waiters, AllWait
    <3>2. \A u \in draining : Waits(u, reply', flushing') /\ ~SameWaiter(u, t)
      BY <1>3, <2>4, <2>6 DEF Waiters, AllWait, TypeOK
    <3>3. tasks \in Seq(Tasks) /\ AllWait(tasks, draining, reply, flushing)
      BY DEF TypeOK, Waiters
    <3> QED
      BY <2>3, <2>5, <3>1, <3>2, <3>3, TaskAdded
  <2>8. Waiters'
    BY <1>6, <2>7 DEF DispatchCommand, Waiters, t
  <2> QED
    BY <2>2, <2>8
<1> QED
  BY <1>4, <1>5, <1>6

LEMMA FlushKeepsQueue ==
    ASSUME TypeOK, QueueInv, Waiters, Flush
    PROVE  QueueInv' /\ Waiters'
<1>1. CASE TakeBatch
  <2>1. QueueInv'
    BY <1>1, SmallSequences DEF TakeBatch, QueueInv, QueuedIsKept
  <2> QED
    BY <1>1, <2>1 DEF TakeBatch, sendVars, Waiters
<1>2. CASE batch # <<>>
  <2>1. /\ Head(batch) \in Commands /\ Tail(batch) \in Seq(Commands)
        /\ Range(batch) = Range(Tail(batch)) \cup {Head(batch)}
        /\ IsInjective(Tail(batch)) /\ Head(batch) \notin Range(Tail(batch))
    BY <1>2, TailKeeps DEF TypeOK, QueueInv, QueuedIsKept
  <2>2. /\ reply[Head(batch)] = "queued" /\ Head(batch) \notin settled
        /\ Head(batch) \notin Range(pending)
    BY <2>1 DEF QueueInv, QueuedIsKept
  <2>3. CASE DropExpired
    <3>1. QueueInv'
      BY <2>1, <2>2, <2>3 DEF DropExpired, QueueInv, QueuedIsKept
    <3> QED
      BY <2>3, <3>1 DEF DropExpired, sendVars, Waiters
  <2>4. CASE Requeue
    <3>1. Range(pending') = Range(pending) \cup {Head(batch)} /\ IsInjective(pending')
      BY <2>1, <2>2, <2>4, AppendKeeps DEF Requeue, TypeOK, QueueInv, QueuedIsKept
    <3>2. QueueInv'
      BY <2>1, <2>2, <2>4, <3>1 DEF Requeue, QueueInv, QueuedIsKept
    <3> QED
      BY <2>4, <3>2 DEF Requeue, sendVars, Waiters
  <2>5. CASE Replay
    <3> DEFINE c == Head(batch)
               t == Task(c, "flush")
    <3>1. Range(flushing') = {c} /\ IsInjective(flushing') /\ Range(flushing) = {}
      BY <2>5, SmallSequences DEF Replay
    <3>2. QueueInv'
      BY <2>1, <2>2, <2>5, <3>1 DEF Replay, QueueInv, QueuedIsKept
    <3>3. t \in Tasks /\ t.waiter = "flush" /\ t.command = c
      BY <2>1, CommandAssumption DEF Task, Tasks
    <3>4. reply' = reply /\ flushing' = <<c>> /\ flushing = <<>>
      BY <2>5 DEF Replay
    <3>5. \A u \in Tasks : Waits(u, reply, flushing) => u.waiter # "flush"
      BY <3>4 DEF Waits
    <3>6. \A u \in Tasks : Waits(u, reply, flushing) => Waits(u, reply', flushing')
      BY <3>4, <3>5 DEF Waits
    <3>7. Waits(t, reply', flushing')
      BY <3>3, <3>4 DEF Waits
    <3>8. \A u \in Tasks : Waits(u, reply, flushing) => ~SameWaiter(u, t)
      BY <3>3, <3>5 DEF SameWaiter
    <3> HIDE DEF t
    <3>9. AllWait(Append(tasks, t), draining, reply', flushing')
      <4>1. \A i \in DOMAIN tasks : Waits(tasks[i], reply', flushing')
                                    /\ ~SameWaiter(tasks[i], t)
        BY <3>6, <3>8 DEF Waiters, AllWait, TypeOK
      <4>2. \A u \in draining : Waits(u, reply', flushing') /\ ~SameWaiter(u, t)
        BY <3>6, <3>8 DEF Waiters, AllWait, TypeOK
      <4>3. tasks \in Seq(Tasks) /\ AllWait(tasks, draining, reply, flushing)
        BY DEF TypeOK, Waiters
      <4> QED
        BY <3>3, <3>7, <4>1, <4>2, <4>3, TaskAdded
    <3>10. Waiters'
      BY <2>5, <3>9 DEF Replay, Waiters, t
    <3> QED
      BY <3>2, <3>10
  <2> QED
    BY <1>2, <2>3, <2>4, <2>5 DEF Flush, TakeBatch
<1> QED
  BY <1>1, <1>2 DEF Flush, DropExpired, Requeue, Replay

LEMMA SendKeepsQueue ==
    ASSUME TypeOK, QueueInv, Waiters, Send
    PROVE  QueueInv' /\ Waiters'
<1>1. /\ tasks # <<>> /\ tasks' = Tail(tasks) /\ tasks \in Seq(Tasks)
      /\ Head(tasks) \in Tasks /\ draining \subseteq Tasks
      /\ Head(tasks) = tasks[1] /\ 1 \in DOMAIN tasks
  BY TailKeeps DEF Send, SendNothing, SendRaises, SendWrites, TypeOK
<1>2. Waits(Head(tasks), reply, flushing) /\ AllWait(tasks, draining, reply, flushing)
  BY <1>1 DEF Waiters, AllWait
<1>3. CASE draining' = draining /\ (Succeeds(Head(tasks)) \/ Keep(Head(tasks)))
  <2>1. QueueInv'
    BY <1>1, <1>2, <1>3, ResultKeepsQueue
  <2>2. \A u \in Tasks : Waits(u, reply, flushing) /\ ~SameWaiter(Head(tasks), u)
                            => Waits(u, reply', flushing')
    BY <1>1, <1>2, <1>3, ResultWaits
  <2>3. AllWait(Tail(tasks), draining, reply', flushing')
    BY <1>1, <1>2, <2>2, HeadRemoved
  <2> QED
    BY <1>1, <1>3, <2>1, <2>3 DEF Waiters
<1>4. CASE /\ draining' = draining \cup {[Head(tasks) EXCEPT !.on = ws]}
           /\ UNCHANGED <<reply, queueVars>>
  <2> DEFINE u == [Head(tasks) EXCEPT !.on = ws]
  <2>1. u.waiter = Head(tasks).waiter /\ u.command = Head(tasks).command
    BY <1>1 DEF Tasks
  <2>2. AllWait(Tail(tasks), draining \cup {u}, reply, flushing)
    <3> HIDE DEF u
    <3> QED
      BY <1>1, <1>2, <2>1, HeadDrains
  <2> QED
    BY <1>1, <1>4, <2>2 DEF queueVars, Waiters, QueueInv, QueuedIsKept
<1> QED
  BY <1>3, <1>4 DEF Send, SendNothing, SendRaises, SendWrites, Fails

LEMMA WaitingEndsKeepsQueue ==
    ASSUME TypeOK, QueueInv, Waiters, DrainEnds \/ StopWaiting
    PROVE  QueueInv' /\ Waiters'
<1>1. /\ tasks \in Seq(Tasks) /\ draining \in SUBSET Tasks
      /\ AllWait(tasks, draining, reply, flushing)
  BY DEF TypeOK, Waiters
<1>2. \A t \in Tasks : Abandoned(t).waiter = "nobody"
  BY DEF Abandoned, Tasks
<1>3. CASE GivesUpBeforeStart
  <2>1. PICK i \in DOMAIN tasks :
            /\ Keep(tasks[i])
            /\ tasks' = [tasks EXCEPT ![i] = Abandoned(@)]
            /\ draining' = draining
    BY <1>3 DEF GivesUpBeforeStart, GivesUp
  <2>2. tasks[i] \in Tasks /\ Waits(tasks[i], reply, flushing)
    BY <1>1 DEF AllWait
  <2>3. QueueInv'
    BY <2>1, <2>2, ResultKeepsQueue
  <2>4. \A u \in Tasks : Waits(u, reply, flushing) /\ ~SameWaiter(tasks[i], u)
                            => Waits(u, reply', flushing')
    BY <2>1, <2>2, ResultWaits
  <2>5. AllWait([tasks EXCEPT ![i] = Abandoned(@)], draining, reply', flushing')
    BY <1>1, <2>4, TaskAbandoned
  <2> QED
    BY <2>1, <2>3, <2>5 DEF Waiters
<1>4. CASE GivesUpDraining \/ DrainEnds
  <2>1. PICK t \in draining :
            /\ Succeeds(t) \/ Keep(t)
            /\ draining' = draining \ {t} \/ draining' = (draining \ {t}) \cup {Abandoned(t)}
            /\ tasks' = tasks
    BY <1>4 DEF GivesUpDraining, GivesUp, DrainEnds, Fails
  <2>2. t \in Tasks /\ Waits(t, reply, flushing)
    BY <1>1 DEF AllWait
  <2>3. QueueInv'
    BY <2>1, <2>2, ResultKeepsQueue
  <2>4. \A u \in Tasks : Waits(u, reply, flushing) /\ ~SameWaiter(t, u)
                            => Waits(u, reply', flushing')
    BY <2>1, <2>2, ResultWaits
  <2>5. \A u \in draining' : u \in draining \ {t} \/ u.waiter = "nobody"
    BY <1>2, <2>1, <2>2
  <2>6. AllWait(tasks, draining', reply', flushing')
    BY <1>1, <2>4, <2>5, DrainRemoved
  <2> QED
    BY <2>1, <2>3, <2>6 DEF Waiters
<1> QED
  BY <1>3, <1>4 DEF StopWaiting

LEMMA QueueInductive == TypeOK /\ QueueInv /\ Waiters /\ [Next]_vars => QueueInv' /\ Waiters'
<1> SUFFICES ASSUME TypeOK, QueueInv, Waiters, [Next]_vars
             PROVE  QueueInv' /\ Waiters'
  OBVIOUS
<1>1. CASE Post
  BY <1>1, PostKeepsQueue DEF Post
<1>2. CASE Flush \/ Send \/ DrainEnds \/ StopWaiting
  BY <1>2, FlushKeepsQueue, SendKeepsQueue, WaitingEndsKeepsQueue
<1>3. CASE UNCHANGED <<reply, pending, batch, flushing, settled, sendVars>>
  BY <1>3 DEF QueueInv, QueuedIsKept, Waiters, sendVars
<1>4. ASSUME NEW c, \/ SilenceGrows \/ Expire(c) \/ Connect \/ LinkBreaks
                    \/ Reap(c) \/ HandlerEnds(c) \/ SocketCloses(c)
      PROVE  UNCHANGED <<reply, pending, batch, flushing, settled, sendVars>>
  BY <1>4 DEF SilenceGrows, Expire, Connect, LinkBreaks, Reap, SocketCloses, CloseSocket,
      HandlerEnds, queueVars
<1>5. CASE UNCHANGED vars
  BY <1>3, <1>5 DEF vars, queueVars
<1> QED
  BY <1>1, <1>2, <1>3, <1>4, <1>5 DEF Next, Time, Handlers, Device

\* A command that was answered "queued" is in exactly one place of the runner
\* until it was replayed or has expired (_pending, _flush_pending), for any
\* number of threads, failures, timeouts and connections.
THEOREM QueuedIsKeptOnce == Spec => []QueuedIsKept
<1>1. Init => QueueInv /\ Waiters
  BY SmallSequences DEF Init, QueueInv, QueuedIsKept, Waiters, AllWait
<1>2. QueueInv => QueuedIsKept
  BY DEF QueueInv
<1> QED
  BY <1>1, <1>2, QueueInductive, TypeCorrect, PTL DEF Spec

-----------------------------------------------------------------------------
(* Executing a command again *)

\* A command that no attempt to send has failed was executed at most once, and
\* one that is still to be sent, or sent again, was not.
RepeatInv ==
    \A c \in Commands \ failed :
        /\ executed[c] <= 1
        /\ executed[c] > 0 => reply[c] # "none" /\ c \notin Range(pending) \cup Range(batch)
        /\ \A i \in DOMAIN tasks :
              tasks[i].command = c => executed[c] = 0 /\ tasks[i].waiter # "nobody"

\* A step in which the device executes nothing: what it gives to the runner or
\* to the event loop was there before, has failed, or is new.
LEMMA NothingExecuted ==
    ASSUME TypeOK, RepeatInv, executed' = executed, failed \subseteq failed',
           \A c \in Commands : reply[c] # "none" => reply'[c] # "none",
           \A c \in Range(pending') \cup Range(batch') :
              c \in failed' \/ c \in Range(pending) \cup Range(batch) \/ reply[c] = "none",
           \A j \in DOMAIN tasks' :
              LET t == tasks'[j]
              IN  \/ t.command \in failed'
                  \/ \E i \in DOMAIN tasks : t = tasks[i]
                  \/ executed[t.command] = 0 /\ t.waiter # "nobody"
    PROVE  RepeatInv'
<1> SUFFICES ASSUME NEW c \in Commands, c \notin failed'
             PROVE  /\ executed[c] <= 1
                    /\ executed[c] > 0 => reply'[c] # "none"
                                          /\ c \notin Range(pending') \cup Range(batch')
                    /\ \A j \in DOMAIN tasks' :
                          tasks'[j].command = c
                              => executed[c] = 0 /\ tasks'[j].waiter # "nobody"
  BY DEF RepeatInv
<1>1. c \in Commands \ failed
  OBVIOUS
<1>2. /\ executed[c] <= 1
      /\ executed[c] > 0 => reply[c] # "none" /\ c \notin Range(pending) \cup Range(batch)
      /\ \A i \in DOMAIN tasks :
            tasks[i].command = c => executed[c] = 0 /\ tasks[i].waiter # "nobody"
  BY <1>1 DEF RepeatInv
<1> QED
  BY <1>2

LEMMA PostRepeats ==
    ASSUME TypeOK, RepeatInv, NEW c \in Commands,
           KeepCommand(c) \/ RejectCommand(c) \/ DispatchCommand(c)
    PROVE  RepeatInv'
<1>1. /\ executed' = executed /\ failed' = failed /\ reply[c] = "none"
      /\ \A x \in Commands : reply[x] # "none" => reply'[x] # "none"
  BY DEF KeepCommand, RejectCommand, DispatchCommand, failVars, TypeOK
<1>2. \A x \in Range(pending') \cup Range(batch') :
          x \in Range(pending) \cup Range(batch) \/ reply[x] = "none"
  <2>1. CASE KeepCommand(c)
    <3>1. Range(pending') = Range(pending) \cup {c} /\ batch' = batch
      BY <2>1, AppendKeeps DEF KeepCommand, TypeOK
    <3> QED
      BY <1>1, <3>1
  <2>2. CASE pending' = pending /\ batch' = batch
    BY <2>2
  <2> QED
    BY <2>1, <2>2 DEF RejectCommand, DispatchCommand, queueVars
<1>3. CASE tasks' = tasks
  BY <1>1, <1>2, <1>3, NothingExecuted
<1>4. CASE DispatchCommand(c) /\ c \notin failed
  <2> DEFINE t == Task(c, "post")
  <2>1. t.command = c /\ t.waiter # "nobody" /\ t \in Tasks
    BY CommandAssumption DEF Task, Tasks
  <2>2. executed[c] = 0
    <3>1. executed[c] \in Nat
      BY DEF TypeOK
    <3> QED
      BY <1>1, <1>4, <3>1 DEF RepeatInv
  <2>3. tasks' = Append(tasks, t) /\ tasks \in Seq(Tasks)
    BY <1>4 DEF DispatchCommand, TypeOK
  <2> HIDE DEF t
  <2>4. \A j \in DOMAIN tasks' : (\E i \in DOMAIN tasks : tasks'[j] = tasks[i]) \/ tasks'[j] = t
    BY <2>1, <2>3
  <2> QED
    BY <1>1, <1>2, <2>1, <2>2, <2>4, NothingExecuted
<1>5. CASE DispatchCommand(c) /\ c \in failed
  <2> DEFINE t == Task(c, "post")
  <2>1. t.command = c /\ t \in Tasks
    BY CommandAssumption DEF Task, Tasks
  <2>2. tasks' = Append(tasks, t) /\ tasks \in Seq(Tasks)
    BY <1>5 DEF DispatchCommand, TypeOK
  <2> HIDE DEF t
  <2>3. \A j \in DOMAIN tasks' : (\E i \in DOMAIN tasks : tasks'[j] = tasks[i]) \/ tasks'[j] = t
    BY <2>1, <2>2
  <2> QED
    BY <1>1, <1>2, <1>5, <2>1, <2>3, NothingExecuted
<1> QED
  BY <1>3, <1>4, <1>5 DEF KeepCommand, RejectCommand, DispatchCommand, sendVars

LEMMA FlushRepeats ==
    ASSUME TypeOK, RepeatInv, Flush
    PROVE  RepeatInv'
<1>1. executed' = executed /\ failed' = failed /\ reply' = reply
  BY DEF Flush, TakeBatch, DropExpired, Requeue, Replay, failVars
<1>2. ASSUME batch # <<>>
      PROVE  /\ Head(batch) \in Commands
             /\ Range(batch) = Range(Tail(batch)) \cup {Head(batch)}
  BY <1>2, TailKeeps DEF TypeOK
<1>3. Range(pending') \cup Range(batch') \subseteq Range(pending) \cup Range(batch)
  <2>1. CASE TakeBatch
    BY <2>1, SmallSequences DEF TakeBatch
  <2>2. CASE DropExpired \/ Replay
    BY <1>2, <2>2 DEF DropExpired, Replay
  <2>3. CASE Requeue
    <3>1. Range(pending') = Range(pending) \cup {Head(batch)}
      BY <1>2, <2>3, AppendKeeps DEF Requeue, TypeOK
    <3> QED
      BY <1>2, <2>3, <3>1 DEF Requeue
  <2> QED
    BY <2>1, <2>2, <2>3 DEF Flush
<1>4. CASE tasks' = tasks
  BY <1>1, <1>3, <1>4, NothingExecuted
<1>5. CASE Replay
  <2> DEFINE c == Head(batch)
             t == Task(c, "flush")
  <2>1. c \in Commands /\ c \in Range(batch)
    BY <1>2, <1>5 DEF Replay
  <2>2. t.command = c /\ t.waiter # "nobody" /\ t \in Tasks
    BY <2>1, CommandAssumption DEF Task, Tasks
  <2>3. c \notin failed => executed[c] = 0
    <3>1. executed[c] \in Nat
      BY <2>1 DEF TypeOK
    <3> QED
      BY <2>1, <3>1 DEF RepeatInv
  <2>4. tasks' = Append(tasks, t) /\ tasks \in Seq(Tasks)
    BY <1>5 DEF Replay, TypeOK
  <2> HIDE DEF t
  <2>5. \A j \in DOMAIN tasks' : (\E i \in DOMAIN tasks : tasks'[j] = tasks[i]) \/ tasks'[j] = t
    BY <2>2, <2>4
  <2> HIDE DEF c
  <2> QED
    BY <1>1, <1>3, <2>2, <2>3, <2>5, NothingExecuted
<1> QED
  BY <1>4, <1>5 DEF Flush, TakeBatch, DropExpired, Requeue, sendVars

\* A thread or the event loop stops waiting for a coroutine: what is kept again
\* has failed.
LEMMA ResultRepeats ==
    ASSUME TypeOK, NEW t \in Tasks,
           Succeeds(t) \/ (Keep(t) /\ failed' = failed \cup {t.command})
    PROVE  /\ failed \subseteq failed'
           /\ \A c \in Commands : reply[c] # "none" => reply'[c] # "none"
           /\ \A c \in Range(pending') \cup Range(batch') :
                 c \in failed' \/ c \in Range(pending) \cup Range(batch)
<1>1. t.command \in Commands
  BY DEF Tasks
<1>2. reply' = reply \/ \E x \in {"ok", "queued"} : reply' = [reply EXCEPT ![t.command] = x]
  BY DEF Succeeds, Keep
<1>3. \A c \in Commands : reply[c] # "none" => reply'[c] # "none"
  BY <1>1, <1>2 DEF TypeOK
<1>4. CASE Succeeds(t)
  BY <1>3, <1>4 DEF Succeeds, failVars
<1>5. CASE Keep(t) /\ failed' = failed \cup {t.command}
  <2>1. batch' = batch /\ (pending' = pending \/ pending' = Append(pending, t.command))
    BY <1>5 DEF Keep
  <2>2. Range(pending') \subseteq Range(pending) \cup {t.command}
    <3>1. pending \in Seq(Commands)
      BY DEF TypeOK
    <3>2. Range(Append(pending, t.command)) = Range(pending) \cup {t.command}
      BY <1>1, <3>1, AppendKeeps
    <3> QED
      BY <2>1, <3>2
  <2> QED
    BY <1>3, <1>5, <2>1, <2>2
<1> QED
  BY <1>4, <1>5

LEMMA WaitingEndsRepeats ==
    ASSUME TypeOK, RepeatInv, DrainEnds \/ StopWaiting
    PROVE  RepeatInv'
<1>1. CASE DrainEnds \/ GivesUpDraining
  <2>1. PICK t \in draining : /\ Succeeds(t) \/ (Keep(t) /\ failed' = failed \cup {t.command})
                              /\ executed' = executed /\ tasks' = tasks
    BY <1>1 DEF DrainEnds, Fails, GivesUpDraining, GivesUp
  <2>2. t \in Tasks
    BY DEF TypeOK
  <2> QED
    BY <2>1, <2>2, ResultRepeats, NothingExecuted
<1>2. CASE GivesUpBeforeStart
  <2>1. PICK i \in DOMAIN tasks :
            /\ Keep(tasks[i]) /\ failed' = failed \cup {tasks[i].command}
            /\ executed' = executed
            /\ tasks' = [tasks EXCEPT ![i] = Abandoned(@)]
    BY <1>2 DEF GivesUpBeforeStart, GivesUp
  <2>2. tasks[i] \in Tasks /\ Abandoned(tasks[i]).command = tasks[i].command
    <3>1. tasks[i] \in Tasks
      BY DEF TypeOK
    <3> QED
      BY <3>1 DEF Abandoned, Tasks
  <2>3. \A j \in DOMAIN tasks' : j \in DOMAIN tasks
            /\ (tasks'[j] = tasks[j] \/ tasks'[j].command = tasks[i].command)
    BY <2>1, <2>2
  <2> QED
    BY <2>1, <2>2, <2>3, ResultRepeats, NothingExecuted
<1> QED
  BY <1>1, <1>2 DEF StopWaiting

\* When the first coroutine writes a command that has not failed, the thread that
\* waits for it is the only one that could send that command.
LEMMA OnlySender ==
    ASSUME TypeOK, QueueInv, Waiters, RepeatInv, tasks # <<>>,
           Head(tasks).command \notin failed
    PROVE  LET c == Head(tasks).command
           IN  /\ executed[c] = 0 /\ reply[c] # "none"
               /\ c \notin Range(pending) \cup Range(batch)
               /\ \A i \in DOMAIN tasks : tasks[i].command = c => i = 1
<1> DEFINE c == Head(tasks).command
<1>1. /\ Head(tasks) = tasks[1] /\ 1 \in DOMAIN tasks
      /\ \A i \in DOMAIN tasks : tasks[i] \in Tasks
  BY DEF TypeOK
<1>2. /\ c \in Commands
      /\ \A i \in DOMAIN tasks : tasks[i].waiter \in {"post", "flush", "nobody"}
  BY <1>1 DEF Tasks
<1>3. \A i \in DOMAIN tasks : tasks[i].command = c
          => /\ executed[c] = 0
             /\ \/ tasks[i].waiter = "post" /\ reply[c] = "sending"
                \/ tasks[i].waiter = "flush" /\ flushing = <<c>>
  BY <1>2 DEF RepeatInv, Waiters, AllWait, Waits
<1>4. flushing = <<c>> => reply[c] = "queued" /\ c \notin Range(pending) \cup Range(batch)
  <2>1. flushing = <<c>> => c \in Range(flushing)
    BY SmallSequences
  <2> QED
    BY <2>1 DEF QueueInv, QueuedIsKept
<1>5. reply[c] = "sending" => c \notin Range(pending) \cup Range(batch)
  BY <1>2 DEF QueueInv, QueuedIsKept
<1>6. \A i \in DOMAIN tasks : tasks[i].command = c => tasks[i].waiter = tasks[1].waiter
  BY <1>1, <1>3, <1>4
<1>7. \A i \in DOMAIN tasks : tasks[i].command = c => i = 1
  BY <1>1, <1>3, <1>6 DEF Waiters, AllWait, SameWaiter
<1> QED
  BY <1>1, <1>3, <1>4, <1>5, <1>7

LEMMA SendRepeats ==
    ASSUME TypeOK, QueueInv, Waiters, RepeatInv, Send
    PROVE  RepeatInv'
<1>1. /\ tasks # <<>> /\ tasks' = Tail(tasks) /\ tasks \in Seq(Tasks)
      /\ Head(tasks) \in Tasks /\ Head(tasks).command \in Commands
  <2>1. /\ tasks # <<>> /\ tasks' = Tail(tasks) /\ tasks \in Seq(Tasks)
        /\ Head(tasks) \in Tasks
    BY TailKeeps DEF Send, SendNothing, SendRaises, SendWrites, TypeOK
  <2> QED
    BY <2>1 DEF Tasks
<1>2. \A j \in DOMAIN tasks' :
          j + 1 \in DOMAIN tasks /\ j + 1 # 1 /\ tasks'[j] = tasks[j + 1]
  BY <1>1
<1>3. CASE UNCHANGED executed
  <2>1. CASE Succeeds(Head(tasks)) \/ Fails(Head(tasks))
    <3>1. /\ failed \subseteq failed'
          /\ \A c \in Commands : reply[c] # "none" => reply'[c] # "none"
          /\ \A c \in Range(pending') \cup Range(batch') :
                c \in failed' \/ c \in Range(pending) \cup Range(batch)
      BY <1>1, <2>1, ResultRepeats DEF Fails
    <3> QED
      BY <1>2, <1>3, <3>1, NothingExecuted
  <2>2. CASE UNCHANGED <<reply, queueVars, failVars>>
    BY <1>2, <1>3, <2>2, NothingExecuted DEF queueVars, failVars
  <2> QED
    BY <2>1, <2>2 DEF Send, SendNothing, SendRaises, SendWrites
<1>4. CASE /\ executed' = [executed EXCEPT ![Head(tasks).command] = @ + 1]
           /\ Succeeds(Head(tasks)) \/ UNCHANGED <<reply, queueVars, failVars>>
  <2> DEFINE c == Head(tasks).command
  <2>1. /\ failed' = failed /\ pending' = pending /\ batch' = batch
        /\ \A x \in Commands : reply[x] # "none" => reply'[x] # "none"
    <3>1. CASE Succeeds(Head(tasks))
      BY <1>1, <3>1, ResultRepeats DEF Succeeds, failVars
    <3>2. CASE UNCHANGED <<reply, queueVars, failVars>>
      BY <3>2 DEF queueVars, failVars
    <3> QED
      BY <1>4, <3>1, <3>2
  <2>2. ASSUME c \notin failed
        PROVE  /\ executed[c] = 0 /\ reply[c] # "none"
               /\ c \notin Range(pending) \cup Range(batch)
               /\ \A i \in DOMAIN tasks : tasks[i].command = c => i = 1
    BY <1>1, <2>2, OnlySender
  <2>3. executed'[c] = executed[c] + 1 /\ \A x \in Commands : x # c => executed'[x] = executed[x]
    BY <1>1, <1>4 DEF TypeOK
  <2> HIDE DEF c
  <2>4. ASSUME NEW x \in Commands, x \notin failed'
        PROVE  /\ executed'[x] <= 1
               /\ executed'[x] > 0 => reply'[x] # "none"
                                      /\ x \notin Range(pending') \cup Range(batch')
               /\ \A j \in DOMAIN tasks' :
                     tasks'[j].command = x
                         => executed'[x] = 0 /\ tasks'[j].waiter # "nobody"
    <3>1. CASE x = c
      BY <1>2, <2>1, <2>2, <2>3, <2>4, <3>1
    <3>2. CASE x # c
      BY <1>2, <2>1, <2>3, <2>4, <3>2 DEF RepeatInv
    <3> QED
      BY <3>1, <3>2
  <2> QED
    BY <2>4 DEF RepeatInv
<1> QED
  BY <1>3, <1>4 DEF Send, SendNothing, SendRaises, SendWrites, Write

LEMMA RepeatInductive ==
    TypeOK /\ QueueInv /\ Waiters /\ RepeatInv /\ [Next]_vars => RepeatInv'
<1> SUFFICES ASSUME TypeOK, QueueInv, Waiters, RepeatInv, [Next]_vars
             PROVE  RepeatInv'
  OBVIOUS
<1>1. CASE Post
  BY <1>1, PostRepeats DEF Post
<1>2. CASE Flush \/ Send \/ DrainEnds \/ StopWaiting
  BY <1>2, FlushRepeats, SendRepeats, WaitingEndsRepeats
<1>3. CASE UNCHANGED <<reply, pending, batch, sendVars, executed, failed>>
  BY <1>3 DEF RepeatInv, sendVars
<1>4. ASSUME NEW c, \/ SilenceGrows \/ Expire(c) \/ Connect \/ LinkBreaks
                    \/ Reap(c) \/ HandlerEnds(c) \/ SocketCloses(c)
      PROVE  UNCHANGED <<reply, pending, batch, sendVars, executed, failed>>
  BY <1>4 DEF SilenceGrows, Expire, Connect, LinkBreaks, Reap, SocketCloses, CloseSocket,
      HandlerEnds, queueVars, failVars
<1>5. CASE UNCHANGED vars
  BY <1>3, <1>5 DEF vars, queueVars, failVars
<1> QED
  BY <1>1, <1>2, <1>3, <1>4, <1>5 DEF Next, Time, Handlers, Device

\* The device executes a command twice only if an attempt to send it failed
\* (_run_coro gives up without cancelling _send_json, and the command is kept).
THEOREM OnceUnlessFailed == Spec => []RepeatedOnlyAfterFailure
<1>1. Init => QueueInv /\ Waiters /\ RepeatInv
  BY SmallSequences
     DEF Init, QueueInv, QueuedIsKept, Waiters, AllWait, RepeatInv
<1>2. TypeOK /\ RepeatInv => RepeatedOnlyAfterFailure
  BY DEF TypeOK, RepeatInv, RepeatedOnlyAfterFailure
<1> QED
  BY <1>1, <1>2, QueueInductive, RepeatInductive, TypeCorrect, PTL DEF Spec

=============================================================================
