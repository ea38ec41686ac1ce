----------------------------- MODULE Snapshots -----------------------------
(***************************************************************************)
(* Taking a picture over the bridge (mcp_server/ws_bridge.py): the thread  *)
(* of the face tracker and the threads of POST /cmd and of the tool        *)
(* stackchan_ws_see call request_snapshot.  Each puts a future into the    *)
(* one slot _snapshot_future, has the event loop send the command and      *)
(* waits for the future; the handler of the connection completes whatever  *)
(* future is in the slot with the next answer of the device.  The device   *)
(* answers in order, with a picture or with snapshot_failed, and an answer *)
(* names no request.                                                       *)
(*                                                                         *)
(* Of the link this module keeps whether a connection is in use and        *)
(* whether the device still is at its other end; CommandQueue has the      *)
(* connections one by one.                                                 *)
(***************************************************************************)
EXTENDS Naturals, Sequences, FiniteSets

CONSTANTS
    Clients,        \* the threads besides the tracker's that take pictures
    MaxAnswers      \* bound on the answers that the device owes

Callers == Clients \cup {"tracker"}

ASSUME SnapshotAssumption ==
    /\ MaxAnswers \in Nat
    /\ {"none", "nobody"} \cap Callers = {}

VARIABLES
    ws,             \* self._ws: "open", "lost" (the device has left it), "none"
    slot,           \* whose future is in _snapshot_future
    call,           \* each caller in request_snapshot, and its future
    doubt,          \* an older request was not yet over when it asked (history)
    answers         \* whose requests the device has still to answer, in order

snapshotVars == <<ws, slot, call, doubt, answers>>

Idle == [at |-> "idle", result |-> "none"]

Calls == {Idle} \cup [at : {"sending", "waiting"}, result : {"none", "picture", "failed"}]

SnapshotInit ==
    /\ ws = "none" /\ slot = "none"
    /\ call = [c \in Callers |-> Idle]
    /\ doubt = [c \in Callers |-> FALSE]
    /\ answers = <<>>

connected == ws # "none"

-----------------------------------------------------------------------------
(* request_snapshot, in the thread of the caller *)

\* Mutant: a slot that is in use is not overwritten.
FillSlot(c) == slot' = IF slot = "none" THEN c ELSE slot

TakeSlot(c) == slot' = c

Sending == {c \in Callers : call[c].at = "sending"}

Ask(c) ==
    /\ call[c].at = "idle" /\ connected
    /\ Len(answers) + Cardinality(Sending) < MaxAnswers
    /\ TakeSlot(c)
    /\ call' = [call EXCEPT ![c] = [at |-> "sending", result |-> "none"]]
    /\ doubt' = [doubt EXCEPT ![c] = answers # <<>> \/ Sending # {}]
    /\ UNCHANGED <<ws, answers>>

\* _send_json, in the event loop: a command sent into a connection that the
\* device has left, or to none, reaches nobody, and nobody is told.
Send(c) ==
    /\ call[c].at = "sending"
    /\ call' = [call EXCEPT ![c].at = "waiting"]
    /\ answers' = IF ws = "open" THEN Append(answers, c) ELSE answers
    /\ UNCHANGED <<ws, slot, doubt>>

\* request_snapshot is over for c, whatever became of its future.
Over(c) ==
    /\ call' = [call EXCEPT ![c] = Idle]
    /\ doubt' = [doubt EXCEPT ![c] = FALSE]
    /\ answers' = [i \in DOMAIN answers |-> IF answers[i] = c THEN "nobody" ELSE answers[i]]
    /\ UNCHANGED <<ws, slot>>

\* ConnectionClosed, wait_timeout or the exception of the future: in the first
\* two cases the future stays in the slot.
Fails(c) ==
    /\ \/ call[c].at = "sending" /\ ws = "lost"
       \/ call[c].at = "waiting" /\ call[c].result # "picture"
    /\ Over(c)

Returns(c) == call[c].at = "waiting" /\ call[c].result = "picture" /\ Over(c)

-----------------------------------------------------------------------------
(* The handler of the connection and the link *)

\* A future that is done, or whose caller has given up, is not changed.
Waits(c) == c \in Callers /\ call[c].at # "idle" /\ call[c].result = "none"

\* _on_binary, or snapshot_failed in _on_text.
Answer(result) ==
    /\ ws = "open" /\ answers # <<>>
    /\ answers' = Tail(answers)
    /\ call' = IF Waits(slot) THEN [call EXCEPT ![slot].result = result] ELSE call
    /\ slot' = "none"
    /\ UNCHANGED <<ws, doubt>>

Connect ==
    /\ ws # "open"
    /\ ws' = "open"
    /\ UNCHANGED <<slot, call, doubt, answers>>

\* The answers on the way are lost.
LinkBreaks ==
    /\ ws = "open"
    /\ ws' = "lost" /\ answers' = <<>>
    /\ UNCHANGED <<slot, call, doubt>>

\* The handler of the connection ends.
LossNoticed ==
    /\ ws = "lost"
    /\ ws' = "none"
    /\ UNCHANGED <<slot, call, doubt, answers>>

-----------------------------------------------------------------------------

SnapshotTypes ==
    /\ ws \in {"open", "lost", "none"}
    /\ slot \in Callers \cup {"none"}
    /\ call \in [Callers -> Calls]
    /\ doubt \in [Callers -> BOOLEAN]
    /\ answers \in Seq(Callers \cup {"nobody"})

\* request_snapshot returns the picture it asked for, unless an older request
\* was still on its way when it asked.
OwnPicture ==
    [][\A c \in Callers :
          call[c].result = "none" /\ call'[c].result = "picture"
              => Head(answers) = c \/ doubt[c]]_snapshotVars

=============================================================================
