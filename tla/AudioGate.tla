------------------------------ MODULE AudioGate ------------------------------
(***************************************************************************)
(* The audio gate of firmware/src/audio_gate.cpp: one FreeRTOS recursive   *)
(* mutex that serialises every user of the speaker and of the microphone,  *)
(* and the owner label that /playback/status reports.  The mutex belongs   *)
(* to a TASK; the label names the operation that took it last.  A give by  *)
(* a task that does not hold the mutex fails and leaves it held, but the   *)
(* label is overwritten all the same.                                      *)
(***************************************************************************)
EXTENDS Naturals

\* The two tasks that use the gate: pcmStreamTask and the Arduino loop task.
GateTasks == {"pcm", "loop"}

GateOwners == {"none", "pcm-udp", "pcm-stream", "mic-init", "mic-record", "wav-play",
               "pcm-play", "speaker-end", "play-stop"}

Gates == [holder : GateTasks \cup {"none"}, depth : Nat, owner : GateOwners]

FreeGate == [holder |-> "none", depth |-> 0, owner |-> "none"]

\* xSemaphoreTakeRecursive succeeds for the holder at once, for the others
\* when nobody holds the mutex; otherwise the caller waits until it times out.
CanTake(g, task) == g.holder \in {"none", task}

Take(g, task, owner) ==
    [holder |-> task, depth |-> g.depth + 1, owner |-> owner]

Give(g, task) ==
    IF g.holder # task THEN [g EXCEPT !.owner = "none"]
    ELSE IF g.depth = 1 THEN FreeGate
    ELSE [g EXCEPT !.depth = @ - 1, !.owner = "none"]

=============================================================================
