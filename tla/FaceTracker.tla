---------------------------- MODULE FaceTracker ----------------------------
(***************************************************************************)
(* The face tracker (mcp_server/face_tracker.py): a thread, started and    *)
(* stopped by POST /cmd of run_bridge.py, that takes a picture, looks for  *)
(* a face in it, moves the head and shows on the device's face whether it  *)
(* has found her, until it is stopped.  What is in a picture is a choice;  *)
(* the moves and the calls of _CALL_URLS change nothing that is kept here. *)
(***************************************************************************)
EXTENDS Snapshots

VARIABLES
    tracker,        \* the thread: "off", or where it is in _run
    stop,           \* self._stop is set
    status,         \* self.status
    misses,         \* pictures in a row without a face, modulo LostAfter
    happyAt,        \* self._happy_at: "none", "fresh" or "old" (5 seconds)
    shown           \* the face that the device shows

trackerVars == <<tracker, stop, status, misses, happyAt>>

LostAfter == 3

TrackerInit ==
    /\ tracker = "off" /\ stop = FALSE /\ status = "off"
    /\ misses = 0 /\ happyAt = "none"
    /\ shown = "calm"

\* A face command: the device shows what reaches it.
Shows(face) == shown' = IF ws = "open" THEN face ELSE shown

-----------------------------------------------------------------------------
(* track_start and track_stop *)

\* Mutant: the event is cleared before the thread is looked at.
ClearThenStart ==
    /\ stop' = FALSE
    /\ IF tracker = "off" THEN tracker' = "home" ELSE UNCHANGED tracker
    /\ UNCHANGED <<status, misses, happyAt, shown, snapshotVars>>

TrackStart ==
    /\ tracker = "off"
    /\ tracker' = "home" /\ stop' = FALSE
    /\ UNCHANGED <<status, misses, happyAt, shown, snapshotVars>>

TrackStop ==
    /\ stop' = TRUE /\ status' = "off"
    /\ UNCHANGED <<tracker, misses, happyAt, shown, snapshotVars>>

-----------------------------------------------------------------------------
(* _run *)

HeadHome ==
    /\ tracker = "home"
    /\ tracker' = "loop" /\ misses' = 0
    /\ UNCHANGED <<stop, status, happyAt, shown, snapshotVars>>

LoopEnds ==
    /\ tracker = "loop" /\ stop
    /\ tracker' = "off"
    /\ UNCHANGED <<stop, status, misses, happyAt, shown, snapshotVars>>

LinkIsDown ==
    /\ tracker = "loop" /\ ~stop /\ ~connected
    /\ status' = "lost"
    /\ UNCHANGED <<tracker, stop, misses, happyAt, shown, snapshotVars>>

TakePicture ==
    /\ tracker = "loop" /\ ~stop
    /\ Ask("tracker")
    /\ tracker' = "asking"
    /\ UNCHANGED <<stop, status, misses, happyAt, shown>>

NoPicture ==
    /\ tracker = "asking" /\ Fails("tracker")
    /\ tracker' = "loop"
    /\ UNCHANGED <<stop, status, misses, happyAt, shown>>

\* A face is in the picture.  Found again, she makes it happy for a while.
FaceFound ==
    /\ tracker = "asking" /\ Returns("tracker")
    /\ misses' = 0 /\ status' = "tracking"
    /\ \/ status \in {"lost", "searching"} /\ Shows("happy") /\ happyAt' = "fresh"
       \/ /\ status \notin {"lost", "searching"} /\ happyAt = "old"
          /\ Shows("calm") /\ happyAt' = "none"
       \/ /\ status \notin {"lost", "searching"} /\ happyAt # "old"
          /\ UNCHANGED <<shown, happyAt>>
    /\ tracker' = "pausing"
    /\ UNCHANGED stop

\* Only the remainder of the misses counts: _LOST_AFTER is 3 as well.
CountMiss == misses' = (misses + 1) % LostAfter

\* No face, or an error while looking: every third miss in a row it searches.
NoFace ==
    /\ tracker = "asking" /\ Returns("tracker")
    /\ CountMiss
    /\ IF misses' = 0
       THEN status' = "searching" /\ Shows("anxious")
       ELSE UNCHANGED <<status, shown>>
    /\ tracker' = "pausing"
    /\ UNCHANGED <<stop, happyAt>>

Pause ==
    /\ tracker = "pausing"
    /\ tracker' = "loop"
    /\ UNCHANGED <<stop, status, misses, happyAt, shown, snapshotVars>>

HappyLongEnough ==
    /\ happyAt = "fresh"
    /\ happyAt' = "old"
    /\ UNCHANGED <<tracker, stop, status, misses, shown, snapshotVars>>

TrackerLoop ==
    \/ HeadHome \/ LoopEnds \/ LinkIsDown \/ TakePicture
    \/ NoPicture \/ FaceFound \/ NoFace \/ Pause

-----------------------------------------------------------------------------

TrackerTypes ==
    /\ tracker \in {"off", "home", "loop", "asking", "pausing"}
    /\ stop \in BOOLEAN
    /\ status \in {"off", "tracking", "lost", "searching"}
    /\ misses \in 0 .. LostAfter - 1
    /\ happyAt \in {"none", "fresh", "old"}

\* Once it is stopped, the thread of the tracker ends, wherever it is.
StopEnds == stop ~> tracker = "off"

=============================================================================
