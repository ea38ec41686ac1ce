---------------------------- MODULE MicRecorder ----------------------------
(***************************************************************************)
(* The microphone of the device and the recording it keeps                 *)
(* (firmware/src/mic_service.cpp, recording_store.cpp).  A loud sound      *)
(* triggers a recording, silence or a full buffer ends it; it starts with  *)
(* the frames heard just before the trigger.  Playback and streaming       *)
(* sessions stop the microphone at any time (SpeakerUse); it is started    *)
(* again when they are over.  A frame is represented by the capture it     *)
(* belongs to: the microphone begins a new capture whenever it is started, *)
(* by initMicrophone or by M5.Mic.record.                                  *)
(***************************************************************************)
EXTENDS SpeakerUse, Naturals, Sequences, Functions

CONSTANTS
    PreFrames,     \* frames of the pre-trigger buffer
    MinFrames,     \* the shortest recording that is kept
    MaxFrames,     \* the longest recording
    MaxCaptures,   \* bound on how often the microphone starts
    MaxRecordings  \* bound on the recordings that are begun

ASSUME RecorderAssumption ==
    /\ {PreFrames, MinFrames, MaxFrames, MaxCaptures, MaxRecordings} \subseteq Nat \ {0}
    /\ PreFrames < MaxFrames

Captures == 1 .. MaxCaptures

VARIABLES
    capture,   \* the capture that runs, or was the last to run
    inits,     \* the captures that initMicrophone began (history)
    micState,  \* mic_state
    pre,       \* pre_trigger_buf: the captures of its frames, oldest first
    record,    \* record_buffer up to recorded_samples, until it is stored
    silence,   \* silence_start_ms is set
    begun,     \* how many recordings were begun
    store,     \* the recording in s_wavBuf
    ready      \* s_wavReady

frameVars == <<capture, inits, micState, pre, record, silence, begun>>
storeVars == <<store, ready>>

recorderVars == <<useVars, frameVars, storeVars>>

NoRecording == [id |-> 0, from |-> {}]

Recordings == [id : 1 .. MaxRecordings, from : SUBSET Captures] \cup {NoRecording}

RecorderInit ==
    /\ UseInit
    /\ capture = 1 /\ inits = {1} /\ micState = "idle"
    /\ pre = <<>> /\ record = <<>> /\ silence = FALSE /\ begun = 0
    /\ store = NoRecording /\ ready = FALSE

-----------------------------------------------------------------------------
(* updateMicrophone *)

\* It gets a frame: nothing is played, and the gate is free.  M5.Mic.record starts
\* the microphone first if it does not run, and that is a new capture.
Hears ==
    /\ ~playing /\ ~streaming
    /\ \/ micOn /\ UNCHANGED <<useVars, capture>>
       \/ ~micOn /\ MicStarts /\ capture < MaxCaptures /\ capture' = capture + 1
    /\ UNCHANGED inits

\* The ring keeps the newest frames.
Kept == LET all == Append(pre, capture')
        IN  SubSeq(all, IF Len(all) > PreFrames THEN 2 ELSE 1, Len(all))

IdleFrame ==
    /\ Hears /\ micState = "idle"
    /\ pre' = Kept
    /\ micState' \in {"idle", "triggering"}
    /\ UNCHANGED <<record, silence, begun, storeVars>>

\* The sound is still loud, but not yet for long enough; or it is over.
TriggeringFrame ==
    /\ Hears /\ micState = "triggering"
    /\ pre' = Kept
    /\ micState' \in {"idle", "triggering"}
    /\ UNCHANGED <<record, silence, begun, storeVars>>

\* It has been loud for long enough.
Trigger ==
    /\ Hears /\ micState = "triggering" /\ begun < MaxRecordings
    /\ record' = Kept /\ pre' = <<>>
    /\ silence' = FALSE
    /\ micState' = "recording"
    /\ begun' = begun + 1
    /\ UNCHANGED storeVars

\* What is in the buffer after one more frame.
Recorded == IF Len(record) < MaxFrames THEN Append(record, capture') ELSE record

Full(frames) == Len(frames) >= MaxFrames

RecordingFrame(silent) ==
    /\ Hears /\ micState = "recording"
    /\ ~Full(Recorded)
    /\ record' = Recorded /\ silence' = silent
    /\ UNCHANGED <<micState, pre, begun, storeVars>>

\* storeRecordingForMcp: too short, without a voice, or without the memory for
\* a WAV, it is discarded; the old recording is freed before the memory for the
\* new one is asked for.
StoreRecording(frames) ==
    \/ UNCHANGED storeVars
    \/ /\ Len(frames) >= MinFrames
       /\ \/ /\ store' = [id |-> begun, from |-> Range(frames)]
             /\ ready' = TRUE
          \/ store' = NoRecording /\ ready' = FALSE

\* A full buffer ends a recording, and so may silence that began before.
EndRecording(silent) ==
    /\ Hears /\ micState = "recording"
    /\ Full(Recorded) \/ (silent /\ silence)
    /\ StoreRecording(Recorded)
    /\ record' = <<>> /\ silence' = FALSE
    /\ micState' = "idle"
    /\ UNCHANGED <<pre, begun>>

-----------------------------------------------------------------------------
(* Who stops the microphone, and loop(), which starts it when asked to *)

\* What is played, the recorder does not see.
Sound ==
    /\ PlaybackStarts \/ PlaybackEnds \/ StreamStarts \/ StreamEnds
    /\ UNCHANGED <<frameVars, storeVars>>

\* Mutant: a recording that was interrupted goes on.
GoOn == micState

FreshState == "idle"

\* loop() finds that the microphone was asked for, which every end of a playback or
\* of a stream may have done.  initMicrophone empties the ring before it is known
\* whether the gate is free and the microphone starts.
ResumeMic ==
    /\ ~playing /\ ~micOn
    /\ pre' = <<>>
    /\ \/ UNCHANGED <<useVars, capture, inits, micState>>
       \/ /\ MicStarts /\ capture < MaxCaptures
          /\ capture' = capture + 1 /\ inits' = inits \cup {capture + 1}
          /\ micState' = FreshState
    /\ UNCHANGED <<record, silence, begun, storeVars>>

-----------------------------------------------------------------------------
(* What the routes of the HTTP server do with the recording *)

hasLastRecording == ready /\ store # NoRecording

\* POST /mode
clearLastRecording ==
    /\ store' = NoRecording /\ ready' = FALSE
    /\ UNCHANGED <<useVars, frameVars>>

\* Mutant: the recording stays ready.
KeepRecording == UNCHANGED storeVars

markLastRecordingConsumed == ready' = FALSE /\ UNCHANGED store

-----------------------------------------------------------------------------

Microphone ==
    \/ IdleFrame \/ TriggeringFrame \/ Trigger
    \/ \E silent \in BOOLEAN : RecordingFrame(silent) \/ EndRecording(silent)

Recorder == Microphone \/ Sound \/ ResumeMic

-----------------------------------------------------------------------------

RecorderTypeOK ==
    /\ micOn \in BOOLEAN /\ capture \in Captures /\ inits \subseteq Captures
    /\ micState \in {"idle", "triggering", "recording"}
    /\ pre \in Seq(Captures) /\ Len(pre) <= PreFrames
    /\ record \in Seq(Captures) /\ Len(record) <= MaxFrames
    /\ silence \in BOOLEAN /\ begun \in 0 .. MaxRecordings
    /\ store \in Recordings /\ ready \in BOOLEAN
    /\ playing \in BOOLEAN /\ streaming \in BOOLEAN

=============================================================================
