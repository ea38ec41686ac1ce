---------------------------- MODULE VoiceBridge ----------------------------
(***************************************************************************)
(* The clients that take recordings from the device: the background script *)
(* scripts/stackchan_voice_bridge.py, which writes what it heard to the    *)
(* inbox and wakes a frontend with it, and the tool stackchan_listen.      *)
(* Both poll /audio/status and then fetch /audio (listening.py), so either *)
(* may take what the other was told of.  Requests are served one at a time *)
(* by the loop of the device.                                              *)
(***************************************************************************)
EXTENDS MicRecorder

CONSTANTS
    Attempts,   \* STACKCHAN_FRONTEND_RETRIES + 1
    MaxStops,   \* bound on how often the script stops
    MaxClears   \* bound on POST /mode

ASSUME BridgeAssumption ==
    Attempts \in Nat \ {0} /\ MaxStops \in Nat /\ MaxClears \in Nat

Clients == {"bridge", "tool"}

Ids == 1 .. MaxRecordings

VARIABLES
    at,       \* how far a client has got
    holds,    \* the recording it has fetched
    attempt,  \* how many requests to /wake it has begun
    stops, clears,
    fetched,  \* every recording that /audio gave out, in order (history)
    logged,   \* every recording that was ever in the inbox (history)
    woken     \* how often the frontend was woken with a recording (history)

boundVars == <<stops, clears>>
historyVars == <<fetched, logged, woken>>

vars == <<recorderVars, at, holds, attempt, boundVars, historyVars>>

Init ==
    /\ RecorderInit
    /\ at = [c \in Clients |-> "idle"]
    /\ holds = [c \in Clients |-> NoRecording]
    /\ attempt = 0 /\ stops = 0 /\ clears = 0
    /\ fetched = <<>> /\ logged = {} /\ woken = [r \in Ids |-> 0]

Goes(c, there) == at' = [at EXCEPT ![c] = there] /\ UNCHANGED holds

Ends(c, there) == at' = [at EXCEPT ![c] = there] /\ holds' = [holds EXCEPT ![c] = NoRecording]

-----------------------------------------------------------------------------
(* capture_ready_recording *)

\* GET /audio/status says that a recording is ready.
AskStatus(c) ==
    /\ at[c] = "idle" /\ hasLastRecording
    /\ Goes(c, "asked")
    /\ UNCHANGED <<recorderVars, attempt, boundVars, historyVars>>

\* GET /audio gives it out, once; the response may be lost.
FetchAudio(c) ==
    /\ at[c] = "asked" /\ hasLastRecording
    /\ markLastRecordingConsumed
    /\ fetched' = Append(fetched, store.id)
    /\ \/ /\ at' = [at EXCEPT ![c] = "transcribing"]
          /\ holds' = [holds EXCEPT ![c] = store]
       \/ Ends(c, "idle")
    /\ UNCHANGED <<useVars, frameVars, attempt, boundVars, logged, woken>>

\* Somebody else was faster, or it was cleared, or the device does not answer.
FetchNothing(c) ==
    /\ at[c] = "asked"
    /\ Ends(c, "idle")
    /\ UNCHANGED <<recorderVars, attempt, boundVars, historyVars>>

\* The speech service fails, finds no text, or the inbox cannot be written.
HearsNothing(c) ==
    /\ at[c] = "transcribing"
    /\ Ends(c, "idle")
    /\ UNCHANGED <<recorderVars, attempt, boundVars, historyVars>>

\* The tool returns the transcript.
ToolAnswers ==
    /\ at["tool"] = "transcribing"
    /\ Ends("tool", "idle")
    /\ UNCHANGED <<recorderVars, attempt, boundVars, historyVars>>

-----------------------------------------------------------------------------
(* main of the voice bridge *)

\* append_event
AppendEvent ==
    /\ at["bridge"] = "transcribing"
    /\ logged' = logged \cup {holds["bridge"].id}
    /\ Goes("bridge", "heard")
    /\ UNCHANGED <<recorderVars, attempt, boundVars, fetched, woken>>

\* No frontend is configured, or the wake word was not said.
NotForwarded ==
    /\ at["bridge"] = "heard"
    /\ Ends("bridge", "idle")
    /\ UNCHANGED <<recorderVars, attempt, boundVars, historyVars>>

\* The session that is configured is not found, which ends the script; or
\* somebody stops it, wherever it is.
BridgeStops ==
    /\ at["bridge"] # "stopped" /\ stops < MaxStops
    /\ stops' = stops + 1
    /\ Ends("bridge", "stopped")
    /\ UNCHANGED <<recorderVars, attempt, clears, historyVars>>

BridgeStarts ==
    /\ at["bridge"] = "stopped"
    /\ Ends("bridge", "idle")
    /\ UNCHANGED <<recorderVars, attempt, boundVars, historyVars>>

ForwardToFrontend ==
    /\ at["bridge"] = "heard"
    /\ Goes("bridge", "posting") /\ attempt' = 1
    /\ UNCHANGED <<recorderVars, boundVars, historyVars>>

WakeUp == woken' = [woken EXCEPT ![holds["bridge"].id] = @ + 1]

WakeAccepted ==
    /\ at["bridge"] = "posting"
    /\ WakeUp
    /\ Ends("bridge", "idle")
    /\ UNCHANGED <<recorderVars, attempt, boundVars, fetched, logged>>

\* Mutant: the attempts are counted from the start again.
BusyForever ==
    /\ at["bridge"] = "posting"
    /\ attempt' = (attempt % Attempts) + 1
    /\ UNCHANGED <<at, holds, recorderVars, boundVars, historyVars>>

\* 409: the session is busy.
WakeBusy ==
    /\ at["bridge"] = "posting"
    /\ IF attempt < Attempts
       THEN attempt' = attempt + 1 /\ UNCHANGED <<at, holds>>
       ELSE Ends("bridge", "idle") /\ UNCHANGED attempt
    /\ UNCHANGED <<recorderVars, boundVars, historyVars>>

\* Mutant: a request that failed is repeated.
RepeatFailed ==
    /\ at["bridge"] = "posting"
    /\ WakeUp \/ UNCHANGED woken
    /\ IF attempt < Attempts
       THEN attempt' = attempt + 1 /\ UNCHANGED <<at, holds>>
       ELSE Ends("bridge", "idle") /\ UNCHANGED attempt
    /\ UNCHANGED <<recorderVars, boundVars, fetched, logged>>

\* Another status, or no answer: then nobody knows whether the frontend was woken.
WakeFails ==
    /\ at["bridge"] = "posting"
    /\ WakeUp \/ UNCHANGED woken
    /\ Ends("bridge", "idle")
    /\ UNCHANGED <<recorderVars, attempt, boundVars, fetched, logged>>

-----------------------------------------------------------------------------
(* Other requests *)

\* POST /mode
ClearRecording ==
    /\ clears < MaxClears /\ clears' = clears + 1
    /\ clearLastRecording
    /\ UNCHANGED <<at, holds, attempt, stops, historyVars>>

-----------------------------------------------------------------------------

Capture(c) == AskStatus(c) \/ FetchAudio(c) \/ FetchNothing(c) \/ HearsNothing(c)

Forward ==
    \/ AppendEvent \/ NotForwarded \/ ForwardToFrontend
    \/ WakeAccepted \/ WakeBusy \/ WakeFails

Bridge == Capture("bridge") \/ Forward

Tool == Capture("tool") \/ ToolAnswers

Device == Recorder /\ UNCHANGED <<at, holds, attempt, boundVars, historyVars>>

Next ==
    \/ Bridge \/ Tool \/ Device
    \/ BridgeStops \/ BridgeStarts \/ ClearRecording

Spec == Init /\ [][Next]_vars

\* The loop of the device hears frames while the microphone runs, and the script
\* polls and gets on as long as it runs.  Nobody need start it, call the tool,
\* stop playing, or start the microphone.
Fairness ==
    /\ WF_vars(micOn /\ Microphone /\ UNCHANGED <<at, holds, attempt, boundVars, historyVars>>)
    /\ WF_vars(Bridge)
    /\ SF_vars(FetchAudio("bridge"))

FairSpec == Spec /\ Fairness

-----------------------------------------------------------------------------
(* Properties *)

TypeOK ==
    /\ RecorderTypeOK
    /\ at \in [Clients -> {"idle", "asked", "transcribing", "heard", "posting", "stopped"}]
    /\ holds \in [Clients -> Recordings]
    /\ attempt \in 0 .. Attempts
    /\ fetched \in Seq(Ids) /\ logged \subseteq Ids
    /\ woken \in [Ids -> Nat]
    /\ stops \in 0 .. MaxStops /\ clears \in 0 .. MaxClears

Increasing(s) == \A i, j \in DOMAIN s : i < j => s[i] < s[j]

Across(frames) == \E c, d \in frames : \E i \in inits : c < i /\ i <= d

\* initMicrophone, called after a playback, gives up the recording that the playback
\* interrupted: none holds frames from before and from after it, whichever of
\* them waited in the ring or in the buffer, on the device or in a client.  (Frames of
\* several captures it may hold: M5.Mic.record starts the microphone without it.)
NoneAcrossInit == \A r \in {store} \cup Range(holds) : ~Across(r.from)

\* Every recording is given out once, and after it only newer ones.
GivenOutOnce == Increasing(fetched)

\* The frontend is woken at most once with a recording, however often it is busy
\* or does not answer, and whenever the script stops and starts; and what it is
\* woken with "is still appended to the inbox first" (docs/development-guide.md:360).
WokenOnce == \A r \in Ids : woken[r] <= 1 /\ (woken[r] > 0 => r \in logged)

\* Speech, however long, ends in a recording while the microphone stays on, and
\* while the script runs a recording does not stay on the device.
RecordingIsTaken ==
    /\ <>[]micOn => (micState = "recording" ~> micState # "recording")
    /\ <>[](at["bridge"] # "stopped") => (hasLastRecording ~> ~hasLastRecording)

=============================================================================
