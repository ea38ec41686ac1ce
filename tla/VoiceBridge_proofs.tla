------------------------- MODULE VoiceBridge_proofs -------------------------
(***************************************************************************)
(* Proofs about VoiceBridge: no recording spans an initMicrophone that     *)
(* started the microphone, it is given out once, and the frontend is woken *)
(* with it at most once and only after it was written to the inbox.        *)
(***************************************************************************)
EXTENDS VoiceBridge, TLAPS

LEMMA Sizes ==
    /\ PreFrames \in Nat /\ MinFrames \in Nat /\ MaxFrames \in Nat
    /\ MaxCaptures \in Nat /\ MaxRecordings \in Nat
    /\ PreFrames > 0 /\ MaxFrames > 0 /\ MaxCaptures > 0 /\ MaxRecordings > 0
    /\ PreFrames < MaxFrames /\ 1 \in Captures
  BY RecorderAssumption DEF RecorderAssumption, Captures

LEMMA NoFrames ==
    ASSUME NEW s, s = <<>>
    PROVE  s \in Seq(Captures) /\ Len(s) = 0 /\ DOMAIN s = {}
  OBVIOUS

LEMMA FramesOf ==
    ASSUME NEW S, NEW T, S \subseteq T, NEW s \in Seq(S)
    PROVE  s \in Seq(T) /\ Range(s) \subseteq T
  BY DEF Range

\* The frames of the ring after one more.
LEMMA KeptType ==
    ASSUME NEW S, pre \in Seq(S), Len(pre) <= PreFrames, capture' \in S
    PROVE  Kept \in Seq(S) /\ Len(Kept) <= PreFrames
<1> DEFINE all == Append(pre, capture')
<1>1. all \in Seq(S) /\ Len(all) \in Nat /\ Len(all) = Len(pre) + 1
  OBVIOUS
<1> HIDE DEF all
<1>2. CASE Len(all) > PreFrames
  <2>1. Kept = SubSeq(all, 2, Len(all))
    BY <1>2 DEF Kept, all
  <2> QED
    BY <1>1, <2>1, Sizes
<1>3. CASE ~(Len(all) > PreFrames)
  <2>1. Kept = SubSeq(all, 1, Len(all))
    BY <1>3 DEF Kept, all
  <2> QED
    BY <1>1, <1>3, <2>1, Sizes
<1> QED
  BY <1>2, <1>3

LEMMA RecordedType ==
    ASSUME NEW S, record \in Seq(S), Len(record) <= MaxFrames, capture' \in S
    PROVE  Recorded \in Seq(S) /\ Len(Recorded) <= MaxFrames
  BY Sizes DEF Recorded

LEMMA CountedOnce ==
    ASSUME NEW S, NEW count \in [S -> Nat], NEW r \in S
    PROVE  [count EXCEPT ![r] = count[r] + 1] \in [S -> Nat]
  OBVIOUS

LEMMA RecordingTypes ==
    /\ NoRecording \in Recordings
    /\ \A r \in Recordings : r.from \subseteq Captures /\ r.id \in 0 .. MaxRecordings
    /\ \A r \in Recordings : r # NoRecording => r.id \in Ids
    /\ \A i \in Ids, f \in SUBSET Captures :
          [id |-> i, from |-> f] \in Recordings /\ [id |-> i, from |-> f] # NoRecording
  BY RecorderAssumption DEF NoRecording, Recordings, Ids

-----------------------------------------------------------------------------
(* Types *)

ClientTypeOK ==
    /\ at \in [Clients -> {"idle", "asked", "transcribing", "heard", "posting", "stopped"}]
    /\ holds \in [Clients -> Recordings]
    /\ attempt \in 0 .. Attempts
    /\ fetched \in Seq(Ids) /\ logged \subseteq Ids
    /\ woken \in [Ids -> Nat]
    /\ stops \in 0 .. MaxStops /\ clears \in 0 .. MaxClears

\* A client that works on a recording has one, and the tool forwards none.
Holding ==
    /\ \A c \in Clients : at[c] \in {"transcribing", "heard", "posting"}
                              => holds[c] # NoRecording
    /\ at["tool"] \in {"idle", "asked", "transcribing"}

\* A recording that is being made has a number.
Begun == micState = "recording" => begun \in Ids

TypeInv == RecorderTypeOK /\ ClientTypeOK /\ Holding /\ Begun

clientVars == <<at, holds, attempt, boundVars, historyVars>>

\* A frame may begin a capture, but not one that initMicrophone began.
LEMMA HearsTypes ==
    ASSUME RecorderTypeOK, Hears
    PROVE  /\ capture' \in Captures /\ capture' \in {capture, capture + 1}
           /\ micOn' \in BOOLEAN /\ UNCHANGED <<inits, playing, streaming>>
<1>t. /\ capture \in Captures /\ capture \in Nat /\ MaxCaptures \in Nat
      /\ micOn \in BOOLEAN
  BY Sizes DEF RecorderTypeOK, Captures
<1>1. UNCHANGED <<inits, playing, streaming>>
  BY DEF Hears, MicStarts, useVars
<1>2. micOn' \in {micOn, TRUE}
  BY DEF Hears, MicStarts, useVars
<1>3. \/ UNCHANGED capture
      \/ capture < MaxCaptures /\ capture' = capture + 1
  BY DEF Hears
<1>4. capture' \in Captures
  BY <1>t, <1>3 DEF Captures
<1> QED
  BY <1>t, <1>1, <1>2, <1>3, <1>4

LEMMA RecorderTypes == RecorderTypeOK /\ Begun /\ Recorder => RecorderTypeOK' /\ Begun'
<1> SUFFICES ASSUME RecorderTypeOK, Begun, Recorder PROVE RecorderTypeOK' /\ Begun'
  OBVIOUS
<1> USE Sizes DEF RecorderTypeOK, Begun, Ids
<1>h. ASSUME Hears
      PROVE  /\ capture' \in Captures /\ inits' \subseteq Captures
             /\ micOn' \in BOOLEAN /\ playing' \in BOOLEAN /\ streaming' \in BOOLEAN
  BY <1>h, HearsTypes
<1>1. ASSUME Hears PROVE Kept \in Seq(Captures) /\ Len(Kept) <= PreFrames
  BY <1>1, <1>h, KeptType
<1>2. ASSUME Hears PROVE Recorded \in Seq(Captures) /\ Len(Recorded) <= MaxFrames
  BY <1>2, <1>h, RecordedType
<1>3. CASE IdleFrame \/ TriggeringFrame
  <2>1. /\ Hears /\ pre' = Kept /\ micState' \in {"idle", "triggering"}
        /\ UNCHANGED <<record, silence, begun, store, ready>>
    BY <1>3 DEF IdleFrame, TriggeringFrame, storeVars
  <2> QED
    BY <1>h, <1>1, <2>1
<1>5. CASE Trigger
  <2>1. record' \in Seq(Captures) /\ Len(record') <= MaxFrames
    BY <1>1, <1>5 DEF Trigger
  <2>2. pre' \in Seq(Captures) /\ Len(pre') <= PreFrames
    BY <1>5, NoFrames DEF Trigger
  <2>3. begun' \in Ids
    BY <1>5 DEF Trigger
  <2>4. /\ Hears /\ micState' = "recording" /\ silence' \in BOOLEAN
        /\ UNCHANGED <<store, ready>>
    BY <1>5 DEF Trigger, storeVars
  <2> QED
    BY <1>h, <2>1, <2>2, <2>3, <2>4
<1>6. ASSUME NEW silent \in BOOLEAN, RecordingFrame(silent)
      PROVE  RecorderTypeOK' /\ Begun'
  <2>1. /\ Hears /\ record' = Recorded /\ silence' = silent
        /\ UNCHANGED <<micState, pre, begun, store, ready>>
    BY <1>6 DEF RecordingFrame, storeVars
  <2> QED
    BY <1>h, <1>2, <2>1
<1>7. ASSUME NEW silent \in BOOLEAN, EndRecording(silent)
      PROVE  RecorderTypeOK' /\ Begun'
  <2>1. Range(Recorded) \subseteq Captures
    BY <1>2, <1>7, FramesOf DEF EndRecording
  <2>2. store' \in Recordings /\ ready' \in BOOLEAN
    BY <1>7, <2>1, RecordingTypes DEF EndRecording, StoreRecording, storeVars
  <2>3. record' \in Seq(Captures) /\ Len(record') <= MaxFrames
    BY <1>7, NoFrames DEF EndRecording
  <2>4. /\ Hears /\ silence' = FALSE /\ micState' = "idle"
        /\ UNCHANGED <<pre, begun>>
    BY <1>7 DEF EndRecording
  <2> QED
    BY <1>h, <2>2, <2>3, <2>4
<1>8. CASE Sound
  BY <1>8 DEF Sound, PlaybackStarts, PlaybackEnds, StreamStarts, StreamEnds, useVars, frameVars, storeVars
<1>9. CASE ResumeMic
  <2>1. capture' \in Captures /\ inits' \subseteq Captures
    <3>1. \/ UNCHANGED <<capture, inits>>
          \/ /\ capture < MaxCaptures /\ capture' = capture + 1
             /\ inits' = inits \cup {capture + 1}
      BY <1>9 DEF ResumeMic
    <3>2. capture < MaxCaptures => capture + 1 \in Captures
      BY DEF Captures
    <3> QED
      BY <3>1, <3>2
  <2>2. pre' \in Seq(Captures) /\ Len(pre') <= PreFrames
    <3>1. pre' = <<>>
      BY <1>9 DEF ResumeMic
    <3> QED
      BY <3>1, NoFrames
  <2>3. micOn' \in BOOLEAN /\ micState' \in {micState, "idle"}
    BY <1>9 DEF ResumeMic, MicStarts, useVars, FreshState
  <2>4. UNCHANGED <<record, silence, begun, store, ready, playing, streaming>>
    BY <1>9 DEF ResumeMic, MicStarts, useVars, storeVars
  <2> QED
    BY <2>1, <2>2, <2>3, <2>4
<1> QED
  BY <1>3, <1>5, <1>6, <1>7, <1>8, <1>9 DEF Recorder, Microphone

LEMMA ClientTypes ==
    ASSUME TypeInv, Bridge \/ Tool \/ BridgeStops \/ BridgeStarts \/ ClearRecording
    PROVE  TypeInv'
<1> USE BridgeAssumption, RecordingTypes
        DEF TypeInv, RecorderTypeOK, ClientTypeOK, Holding, Begun, recorderVars,
            frameVars, storeVars, useVars, boundVars, historyVars, Clients, Goes, Ends
<1>1. ASSUME NEW c \in Clients, Capture(c) PROVE TypeInv'
  <2>1. CASE AskStatus(c)
    BY <1>1, <2>1 DEF AskStatus
  <2>2. CASE FetchAudio(c)
    <3>1. store \in Recordings /\ store # NoRecording /\ store.id \in Ids
      BY <2>2 DEF FetchAudio, hasLastRecording
    <3>2. fetched' \in Seq(Ids)
      BY <2>2, <3>1 DEF FetchAudio
    <3>3. /\ at' \in [Clients -> {"idle", "asked", "transcribing", "heard", "posting", "stopped"}]
          /\ holds' \in [Clients -> Recordings]
      BY <1>1, <2>2, <3>1 DEF FetchAudio
    <3>4. Holding'
      BY <1>1, <2>2, <3>1 DEF FetchAudio
    <3> QED
      BY <2>2, <3>1, <3>2, <3>3, <3>4 DEF FetchAudio, markLastRecordingConsumed
  <2>3. CASE FetchNothing(c)
    BY <1>1, <2>3 DEF FetchNothing
  <2>4. CASE HearsNothing(c)
    BY <1>1, <2>4 DEF HearsNothing
  <2> QED
    BY <1>1, <2>1, <2>2, <2>3, <2>4 DEF Capture
<1>2. CASE ToolAnswers
  BY <1>2 DEF ToolAnswers
<1>3. CASE Forward
  <2>1. at["bridge"] \in {"transcribing", "heard", "posting"} /\ holds["bridge"].id \in Ids
    BY <1>3 DEF Forward, AppendEvent, NotForwarded, ForwardToFrontend, WakeAccepted, WakeBusy, WakeFails
  <2>2. CASE AppendEvent
    BY <2>1, <2>2 DEF AppendEvent
  <2>3. CASE NotForwarded \/ ForwardToFrontend
    BY <2>3 DEF NotForwarded, ForwardToFrontend
  <2>4. CASE WakeBusy
    BY <2>4 DEF WakeBusy
  <2>5. CASE WakeAccepted \/ WakeFails
    <3>1. woken' \in [Ids -> Nat]
      <4>1. woken' = woken \/ woken' = [woken EXCEPT ![holds["bridge"].id] = woken[holds["bridge"].id] + 1]
        BY <2>5 DEF WakeAccepted, WakeFails, WakeUp
      <4>2. woken \in [Ids -> Nat]
        OBVIOUS
      <4>3. [woken EXCEPT ![holds["bridge"].id] = woken[holds["bridge"].id] + 1] \in [Ids -> Nat]
        BY <2>1, <4>2, CountedOnce
      <4> QED
        BY <4>1, <4>2, <4>3
    <3>2. /\ UNCHANGED <<micOn, capture, inits, micState, pre, record, silence, begun>>
          /\ UNCHANGED <<store, ready, playing, streaming>>
          /\ UNCHANGED <<attempt, stops, clears, fetched, logged>>
      BY <2>5 DEF WakeAccepted, WakeFails
    <3>3. /\ at' = [at EXCEPT !["bridge"] = "idle"]
          /\ holds' = [holds EXCEPT !["bridge"] = NoRecording]
      BY <2>5 DEF WakeAccepted, WakeFails
    <3>4. /\ at' \in [Clients -> {"idle", "asked", "transcribing", "heard", "posting", "stopped"}]
          /\ holds' \in [Clients -> Recordings]
      BY <3>3
    <3>5. Holding'
      BY <3>3
    <3> QED
      BY <3>1, <3>2, <3>4, <3>5
  <2> QED
    BY <1>3, <2>2, <2>3, <2>4, <2>5 DEF Forward
<1>4. CASE BridgeStops
  BY <1>4 DEF BridgeStops
<1>5. CASE BridgeStarts
  BY <1>5 DEF BridgeStarts
<1>6. CASE ClearRecording
  <2>1. clears' \in 0 .. MaxClears
    BY <1>6 DEF ClearRecording
  <2>2. store' \in Recordings
    BY <1>6 DEF ClearRecording, clearLastRecording
  <2>3. ready' \in BOOLEAN
    BY <1>6 DEF ClearRecording, clearLastRecording
  <2> QED
    BY <1>6, <2>1, <2>2, <2>3 DEF ClearRecording, clearLastRecording
<1> QED
  BY <1>1, <1>2, <1>3, <1>4, <1>5, <1>6 DEF Bridge, Tool

LEMMA TypeStep == TypeInv /\ [Next]_vars => TypeInv'
<1>1. ASSUME TypeInv, Device PROVE TypeInv'
  BY <1>1, RecorderTypes
  DEF TypeInv, Device, ClientTypeOK, Holding, boundVars, historyVars
<1>2. ASSUME TypeInv, UNCHANGED vars PROVE TypeInv'
  BY <1>2
  DEF TypeInv, vars, recorderVars, frameVars, storeVars, useVars, boundVars, historyVars,
      RecorderTypeOK, ClientTypeOK, Holding, Begun
<1> QED
  BY <1>1, <1>2, ClientTypes DEF Next

LEMMA TypeHolds == Spec => []TypeInv
<1>1. Init => TypeInv
  <2> SUFFICES ASSUME Init PROVE TypeInv
    OBVIOUS
  <2>1. RecorderTypeOK /\ Begun
    <3>1. /\ pre \in Seq(Captures) /\ Len(pre) <= PreFrames
          /\ record \in Seq(Captures) /\ Len(record) <= MaxFrames
      BY Sizes, NoFrames DEF Init, RecorderInit
    <3>2. /\ begun \in 0 .. MaxRecordings /\ store \in Recordings /\ capture \in Captures
          /\ inits \subseteq Captures
      BY Sizes, RecordingTypes DEF Init, RecorderInit
    <3> QED
      BY <3>1, <3>2 DEF Init, RecorderInit, UseInit, RecorderTypeOK, Begun
  <2>2. ClientTypeOK
    <3>1. <<>> \in Seq(Ids)
      OBVIOUS
    <3> QED
      BY <3>1, Sizes, BridgeAssumption, RecordingTypes DEF Init, ClientTypeOK
  <2>3. Holding
    BY DEF Init, Holding, Clients
  <2> QED
    BY <2>1, <2>2, <2>3 DEF TypeInv
<1> QED
  BY <1>1, TypeStep, PTL DEF Spec

\* The recorder and its clients are type-correct (VoiceBridge!TypeOK).
THEOREM TypeCorrect == Spec => []TypeOK
<1>1. TypeInv => TypeOK
  BY DEF TypeInv, RecorderTypeOK, ClientTypeOK, TypeOK
<1> QED
  BY <1>1, TypeHolds, PTL

-----------------------------------------------------------------------------
(* Recordings *)

\* The captures since initMicrophone last began one.
Since == {c \in 1 .. capture : \A i \in inits : i <= c}

Whole(frames) == frames \subseteq 1 .. capture /\ ~Across(frames)

\* What is in the buffers was heard since initMicrophone began a capture; what was
\* stored is older than the next capture.
Wholly ==
    /\ inits \subseteq 1 .. capture
    /\ pre \in Seq(Since)
    /\ micState = "recording" => record \in Seq(Since)
    /\ Whole(store.from) /\ \A c \in Clients : Whole(holds[c].from)

\* The next capture does not make a recording one that holds frames of two.
LEMMA StaysWhole ==
    ASSUME capture \in Nat, capture' \in {capture, capture + 1}, inits \subseteq 1 .. capture,
           inits' \in {inits, inits \cup {capture + 1}},
           NEW frames, Whole(frames)
    PROVE  /\ frames \subseteq 1 .. capture'
           /\ ~\E c, d \in frames : \E i \in inits' : c < i /\ i <= d
  BY DEF Whole, Across

\* Nor does a frame, heard in the same capture or in one that it begins.
LEMMA SinceHears ==
    ASSUME capture \in Nat \ {0}, capture' \in {capture, capture + 1}, UNCHANGED inits,
           inits \subseteq 1 .. capture
    PROVE  Since \subseteq Since' /\ capture' \in Since'
  BY DEF Since

LEMMA WhollyStep == TypeInv /\ Wholly /\ [Next]_vars => Wholly'
<1> SUFFICES ASSUME TypeInv, Wholly, [Next]_vars PROVE Wholly'
  OBVIOUS
<1>t. /\ Len(pre) <= PreFrames /\ capture \in Nat \ {0}
      /\ Len(record) <= MaxFrames /\ RecorderTypeOK
      /\ at \in [Clients -> {"idle", "asked", "transcribing", "heard", "posting", "stopped"}]
      /\ holds \in [Clients -> Recordings]
  BY Sizes DEF TypeInv, RecorderTypeOK, ClientTypeOK, Captures
<1>n. Whole(NoRecording.from)
  BY DEF Whole, Across, NoRecording
<1>e. <<>> \in Seq(Since) /\ <<>> \in Seq(Since')
  OBVIOUS
<1>h. ASSUME Hears
      PROVE  /\ capture' \in {capture, capture + 1} /\ UNCHANGED inits
             /\ Since \subseteq Since' /\ capture' \in Since' /\ inits' \subseteq 1 .. capture'
             /\ pre \in Seq(Since')
             /\ micState = "recording" => record \in Seq(Since')
  <2>1. capture' \in {capture, capture + 1} /\ UNCHANGED inits
    BY <1>h, <1>t, HearsTypes
  <2>2. Since \subseteq Since' /\ capture' \in Since'
    BY <1>t, <2>1, SinceHears DEF Wholly
  <2>3. inits' \subseteq 1 .. capture'
    BY <1>t, <2>1 DEF Wholly
  <2> QED
    BY <2>1, <2>2, <2>3, FramesOf DEF Wholly
<1>k. ASSUME Hears PROVE Kept \in Seq(Since')
  BY <1>k, <1>h, <1>t, KeptType
<1>w. ASSUME capture' \in {capture, capture + 1}, inits' \in {inits, inits \cup {capture + 1}},
             UNCHANGED store, UNCHANGED holds
      PROVE  Whole(store.from)' /\ \A c \in Clients : Whole(holds[c].from)'
  <2>1. Whole(store.from)'
    BY <1>t, <1>w, StaysWhole DEF Wholly, Whole, Across
  <2>2. ASSUME NEW c \in Clients PROVE Whole(holds[c].from)'
    BY <1>t, <1>w, StaysWhole DEF Wholly, Whole, Across
  <2> QED
    BY <2>1, <2>2
<1>2. ASSUME Device PROVE Wholly'
  <2>0. UNCHANGED holds
    BY <1>2 DEF Device
  <2>1. CASE IdleFrame \/ TriggeringFrame
    <3>1. Hears /\ pre' = Kept /\ micState' # "recording" /\ UNCHANGED store
      BY <2>1 DEF IdleFrame, TriggeringFrame, storeVars
    <3> QED
      BY <1>h, <1>k, <1>w, <2>0, <3>1 DEF Wholly
  <2>2. CASE Trigger
    <3>1. Hears /\ UNCHANGED store /\ record' = Kept /\ pre' = <<>>
      BY <2>2 DEF Trigger, storeVars
    <3> QED
      BY <1>e, <1>h, <1>k, <1>w, <2>0, <3>1 DEF Wholly
  <2>3. ASSUME NEW silent \in BOOLEAN, RecordingFrame(silent) \/ EndRecording(silent)
        PROVE  Wholly'
    <3>1. Hears /\ UNCHANGED pre /\ micState = "recording"
      BY <2>3 DEF RecordingFrame, EndRecording
    <3>2. Recorded \in Seq(Since')
      BY <1>h, <1>t, <3>1, RecordedType
    <3>3. CASE RecordingFrame(silent)
      <4>1. record' = Recorded /\ UNCHANGED store
        BY <3>3 DEF RecordingFrame, storeVars
      <4> QED
        BY <1>h, <1>w, <2>0, <3>1, <3>2, <4>1 DEF Wholly
    <3>4. CASE EndRecording(silent)
      <4>1. Range(Recorded) \subseteq Since'
        BY <3>2, FramesOf
      <4>2. \/ UNCHANGED store
            \/ store'.from \in {Range(Recorded), {}}
        BY <3>4 DEF EndRecording, StoreRecording, storeVars, NoRecording
      <4>3. micState' = "idle"
        BY <3>4 DEF EndRecording
      <4>4. ASSUME NEW frames, frames \subseteq Since'
            PROVE  /\ frames \subseteq 1 .. capture'
                   /\ ~\E c, d \in frames : \E i \in inits' : c < i /\ i <= d
        <5>1. ASSUME NEW c \in frames, NEW i \in inits' PROVE ~(c < i)
          <6>1. c \in Nat /\ i \in Nat /\ i <= c
            BY <1>h, <1>t, <3>1, <4>4, <5>1 DEF Since
          <6> QED
            BY <6>1
        <5> QED
          BY <4>4, <5>1 DEF Since
      <4>5. Whole(store.from)'
        <5>1. CASE UNCHANGED store
          BY <1>h, <1>t, <3>1, <5>1, StaysWhole DEF Wholly, Whole, Across
        <5>2. CASE store'.from \in {Range(Recorded), {}}
          BY <4>1, <4>4, <5>2 DEF Whole, Across
        <5> QED
          BY <4>2, <5>1, <5>2
      <4>6. \A c \in Clients : Whole(holds[c].from)'
        BY <1>h, <1>t, <2>0, <3>1, StaysWhole DEF Wholly, Whole, Across
      <4> QED
        BY <1>h, <3>1, <4>3, <4>5, <4>6 DEF Wholly
    <3> QED
      BY <2>3, <3>3, <3>4
  <2>4. CASE Sound
    BY <2>0, <2>4
    DEF Sound, PlaybackStarts, PlaybackEnds, StreamStarts, StreamEnds, useVars, frameVars,
        storeVars, Wholly, Since, Whole, Across
  <2>5. CASE ResumeMic
    <3>1. UNCHANGED <<record, store>> /\ pre' = <<>>
      BY <2>5 DEF ResumeMic, storeVars
    <3>2. \/ UNCHANGED <<capture, inits, micState>>
          \/ /\ micState' = "idle" /\ capture' = capture + 1
             /\ inits' = inits \cup {capture + 1}
      BY <2>5 DEF ResumeMic, FreshState
    <3>3. inits' \subseteq 1 .. capture'
      <4>1. 1 .. capture \subseteq 1 .. capture + 1 /\ capture + 1 \in 1 .. capture + 1
        BY <1>t
      <4> QED
        BY <3>2, <4>1 DEF Wholly
    <3>4. micState' = "recording" => record' \in Seq(Since')
      BY <3>1, <3>2 DEF Wholly, Since
    <3>5. Whole(store.from)' /\ \A c \in Clients : Whole(holds[c].from)'
      BY <1>w, <2>0, <3>1, <3>2
    <3> QED
      BY <1>e, <3>1, <3>3, <3>4, <3>5 DEF Wholly
  <2> QED
    BY <1>2, <2>1, <2>2, <2>3, <2>4, <2>5 DEF Device, Recorder, Microphone
<1>3. ASSUME Bridge \/ Tool \/ BridgeStops \/ BridgeStarts \/ ClearRecording
      PROVE  Wholly'
  <2>1. UNCHANGED <<pre, capture, inits, micState, record>>
    BY <1>3
    DEF Bridge, Tool, Capture, Forward, AskStatus, FetchAudio, FetchNothing, HearsNothing,
        ToolAnswers, AppendEvent, NotForwarded, ForwardToFrontend, WakeAccepted, WakeBusy,
        WakeFails, BridgeStops, BridgeStarts, ClearRecording, clearLastRecording,
        recorderVars, frameVars
  <2>2. store' \in {store, NoRecording}
    BY <1>3
    DEF Bridge, Tool, Capture, Forward, AskStatus, FetchAudio, FetchNothing, HearsNothing,
        ToolAnswers, AppendEvent, NotForwarded, ForwardToFrontend, WakeAccepted, WakeBusy,
        WakeFails, BridgeStops, BridgeStarts, ClearRecording, clearLastRecording,
        markLastRecordingConsumed, recorderVars, storeVars
  <2>3. \A c \in Clients : holds'[c] \in {holds[c], store, NoRecording}
    BY <1>t, <1>3
    DEF Bridge, Tool, Capture, Forward, AskStatus, FetchAudio, FetchNothing, HearsNothing,
        ToolAnswers, AppendEvent, NotForwarded, ForwardToFrontend, WakeAccepted, WakeBusy,
        WakeFails, BridgeStops, BridgeStarts, ClearRecording, Goes, Ends, Clients
  <2>4. Whole(store.from)' /\ \A c \in Clients : Whole(holds[c].from)'
    BY <1>n, <2>1, <2>2, <2>3 DEF Wholly, Whole, Across
  <2> QED
    BY <2>1, <2>4 DEF Wholly, Since
<1>4. CASE UNCHANGED vars
  BY <1>4 DEF vars, recorderVars, frameVars, storeVars, Wholly, Since, Whole, Across
<1> QED
  BY <1>2, <1>3, <1>4 DEF Next

LEMMA WhollyHolds == Spec => []Wholly
<1>1. Init => Wholly
  <2> SUFFICES ASSUME Init PROVE Wholly
    OBVIOUS
  <2>1. capture = 1 /\ inits = {1} /\ pre = <<>> /\ micState = "idle"
    BY DEF Init, RecorderInit
  <2>2. store = NoRecording /\ \A c \in Clients : holds[c] = NoRecording
    BY DEF Init, RecorderInit
  <2>3. Whole(NoRecording.from)
    BY DEF Whole, Across, NoRecording
  <2>4. pre \in Seq(Since)
    BY <2>1
  <2> QED
    BY <2>1, <2>2, <2>3, <2>4 DEF Wholly
<1> QED
  BY <1>1, WhollyStep, TypeHolds, PTL DEF Spec

\* No recording, on the device or in a client, holds frames from before and from
\* after a call of initMicrophone that started the microphone
\* (VoiceBridge!NoneAcrossInit), although M5.Mic.record may start it as well, and
\* then what was recorded before goes on.
THEOREM RecordingsAreWhole == Spec => []NoneAcrossInit
<1>1. TypeInv /\ Wholly => NoneAcrossInit
  BY DEF TypeInv, ClientTypeOK, Wholly, Whole, NoneAcrossInit, Range
<1> QED
  BY <1>1, TypeHolds, WhollyHolds, PTL

-----------------------------------------------------------------------------
(* Given out once *)

\* What was given out is older than what is ready, and that is older than what
\* is being recorded.
InOrder ==
    /\ Increasing(fetched)
    /\ store.id <= begun /\ \A i \in DOMAIN fetched : fetched[i] <= begun
    /\ hasLastRecording => \A i \in DOMAIN fetched : fetched[i] < store.id
    /\ micState = "recording" =>
          store.id < begun /\ \A i \in DOMAIN fetched : fetched[i] < begun

LEMMA InOrderDevice == TypeInv /\ InOrder /\ Device => InOrder'
<1> SUFFICES ASSUME TypeInv, InOrder, Device PROVE InOrder'
  OBVIOUS
<1>t. /\ begun \in Nat /\ fetched \in Seq(Ids) /\ UNCHANGED fetched
      /\ store \in Recordings /\ store.id \in Nat
      /\ \A i \in DOMAIN fetched : fetched[i] \in Nat
  <2>1. begun \in 0 .. MaxRecordings /\ store \in Recordings /\ fetched \in Seq(Ids)
    BY DEF TypeInv, RecorderTypeOK, ClientTypeOK
  <2>2. begun \in Nat
    BY <2>1, Sizes
  <2>3. store.id \in 0 .. MaxRecordings
    BY <2>1, RecordingTypes
  <2>4. store.id \in Nat
    BY <2>3, Sizes
  <2>5. \A i \in DOMAIN fetched : fetched[i] \in Nat
    <3>1. \A i \in DOMAIN fetched : fetched[i] \in Ids
      BY <2>1
    <3> QED
      BY <3>1 DEF Ids
  <2>6. UNCHANGED fetched
    BY DEF Device, historyVars
  <2> QED
    BY <2>1, <2>2, <2>4, <2>5, <2>6
<1>1. ASSUME UNCHANGED <<begun, store, ready>>, micState' = "recording" => micState = "recording"
      PROVE  InOrder'
  BY <1>t, <1>1 DEF InOrder, hasLastRecording
<1>2. CASE IdleFrame \/ TriggeringFrame
  BY <1>1, <1>2 DEF IdleFrame, TriggeringFrame, storeVars
<1>3. CASE Trigger
  <2>1. begun' = begun + 1 /\ UNCHANGED <<store, ready>>
    BY <1>3 DEF Trigger, storeVars
  <2>2. store.id < begun'
    BY <1>t, <2>1 DEF InOrder
  <2>3. \A i \in DOMAIN fetched : fetched[i] < begun'
    <3> SUFFICES ASSUME NEW i \in DOMAIN fetched PROVE fetched[i] < begun'
      OBVIOUS
    <3>1. fetched[i] <= begun /\ fetched[i] \in Nat
      BY <1>t DEF InOrder
    <3> QED
      BY <1>t, <2>1, <3>1
  <2>4. store.id <= begun' /\ \A i \in DOMAIN fetched : fetched[i] <= begun'
    BY <1>t, <2>1, <2>2, <2>3
  <2> QED
    BY <1>t, <2>1, <2>2, <2>3, <2>4 DEF InOrder, hasLastRecording
<1>4. ASSUME NEW silent \in BOOLEAN, RecordingFrame(silent) PROVE InOrder'
  BY <1>1, <1>4 DEF RecordingFrame, storeVars
<1>5. ASSUME NEW silent \in BOOLEAN, EndRecording(silent) PROVE InOrder'
  <2>1. UNCHANGED begun /\ micState = "recording" /\ micState' = "idle"
    BY <1>5 DEF EndRecording
  <2>2. CASE UNCHANGED <<store, ready>>
    BY <1>1, <2>1, <2>2
  <2>3. CASE store'.id = begun
    BY <1>t, <2>1, <2>3 DEF InOrder
  <2>4. CASE store' = NoRecording
    BY <1>t, <2>1, <2>4 DEF InOrder, NoRecording, hasLastRecording
  <2> QED
    BY <1>5, <2>2, <2>3, <2>4 DEF EndRecording, StoreRecording, storeVars
<1>6. CASE Sound
  BY <1>1, <1>6
  DEF Sound, PlaybackStarts, PlaybackEnds, StreamStarts, StreamEnds, useVars, frameVars, storeVars
<1>7. CASE ResumeMic
  BY <1>1, <1>7 DEF ResumeMic, storeVars, FreshState
<1> QED
  BY <1>2, <1>3, <1>4, <1>5, <1>6, <1>7 DEF Device, Recorder, Microphone

LEMMA InOrderStep == TypeInv /\ InOrder /\ [Next]_vars => InOrder'
<1> SUFFICES ASSUME TypeInv, InOrder, [Next]_vars PROVE InOrder'
  OBVIOUS
<1>t. /\ begun \in Nat /\ fetched \in Seq(Ids)
      /\ store \in Recordings /\ store.id \in Nat
      /\ \A i \in DOMAIN fetched : fetched[i] \in Nat
  <2>1. begun \in 0 .. MaxRecordings /\ fetched \in Seq(Ids) /\ store \in Recordings
    BY DEF TypeInv, RecorderTypeOK, ClientTypeOK
  <2>2. \A i \in DOMAIN fetched : fetched[i] \in Ids
    BY <2>1
  <2> QED
    BY <2>1, <2>2, Sizes, RecordingTypes DEF Ids
<1>1. ASSUME UNCHANGED <<begun, micState, store, ready, fetched>> PROVE InOrder'
  BY <1>1 DEF InOrder, hasLastRecording
<1>2. ASSUME NEW c \in Clients, FetchAudio(c) PROVE InOrder'
  <2>1. /\ fetched' = Append(fetched, store.id) /\ ready' = FALSE
        /\ UNCHANGED <<begun, micState, store>> /\ hasLastRecording
    BY <1>2 DEF FetchAudio, markLastRecordingConsumed, frameVars
  <2>2. store.id \in Ids
    BY <1>t, <2>1, RecordingTypes DEF hasLastRecording
  <2>3. /\ DOMAIN fetched' = 1 .. Len(fetched) + 1 /\ Len(fetched) \in Nat
        /\ DOMAIN fetched = 1 .. Len(fetched)
        /\ \A i \in DOMAIN fetched : fetched'[i] = fetched[i]
        /\ fetched'[Len(fetched) + 1] = store.id
    BY <1>t, <2>1, <2>2
  <2>4. \A i \in DOMAIN fetched' : i \in DOMAIN fetched \/ i = Len(fetched) + 1
    BY <2>3
  <2>5. \A i \in DOMAIN fetched : i < Len(fetched) + 1
    BY <2>3
  <2>6. \A i \in DOMAIN fetched' : fetched'[i] <= store.id
    BY <1>t, <2>1, <2>3, <2>4 DEF InOrder
  <2>7. Increasing(fetched')
    BY <1>t, <2>1, <2>3, <2>4, <2>5 DEF InOrder, Increasing
  <2> QED
    BY <1>t, <2>1, <2>3, <2>4, <2>6, <2>7 DEF InOrder, hasLastRecording
<1>3. CASE ClearRecording
  <2>1. UNCHANGED <<begun, micState, fetched>> /\ store' = NoRecording
    BY <1>3 DEF ClearRecording, clearLastRecording, frameVars, historyVars
  <2> QED
    BY <1>t, <2>1 DEF InOrder, hasLastRecording, NoRecording
<1>4. CASE Forward \/ ToolAnswers \/ BridgeStops \/ BridgeStarts
  BY <1>1, <1>4
  DEF Forward, ToolAnswers, AppendEvent, NotForwarded, ForwardToFrontend, WakeAccepted,
      WakeBusy, WakeFails, BridgeStops, BridgeStarts, recorderVars, frameVars, storeVars,
      historyVars
<1>5. ASSUME NEW c \in Clients, AskStatus(c) \/ FetchNothing(c) \/ HearsNothing(c)
      PROVE  InOrder'
  BY <1>1, <1>5
  DEF AskStatus, FetchNothing, HearsNothing, recorderVars, frameVars, storeVars, historyVars
<1>6. CASE UNCHANGED vars
  BY <1>1, <1>6 DEF vars, recorderVars, frameVars, storeVars, historyVars
<1> QED
  BY <1>2, <1>3, <1>4, <1>5, <1>6, InOrderDevice DEF Next, Bridge, Tool, Capture, Clients

LEMMA InOrderHolds == Spec => []InOrder
<1>1. Init => InOrder
  <2> SUFFICES ASSUME Init PROVE InOrder
    OBVIOUS
  <2>1. DOMAIN fetched = {} /\ store.id = 0 /\ begun = 0 /\ micState = "idle"
    BY NoFrames DEF Init, RecorderInit, NoRecording
  <2> QED
    BY <2>1 DEF InOrder, Increasing
<1> QED
  BY <1>1, InOrderStep, TypeHolds, PTL DEF Spec

\* A recording is given out by /audio at most once, to whichever client asks, and
\* after it only newer ones (VoiceBridge!GivenOutOnce).
THEOREM RecordingsGivenOutOnce == Spec => []GivenOutOnce
<1>1. InOrder => GivenOutOnce
  BY DEF InOrder, GivenOutOnce
<1> QED
  BY <1>1, InOrderHolds, PTL

-----------------------------------------------------------------------------
(* The frontend *)

\* What the script works on was given out, and nobody was woken with it yet; what
\* it forwards is in the inbox.
Unwoken ==
    /\ \A r \in Ids : woken[r] <= 1
    /\ \A r \in Ids : woken[r] > 0 => r \in Range(fetched) /\ r \in logged
    /\ at["bridge"] \in {"transcribing", "heard", "posting"} =>
          woken[holds["bridge"].id] = 0 /\ holds["bridge"].id \in Range(fetched)
    /\ at["bridge"] \in {"heard", "posting"} => holds["bridge"].id \in logged

LEMMA UnwokenStep == TypeInv /\ InOrder /\ Unwoken /\ [Next]_vars => Unwoken'
<1> SUFFICES ASSUME TypeInv, InOrder, Unwoken, [Next]_vars PROVE Unwoken'
  OBVIOUS
<1>t. /\ at \in [Clients -> {"idle", "asked", "transcribing", "heard", "posting", "stopped"}]
      /\ holds \in [Clients -> Recordings] /\ fetched \in Seq(Ids)
      /\ woken \in [Ids -> Nat] /\ store \in Recordings
  BY DEF TypeInv, RecorderTypeOK, ClientTypeOK
<1>1. ASSUME UNCHANGED <<fetched, woken>>, logged \subseteq logged',
             \/ at'["bridge"] \notin {"transcribing", "heard", "posting"}
             \/ UNCHANGED <<at, holds>>
             \/ at["bridge"] = "heard" /\ UNCHANGED holds
      PROVE  Unwoken'
  BY <1>1 DEF Unwoken
<1>2. ASSUME NEW c \in Clients, FetchAudio(c) PROVE Unwoken'
  <2>1. /\ fetched' = Append(fetched, store.id) /\ hasLastRecording
        /\ UNCHANGED <<woken, logged>>
    BY <1>2 DEF FetchAudio
  <2>2. store.id \in Ids
    BY <1>t, <2>1, RecordingTypes DEF hasLastRecording
  <2>3. Range(fetched') = Range(fetched) \cup {store.id}
    <3>1. /\ DOMAIN fetched' = 1 .. Len(fetched) + 1 /\ Len(fetched) \in Nat
          /\ DOMAIN fetched = 1 .. Len(fetched)
          /\ \A i \in DOMAIN fetched : fetched'[i] = fetched[i]
          /\ fetched'[Len(fetched) + 1] = store.id
      BY <1>t, <2>1, <2>2
    <3>2. DOMAIN fetched' = DOMAIN fetched \cup {Len(fetched) + 1}
      BY <3>1
    <3> QED
      BY <3>1, <3>2, Zenon DEF Range
  <2>4. woken[store.id] = 0
    <3>1. store.id \notin Range(fetched)
      BY <1>t, <2>1, <2>2, Sizes DEF InOrder, Range, Ids
    <3> QED
      BY <1>t, <2>2, <3>1 DEF Unwoken
  <2>5. \/ at'["bridge"] = "idle"
        \/ at'["bridge"] = "transcribing" /\ holds'["bridge"] = store
        \/ at'["bridge"] = at["bridge"] /\ holds'["bridge"] = holds["bridge"]
    BY <1>t, <1>2 DEF FetchAudio, Ends, Clients
  <2> QED
    BY <2>1, <2>3, <2>4, <2>5 DEF Unwoken
<1>3. CASE AppendEvent
  <2>1. /\ UNCHANGED <<fetched, woken, holds>> /\ at["bridge"] = "transcribing"
        /\ logged' = logged \cup {holds["bridge"].id} /\ at'["bridge"] = "heard"
    BY <1>t, <1>3 DEF AppendEvent, Goes, Clients
  <2> QED
    BY <2>1 DEF Unwoken
<1>4. CASE WakeAccepted \/ WakeFails
  <2>1. /\ UNCHANGED <<fetched, logged>> /\ at["bridge"] = "posting"
        /\ at'["bridge"] = "idle"
    BY <1>t, <1>4 DEF WakeAccepted, WakeFails, Ends, Clients
  <2>2. holds["bridge"].id \in Ids
    BY <1>t, <2>1, RecordingTypes DEF TypeInv, Holding, Clients
  <2>3. CASE UNCHANGED woken
    BY <2>1, <2>3 DEF Unwoken
  <2>4. CASE WakeUp
    <3>1. \A r \in Ids : woken'[r] = IF r = holds["bridge"].id THEN 1 ELSE woken[r]
      BY <1>t, <2>1, <2>2, <2>4 DEF WakeUp, Unwoken
    <3> QED
      BY <2>1, <2>2, <3>1 DEF Unwoken
  <2> QED
    BY <1>4, <2>3, <2>4 DEF WakeAccepted, WakeFails
<1>5. CASE WakeBusy \/ ForwardToFrontend \/ NotForwarded \/ BridgeStops \/ BridgeStarts
  BY <1>1, <1>5, <1>t
  DEF WakeBusy, ForwardToFrontend, NotForwarded, BridgeStops, BridgeStarts, Goes, Ends,
      Clients, historyVars
<1>6. ASSUME NEW c \in Clients, AskStatus(c) \/ FetchNothing(c) \/ HearsNothing(c)
      PROVE  Unwoken'
  <2>1. /\ UNCHANGED <<fetched, woken, logged>>
        /\ \/ at'["bridge"] \in {"idle", "asked"}
           \/ UNCHANGED <<at["bridge"], holds["bridge"]>>
    BY <1>6, <1>t
    DEF AskStatus, FetchNothing, HearsNothing, Goes, Ends, Clients, historyVars
  <2> QED
    BY <2>1 DEF Unwoken
<1>7. CASE ToolAnswers
  <2>1. UNCHANGED <<fetched, woken, logged, at["bridge"], holds["bridge"]>>
    BY <1>7, <1>t DEF ToolAnswers, Ends, Clients, historyVars
  <2> QED
    BY <2>1 DEF Unwoken
<1>8. CASE Device \/ ClearRecording \/ UNCHANGED vars
  BY <1>1, <1>8 DEF Device, ClearRecording, vars, historyVars
<1> QED
  BY <1>2, <1>3, <1>4, <1>5, <1>6, <1>7, <1>8
  DEF Next, Bridge, Tool, Capture, Forward, Clients

LEMMA UnwokenHolds == Spec => []Unwoken
<1>1. Init => Unwoken
  BY DEF Init, Unwoken, Clients
<1> QED
  BY <1>1, UnwokenStep, TypeHolds, InOrderHolds, PTL DEF Spec

\* The frontend is woken at most once with a recording, though a busy session is
\* asked again and an answer may be lost, and only with what is in the inbox
\* (VoiceBridge!WokenOnce).
THEOREM FrontendWokenOnce == Spec => []WokenOnce
<1>1. Unwoken => WokenOnce
  BY DEF Unwoken, WokenOnce
<1> QED
  BY <1>1, UnwokenHolds, PTL

=============================================================================
