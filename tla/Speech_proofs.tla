----------------------------- MODULE Speech_proofs -----------------------------
(***************************************************************************)
(* Theorems about stackchan_say and the device it speaks through, for any  *)
(* number of calls, slabs and segments, any prebuffer and any failures.    *)
(***************************************************************************)
EXTENDS Speech, AudioGate_proofs, FiniteSetTheorems

-----------------------------------------------------------------------------
(* The gate *)

Keeping == {"settle", "write", "refill"}

\* Who holds the gate, and how deep: pcmStreamTask while it plays, the loop task
\* while a playback starts.  From the gate on the microphone is off.
GateUse ==
    /\ gate.holder = (IF stage \in Keeping THEN "pcm"
                      ELSE IF loop = "starting" THEN "loop" ELSE "none")
    /\ gate.depth = (IF gate.holder = "none" THEN 0 ELSE 1)
    /\ loop \in {"idle", "starting"}
    /\ stage \in Keeping => loop = "idle" /\ ~mic
    /\ stage \in {"write", "refill"} => ~sounding

LEMMA GateUsePcm ==
    ASSUME GateUse, PcmStreamTask, UNCHANGED <<playRequestVars, sayVars>>
    PROVE  GateUse'
<1> USE DEF GateUse, Keeping, playRequestVars, playVars, speakerVars
<1>l. UNCHANGED loop
  OBVIOUS
<1>1. CASE AcceptClient \/ RefuseHeader \/ RefuseBusy \/ ServeClient
  BY <1>1 DEF AcceptClient, RefuseHeader, RefuseBusy, ServeClient, HangUp
<1>2. CASE EnterGate
  BY <1>2 DEF EnterGate, CanTake, Take
<1>3. CASE StartDriver
  BY <1>3 DEF StartDriver, WriteNext
<1>f. ASSUME NEW lost, stage \in Keeping, FinishStream(lost) PROVE GateUse'
  BY <1>f DEF FinishStream, EndSpeaker, Stop, HangUp, Give, FreeGate
<1>4. CASE SlabWritten
  <2>1. CASE FinishStream(0)
    BY <1>4, <2>1, <1>f DEF SlabWritten
  <2>2. CASE ~FinishStream(0)
    BY <1>4, <2>2 DEF SlabWritten, WriteNext
  <2> QED
    BY <2>1, <2>2
<1>5. ASSUME NEW n \in {0, 1}, NEW end \in BOOLEAN, ReadPrebuffer(n, end) PROVE GateUse'
  BY <1>5 DEF ReadPrebuffer, Stop, HangUp
<1>6. ASSUME NEW n \in {0, 1}, NEW end \in BOOLEAN, Refill(n, end) PROVE GateUse'
  <2>1. CASE FinishStream(0)
    BY <1>6, <2>1, <1>f DEF Refill
  <2>2. CASE ~FinishStream(0)
    BY <1>6, <2>2 DEF Refill, WriteNext
  <2> QED
    BY <2>1, <2>2
<1>r. ASSUME NEW lost, Reading, FailRead(lost) PROVE GateUse'
  <2>1. CASE stage = "refill"
    BY <1>r, <2>1, <1>f DEF FailRead
  <2>2. CASE stage # "refill"
    BY <1>r, <2>2 DEF FailRead, Reading, Stop, HangUp
  <2> QED
    BY <2>1, <2>2
<1>7. CASE (\E lost \in {0, 1} : ReadTimesOut(lost)) \/ NoMemory
  BY <1>7, <1>r DEF ReadTimesOut, NoMemory
<1>8. CASE GateTimesOut
  BY <1>8 DEF GateTimesOut, Stop, HangUp
<1>9. CASE DriverFails
  BY <1>9 DEF DriverFails, Stop, HangUp, Give, FreeGate
<1>10. CASE WriteFails
  BY <1>10, <1>f DEF WriteFails
<1> QED
  BY <1>1, <1>2, <1>3, <1>4, <1>5, <1>6, <1>7, <1>8, <1>9, <1>10
  DEF PcmStreamTask, PcmProgress

LEMMA GateUseLoop == GateUse /\ (LoopTask \/ SpeakerFinishes) => GateUse'
<1> SUFFICES ASSUME GateUse, LoopTask \/ SpeakerFinishes PROVE GateUse'
  OBVIOUS
<1> USE DEF GateUse, Keeping, streamVars, taskVars
<1>1. CASE SpeakerStarts
  BY <1>1 DEF SpeakerStarts, Give, FreeGate
<1>2. CASE SpeakerFails
  BY <1>2 DEF SpeakerFails, Give, FreeGate
<1>3. CASE PlaybackFinishes \/ SpeakerFinishes
  BY <1>3 DEF PlaybackFinishes, SpeakerFinishes
<1>4. CASE HandlePlay
  BY <1>4 DEF HandlePlay, speakerVars
<1>b. ASSUME NEW what, BeginPlaying(what), loop = "idle", CanTake(gate, "loop"), UNCHANGED stage
      PROVE  GateUse'
  BY <1>b DEF BeginPlaying, CanTake, Take
<1>5. CASE WavDownloaded
  BY <1>5, <1>b DEF WavDownloaded
<1>6. CASE WavFails
  BY <1>6 DEF WavFails
<1>7. CASE SegmentOutOfSequence \/ SegmentRefused \/ SegmentNoMemory \/ SegmentStaged
  BY <1>7 DEF SegmentOutOfSequence, SegmentRefused, SegmentNoMemory, SegmentStaged,
     speakerVars, playVars
<1>8. CASE FinalSegment
  BY <1>8, <1>b DEF FinalSegment, SegmentCame
<1>9. CASE ResumeMic
  BY <1>9 DEF ResumeMic, hasPendingPlaybackWork, isPcmStreamActive, playRequestVars, playVars
<1>10. CASE MicRecords
  <2>1. gate.holder # "pcm" /\ UNCHANGED <<gate, loop, stage, sounding>>
    BY <1>10 DEF MicRecords, CanTake, playRequestVars, playVars
  <2>2. stage \notin Keeping /\ stage \notin {"write", "refill"}
    BY <2>1
  <2> QED
    BY <2>1, <2>2
<1> QED
  BY <1>1, <1>2, <1>3, <1>4, <1>5, <1>6, <1>7, <1>8, <1>9, <1>10 DEF LoopTask

\* The tool reaches the device by sockets and requests alone.
LEMMA SayKeepsDevice ==
    ASSUME StackchanSay
    PROVE  UNCHANGED <<serving, stage, speakerVars, bufferVars, mishaps, stagingVars, playVars>>
<1> USE DEF tcpVars, taskVars, playRequestVars, playVars, stagingVars, Locally, OnSocket, ByHttp
<1>1. CASE Say \/ BufferFails \/ ConnectFails \/ StagedSourceFails \/ GenerateFails
           \/ ReadBaseline \/ BaselineFails \/ PollStarted \/ WaitTimesOut
  BY <1>1 DEF Say, BufferFails, ConnectFails, StagedSourceFails, GenerateFails, ReadBaseline,
     BaselineFails, PollStarted, WaitTimesOut
<1>2. CASE OpenStream \/ Greet \/ Accepted \/ NotAccepted \/ SendChunk \/ StreamBreaks \/ SourceEnds
  BY <1>2 DEF OpenStream, Greet, Accepted, NotAccepted, SendChunk, StreamBreaks, SourceEnds,
     Connect, SendHeader, SendSlabs, CloseSocket
<1>3. CASE SegmentAnswered \/ SegmentLate \/ (\E final \in BOOLEAN : PostSegment(final))
           \/ PostPlay \/ PlayAnswered \/ PlayLate
  BY <1>3 DEF SegmentAnswered, SegmentLate, PostSegment, PostPlay, PlayAnswered, PlayLate
<1> QED
  BY <1>1, <1>2, <1>3 DEF StackchanSay

\* Nor does a network that breaks touch the speaker.
LEMMA SayKeepsSpeaker ==
    ASSUME StackchanSay \/ (Breaks /\ UNCHANGED <<playRequestVars, sayVars>>)
    PROVE  UNCHANGED <<serving, stage, speakerVars, loop, current, staged, diag, bufferVars>>
<1>1. CASE StackchanSay
  BY <1>1, SayKeepsDevice DEF stagingVars, playVars
<1>2. CASE Breaks /\ UNCHANGED <<playRequestVars, sayVars>>
  BY <1>2 DEF Breaks, NetworkBreaks, taskVars, playRequestVars, playVars, stagingVars
<1> QED
  BY <1>1, <1>2

LEMMA GateUseHolds == Spec => []GateUse
<1>1. SpeechInit => GateUse
  BY DEF SpeechInit, TcpInit, PlayInit, GateUse, Keeping, FreeGate
<1>2. GateUse /\ [Next]_vars => GateUse'
  <2> SUFFICES ASSUME GateUse, [Next]_vars PROVE GateUse'
    OBVIOUS
  <2>1. ASSUME UNCHANGED <<stage, speakerVars, loop>> PROVE GateUse'
    BY <2>1 DEF GateUse, Keeping, speakerVars
  <2>2. CASE StackchanSay \/ (Breaks /\ UNCHANGED <<playRequestVars, sayVars>>)
    BY <2>1, <2>2, SayKeepsSpeaker
  <2>3. CASE UNCHANGED vars
    BY <2>1, <2>3 DEF vars, tcpVars, taskVars, playRequestVars, playVars
  <2> QED
    BY <2>2, <2>3, GateUsePcm, GateUseLoop DEF Next
<1> QED
  BY <1>1, <1>2, PTL DEF Spec

\* While the TCP stream's driver runs nothing else uses the speaker or the
\* microphone, and the gate is given back when the stream ends
\* (TcpStream!StreamHasSpeaker).
THEOREM StreamOwnsSpeaker == Spec => []StreamHasSpeaker
<1>1. GateUse => StreamHasSpeaker
  BY DEF GateUse, Keeping, StreamHasSpeaker
<1> QED
  BY <1>1, GateUseHolds, PTL

-----------------------------------------------------------------------------
(* Staged sessions *)

\* Segments of one caller from 0 on, none of them the final one.
Begins(segments, caller) ==
    /\ segments \in Seq(Segments)
    /\ \A k \in DOMAIN segments :
          segments[k].caller = caller /\ segments[k].seq = k - 1 /\ ~segments[k].final

\* Segments of one caller from 0 to the final one.
Complete(segments, caller) ==
    /\ segments \in Seq(Segments) /\ segments[Len(segments)].final
    /\ \A k \in DOMAIN segments :
          /\ segments[k].caller = caller /\ segments[k].seq = k - 1
          /\ segments[k].final => k = Len(segments)

\* What is staged begins a session of its caller; what plays is a whole one.
StagedInv ==
    /\ requests \in Seq(Requests)
    /\ Begins(staged.segments, staged.session) /\ staged.next = Len(staged.segments)
    /\ staged.segments = <<>> => staged.session = 0
    /\ \A i \in DOMAIN current :
          current[i].kind = "staged" => Complete(current[i].segments, current[i].caller)

\* A request that is a segment has the fields of one.
LEMMA SegmentRequest ==
    ASSUME NEW r \in Requests, r.kind = "segment"
    PROVE  r \in Segments /\ r.caller \in Callers /\ r.seq \in Nat /\ r.final \in BOOLEAN
           /\ r.caller # 0
<1>1. MaxSegments \in Nat
  BY PlayAssumption DEF PlayAssumption
<1>2. r \in Segments
  BY DEF Requests, Segments
<1> QED
  BY <1>1, <1>2 DEF Segments, Callers, Streams

\* What is staged after a segment ends with it, and begins a session.
LEMMA StagingExtends ==
    ASSUME StagedInv, NEW s \in Requests, s.kind = "segment", NEW new \in Staging(s)
    PROVE  /\ new.session = s.caller /\ new.next = Len(new.segments) /\ new.segments # <<>>
           /\ new.segments \in Seq(Segments)
           /\ new.segments[Len(new.segments)] = s
           /\ \A k \in DOMAIN new.segments :
                 /\ new.segments[k].caller = s.caller /\ new.segments[k].seq = k - 1
                 /\ k # Len(new.segments) => ~new.segments[k].final
<1>1. s \in Segments /\ s.seq \in Nat /\ s.caller # 0
  BY SegmentRequest
<1>2. new.session = s.caller /\ new.next = s.seq + 1
  BY DEF Staging
<1>3. CASE staged.session = s.caller
  <2>1. new.segments = Append(staged.segments, s) /\ s.seq = staged.next
    BY <1>3 DEF Staging
  <2>2. staged.segments \in Seq(Segments) /\ staged.next = Len(staged.segments)
    BY DEF StagedInv, Begins
  <2>3. /\ Len(new.segments) = Len(staged.segments) + 1 /\ new.segments \in Seq(Segments)
        /\ new.segments[Len(new.segments)] = s
        /\ \A k \in DOMAIN new.segments : k # Len(new.segments)
              => k \in DOMAIN staged.segments /\ new.segments[k] = staged.segments[k]
    BY <1>1, <2>1, <2>2
  <2>4. \A k \in DOMAIN staged.segments : /\ staged.segments[k].caller = s.caller
                                          /\ staged.segments[k].seq = k - 1
                                          /\ ~staged.segments[k].final
    BY <1>3 DEF StagedInv, Begins
  <2>5. new.segments # <<>> /\ DOMAIN new.segments = 1 .. Len(staged.segments) + 1
    BY <2>2, <2>3
  <2>6. s.seq = Len(new.segments) - 1 /\ new.next = Len(new.segments)
    BY <1>2, <2>1, <2>2, <2>3
  <2> QED
    BY <1>2, <2>3, <2>4, <2>5, <2>6
<1>4. CASE staged.session # s.caller
  <2>1. new.segments = <<s>> /\ s.seq = 0
    BY <1>4 DEF Staging
  <2> QED
    BY <1>1, <1>2, <2>1
<1> QED
  BY <1>3, <1>4

LEMMA NotStagedInv == Begins(NotStaged.segments, NotStaged.session)
                      /\ NotStaged.next = Len(NotStaged.segments) /\ NotStaged.session = 0
<1>1. <<>> \in Seq(Segments) /\ DOMAIN <<>> = {} /\ Len(<<>>) = 0
  OBVIOUS
<1> QED
  BY <1>1 DEF Begins, NotStaged

LEMMA StagedLoop == StagedInv /\ (LoopTask \/ SpeakerFinishes) => StagedInv'
<1> SUFFICES ASSUME StagedInv, LoopTask \/ SpeakerFinishes PROVE StagedInv'
  OBVIOUS
<1>r. requests # <<>> => Head(requests) \in Requests /\ Tail(requests) \in Seq(Requests)
  BY DEF StagedInv
<1>q. requests' \in Seq(Requests)
  BY <1>r DEF StagedInv, LoopTask, SpeakerStarts, SpeakerFails, PlaybackFinishes, SpeakerFinishes,
     HandlePlay, WavDownloaded, WavFails, SegmentCame, SegmentOutOfSequence, SegmentRefused,
     SegmentNoMemory, SegmentStaged, FinalSegment, ResumeMic, MicRecords, requestVars, playRequestVars
<1>s. ASSUME UNCHANGED current, staged' \in {staged, NotStaged} PROVE StagedInv'
  BY <1>q, <1>s, NotStagedInv DEF StagedInv, NotStaged
<1>c. ASSUME UNCHANGED staged, current' = <<>> PROVE StagedInv'
  BY <1>q, <1>c DEF StagedInv
<1>1. CASE SpeakerStarts
  BY <1>1, <1>s DEF SpeakerStarts
<1>2. CASE SpeakerFails
  BY <1>2, <1>c DEF SpeakerFails, stagingVars
<1>3. CASE PlaybackFinishes
  BY <1>3, <1>c DEF PlaybackFinishes, stagingVars
<1>4. CASE SpeakerFinishes \/ HandlePlay \/ WavFails
  BY <1>4, <1>s DEF SpeakerFinishes, HandlePlay, WavFails, stagingVars
<1>5. CASE WavDownloaded
  <2>1. current' = <<[kind |-> "wav", caller |-> inFlight]>> /\ UNCHANGED staged
    BY <1>5 DEF WavDownloaded, BeginPlaying, stagingVars
  <2>2. \A i \in DOMAIN current' : current'[i].kind # "staged"
    BY <2>1
  <2> QED
    BY <1>q, <2>1, <2>2 DEF StagedInv
<1>6. CASE SegmentOutOfSequence \/ SegmentRefused \/ SegmentNoMemory
  BY <1>6, <1>s
  DEF SegmentOutOfSequence, SegmentRefused, SegmentNoMemory, playVars, stagingVars
<1>7. CASE SegmentStaged
  <2> DEFINE s == Head(requests)
  <2>1. s \in Requests /\ s.kind = "segment"
    BY <1>7, <1>r DEF SegmentStaged, SegmentCame
  <2>2. staged' \in Staging(s) /\ ~s.final /\ UNCHANGED current
    BY <1>7 DEF SegmentStaged, playVars
  <2>3. /\ staged'.session = s.caller /\ staged'.next = Len(staged'.segments)
        /\ staged'.segments # <<>> /\ Begins(staged'.segments, s.caller)
    <3> HIDE DEF s
    <3> QED
      BY <2>1, <2>2, StagingExtends DEF Begins
  <2> QED
    BY <1>q, <2>2, <2>3 DEF StagedInv
<1>8. CASE FinalSegment
  <2> DEFINE s == Head(requests)
  <2>1. s \in Requests /\ s.kind = "segment"
    BY <1>8, <1>r DEF FinalSegment, SegmentCame
  <2>2. PICK new \in Staging(s) :
           current' = <<[kind |-> "staged", caller |-> s.caller, request |-> s,
                         segments |-> new.segments]>>
    BY <1>8 DEF FinalSegment, BeginPlaying
  <2>3. s.final /\ staged' = NotStaged
    BY <1>8 DEF FinalSegment
  <2>4. Complete(new.segments, s.caller)
    <3> HIDE DEF s
    <3> QED
      BY <2>1, <2>2, <2>3, StagingExtends DEF Complete
  <2>5. \A i \in DOMAIN current' : Complete(current'[i].segments, current'[i].caller)
    BY <2>2, <2>4
  <2> QED
    BY <1>q, <2>3, <2>5, NotStagedInv DEF StagedInv
<1>9. CASE ResumeMic \/ MicRecords
  BY <1>9, <1>s DEF ResumeMic, MicRecords, playRequestVars, stagingVars, playVars
<1> QED
  BY <1>1, <1>2, <1>3, <1>4, <1>5, <1>6, <1>7, <1>8, <1>9 DEF LoopTask

-----------------------------------------------------------------------------
(* Slabs *)

Stages == {"listen", "header", "prebuffer", "gate", "settle", "write", "refill"}

SockTypes ==
    /\ sock \in [Streams -> Socks]
    /\ backlog \in Seq(Streams) /\ serving \in 0 .. MaxStreams
    /\ stage \in Stages /\ (stage # "listen" => serving \in Streams)
    /\ mishaps \in [torn : 0 .. MaxTorn, hurt : SUBSET Streams]

BufferTypes ==
    /\ eof \in BOOLEAN /\ taken \in 0 .. MaxSlabs
    /\ pending \in Seq(1 .. MaxSlabs) /\ hand \in 0 .. MaxSlabs
    /\ submitted \in 0 .. 2
    /\ heard \in [Streams -> Seq(1 .. MaxSlabs)]

InHand == IF hand = 0 THEN 0 ELSE 1

\* Every slab that is allocated is pending, in hand, submitted, or torn.
SlabsCounted == slabs = Len(pending) + submitted + InHand + mishaps.torn

\* Which of them there are at each point of the task.
SlabPlaces ==
    /\ stage \in {"listen", "header"} => pending = <<>>
    /\ stage \in {"gate", "settle"} => pending # <<>>
    /\ stage \in Stages \ {"write", "refill"} => submitted = 0
    /\ stage = "write" <=> hand # 0

SlabInv == SockTypes /\ BufferTypes /\ SlabsCounted /\ SlabPlaces

LEMMA StreamSizes ==
    /\ MaxStreams \in Nat /\ MaxSlabs \in Nat /\ MaxSlabs > 0
    /\ Prebuffer \in Nat /\ Prebuffer > 0 /\ MaxTorn \in Nat
BY StreamAssumption DEF StreamAssumption

LEMMA HangUpTypes ==
    ASSUME SockTypes, stage # "listen", NEW answer \in {"none", "OK", "ERR"}, HangUp(answer)
    PROVE  /\ sock' \in [Streams -> Socks] /\ backlog' \in Seq(Streams)
           /\ serving' = 0 /\ 0 \in 0 .. MaxStreams /\ stage' = "listen"
<1>1. serving \in Streams /\ sock[serving] \in Socks
  BY DEF SockTypes
<1>2. [sock[serving] EXCEPT !.stopped = TRUE, !.reply = answer] \in Socks
  BY <1>1 DEF Socks
<1>3. sock' = [sock EXCEPT ![serving] = [sock[serving] EXCEPT !.stopped = TRUE, !.reply = answer]]
  BY <1>1 DEF HangUp, SockTypes
<1> QED
  BY <1>1, <1>2, <1>3, StreamSizes DEF HangUp, SockTypes

\* The stream is over and its slabs are freed.
LEMMA DroppedSlabs ==
    ASSUME SlabInv, stage # "listen", NEW lost \in {0, 1}, DropSlabs(lost), Stop,
           UNCHANGED <<eof, taken>>, heard' \in [Streams -> Seq(1 .. MaxSlabs)],
           mishaps' \in [torn : 0 .. MaxTorn, hurt : SUBSET Streams],
           mishaps'.torn = mishaps.torn + lost
    PROVE  SlabInv'
<1>1. slabs' = mishaps.torn + lost
  <2>1. Len(pending) \in Nat /\ submitted \in Nat /\ mishaps.torn \in Nat /\ hand \in Nat
    BY StreamSizes DEF SlabInv, BufferTypes, SockTypes
  <2>2. slabs = Len(pending) + submitted + InHand + mishaps.torn
    BY DEF SlabInv, SlabsCounted
  <2>3. slabs' = slabs - Len(pending) - submitted - InHand + lost
    BY <2>1 DEF DropSlabs, FreeSlabs, InHand
  <2>4. InHand \in Nat
    BY DEF InHand
  <2> QED
    BY <2>1, <2>2, <2>3, <2>4
<1>2. pending' = <<>> /\ hand' = 0 /\ submitted' = 0
  BY DEF DropSlabs
<1>3. sock[serving].reply \in {"none", "OK", "ERR"}
  BY DEF SlabInv, SockTypes, Socks
<1>4. /\ sock' \in [Streams -> Socks] /\ backlog' \in Seq(Streams)
      /\ serving' = 0 /\ 0 \in 0 .. MaxStreams /\ stage' = "listen"
  BY <1>3, HangUpTypes DEF Stop, SlabInv
<1>5. SockTypes'
  BY <1>4 DEF SockTypes, Stages
<1>6. BufferTypes'
  BY <1>2, StreamSizes DEF BufferTypes, SlabInv
<1>7. Len(pending') = 0 /\ InHand' = 0
  BY <1>2 DEF InHand
<1>8. mishaps'.torn \in Nat
  BY StreamSizes
<1>9. SlabsCounted'
  BY <1>1, <1>2, <1>7, <1>8 DEF SlabsCounted
<1> QED
  BY <1>2, <1>4, <1>5, <1>6, <1>9 DEF SlabInv, SlabPlaces

\* A stream that fails is entered in the history.
LEMMA HurtTypes ==
    ASSUME SockTypes, stage # "listen"
    PROVE  /\ Hurt \in [torn : 0 .. MaxTorn, hurt : SUBSET Streams]
           /\ Hurt.torn = mishaps.torn
BY DEF SockTypes, Hurt

\* Writing goes on with the first slab of a queue that is not empty.
LEMMA WriteNextSlab ==
    ASSUME NEW queue \in Seq(1 .. MaxSlabs), queue # <<>>, WriteNext(queue)
    PROVE  /\ pending' \in Seq(1 .. MaxSlabs) /\ hand' \in 0 .. MaxSlabs /\ hand' # 0
           /\ Len(pending') = Len(queue) - 1 /\ InHand' = 1 /\ stage' = "write"
BY StreamSizes DEF WriteNext, InHand

\* A slab that arrives is one that was sent.
LEMMA ArrivingSlab ==
    ASSUME SlabInv, stage # "listen", NEW n \in {0, 1}, NEW end \in BOOLEAN, Arrives(n, end)
    PROVE  /\ taken + n \in 0 .. MaxSlabs
           /\ Queued(n) \in Seq(1 .. MaxSlabs) /\ Len(Queued(n)) = Len(pending) + n
<1>1. sock[serving].sent \in 0 .. MaxSlabs /\ taken \in 0 .. MaxSlabs
  BY DEF SlabInv, SockTypes, BufferTypes, Socks
<1>2. n = 1 => taken < sock[serving].sent
  BY DEF Arrives
<1>3. taken + n \in 0 .. MaxSlabs /\ (n = 1 => taken + 1 \in 1 .. MaxSlabs)
  BY <1>1, <1>2, StreamSizes
<1>4. pending \in Seq(1 .. MaxSlabs)
  BY DEF SlabInv, BufferTypes
<1>5. CASE n = 0
  BY <1>3, <1>4, <1>5 DEF Queued
<1>6. CASE n = 1
  <2>1. Queued(n) = Append(pending, taken + 1) /\ taken + 1 \in 1 .. MaxSlabs
    BY <1>3, <1>6 DEF Queued
  <2>2. /\ Append(pending, taken + 1) \in Seq(1 .. MaxSlabs)
        /\ Len(Append(pending, taken + 1)) = Len(pending) + 1
    <3> DEFINE slab == taken + 1
    <3> HIDE DEF slab
    <3>1. slab \in 1 .. MaxSlabs
      BY <2>1 DEF slab
    <3>2. /\ Append(pending, slab) \in Seq(1 .. MaxSlabs)
          /\ Len(Append(pending, slab)) = Len(pending) + 1
      BY <1>4, <3>1
    <3> QED
      BY <3>2 DEF slab
  <2> QED
    BY <1>3, <1>6, <2>1, <2>2
<1> QED
  BY <1>5, <1>6

LEMMA SlabsPcm == SlabInv /\ PcmStreamTask => SlabInv'
<1> SUFFICES ASSUME SlabInv, PcmStreamTask PROVE SlabInv'
  OBVIOUS
<1>t. SockTypes /\ BufferTypes /\ SlabsCounted /\ SlabPlaces
  BY DEF SlabInv
<1>n. /\ Len(pending) \in Nat /\ submitted \in Nat /\ mishaps.torn \in Nat /\ hand \in Nat
      /\ InHand \in Nat
  BY <1>t, StreamSizes DEF BufferTypes, SockTypes, InHand
<1>k. ASSUME UNCHANGED <<sock, backlog, serving, mishaps>>, stage # "listen", stage' \in Stages
      PROVE  SockTypes'
  BY <1>k, <1>t DEF SockTypes
<1>f. ASSUME stage # "listen", DropSlabs(0), Stop, UNCHANGED <<eof, taken>>,
             mishaps' \in {mishaps, Hurt}, heard' \in [Streams -> Seq(1 .. MaxSlabs)]
      PROVE  SlabInv'
  <2>1. mishaps' \in [torn : 0 .. MaxTorn, hurt : SUBSET Streams] /\ mishaps'.torn = mishaps.torn + 0
    BY <1>f, <1>t, <1>n, HurtTypes DEF SockTypes
  <2> QED
    BY <1>f, <2>1, DroppedSlabs
<1>h. heard \in [Streams -> Seq(1 .. MaxSlabs)]
  BY <1>t DEF BufferTypes
<1>1. CASE AcceptClient
  <2>1. Head(backlog) \in Streams /\ Tail(backlog) \in Seq(Streams) /\ Streams \subseteq 0 .. MaxStreams
    BY <1>1, <1>t, StreamSizes DEF AcceptClient, SockTypes, Streams
  <2>2. UNCHANGED <<sock, mishaps, eof, taken, pending, hand, submitted, slabs, heard>>
        /\ serving' = Head(backlog) /\ backlog' = Tail(backlog) /\ stage = "listen" /\ stage' = "header"
    BY <1>1 DEF AcceptClient, bufferVars
  <2>3. SockTypes'
    BY <2>1, <2>2, <1>t DEF SockTypes, Stages
  <2> QED
    BY <2>2, <2>3, <1>t DEF SlabInv, BufferTypes, SlabsCounted, InHand, SlabPlaces, Stages
<1>2. CASE RefuseHeader \/ RefuseBusy
  <2>1. HangUp("ERR") /\ stage = "header"
        /\ UNCHANGED <<mishaps, eof, taken, pending, hand, submitted, slabs, heard>>
    BY <1>2 DEF RefuseHeader, RefuseBusy, bufferVars
  <2>2. SockTypes' /\ stage' = "listen"
    BY <2>1, <1>t, HangUpTypes DEF SockTypes, Stages
  <2> QED
    BY <2>1, <2>2, <1>t DEF SlabInv, BufferTypes, SlabsCounted, InHand, SlabPlaces, Stages
<1>3. CASE ServeClient
  <2>1. /\ stage = "header" /\ stage' = "prebuffer" /\ eof' = FALSE /\ taken' = 0
        /\ UNCHANGED <<serving, backlog, mishaps, pending, hand, submitted, slabs, heard>>
        /\ sock' = [sock EXCEPT ![serving] = [sock[serving] EXCEPT !.reply = "OK"]]
    BY <1>3, <1>t DEF ServeClient, SockTypes
  <2>2. [sock[serving] EXCEPT !.reply = "OK"] \in Socks
    BY <2>1, <1>t DEF SockTypes, Socks
  <2>3. SockTypes'
    BY <2>1, <2>2, <1>t DEF SockTypes, Stages
  <2> QED
    BY <2>1, <2>3, <1>t, StreamSizes DEF SlabInv, BufferTypes, SlabsCounted, InHand, SlabPlaces, Stages
<1>4. ASSUME NEW n \in {0, 1}, NEW end \in BOOLEAN, ReadPrebuffer(n, end) PROVE SlabInv'
  <2>1. /\ stage = "prebuffer" /\ Arrives(n, end) /\ taken' = taken + n /\ eof' = end
        /\ slabs' = slabs + n /\ pending' = Queued(n) /\ UNCHANGED <<hand, submitted, heard, mishaps>>
    BY <1>4 DEF ReadPrebuffer
  <2>2. taken + n \in 0 .. MaxSlabs /\ pending' \in Seq(1 .. MaxSlabs)
        /\ Len(pending') = Len(pending) + n
    BY <2>1, ArrivingSlab
  <2>3. BufferTypes'
    BY <2>1, <2>2, <1>t DEF BufferTypes
  <2>4. SlabsCounted'
    BY <2>1, <2>2, <1>t, <1>n DEF SlabsCounted, InHand
  <2>5. /\ SockTypes'
        /\ \/ stage' = "listen" /\ pending' = <<>>
           \/ stage' = "prebuffer"
           \/ stage' = "gate" /\ pending' # <<>>
    <3>1. CASE Queued(n) = <<>>
      <4>1. Stop
        BY <1>4, <3>1 DEF ReadPrebuffer
      <4>2. sock[serving].reply \in {"none", "OK", "ERR"}
        BY <1>t, <2>1 DEF SockTypes, Socks
      <4> QED
        BY <2>1, <3>1, <4>1, <4>2, <1>t, HangUpTypes DEF Stop, SockTypes, Stages
    <3>2. CASE Queued(n) # <<>>
      BY <1>4, <2>1, <3>2, <1>k DEF ReadPrebuffer, Stages
    <3> QED
      BY <3>1, <3>2
  <2> QED
    BY <2>1, <2>3, <2>4, <2>5, <1>t DEF SlabInv, SlabPlaces, Stages
<1>5. CASE EnterGate
  <2>1. /\ stage = "gate" /\ stage' = "settle"
        /\ UNCHANGED <<sock, backlog, serving, mishaps, eof, taken, pending, hand, submitted, slabs, heard>>
    BY <1>5 DEF EnterGate, bufferVars
  <2> QED
    BY <2>1, <1>t, <1>k DEF SlabInv, BufferTypes, SlabsCounted, InHand, SlabPlaces, Stages
<1>6. CASE StartDriver
  <2>1. /\ stage = "settle" /\ WriteNext(pending) /\ pending # <<>> /\ hand = 0
        /\ UNCHANGED <<sock, backlog, serving, mishaps, eof, taken, submitted, slabs, heard>>
    BY <1>6, <1>t DEF StartDriver, SlabPlaces
  <2>2. /\ pending' \in Seq(1 .. MaxSlabs) /\ hand' \in 0 .. MaxSlabs /\ hand' # 0
        /\ Len(pending') = Len(pending) - 1 /\ InHand' = 1 /\ stage' = "write" /\ InHand = 0
    BY <2>1, <1>t, WriteNextSlab DEF BufferTypes, InHand
  <2>3. SlabsCounted'
    BY <2>1, <2>2, <1>t, <1>n DEF SlabsCounted
  <2> QED
    BY <2>1, <2>2, <2>3, <1>t, <1>k DEF SlabInv, BufferTypes, SlabPlaces, Stages
<1>7. CASE SlabWritten
  <2>1. stage = "write" /\ hand \in 1 .. MaxSlabs /\ InHand = 1 /\ UNCHANGED <<eof, taken, mishaps>>
    BY <1>7, <1>t, StreamSizes DEF SlabWritten, SlabPlaces, BufferTypes, InHand
  <2>2. heard' \in [Streams -> Seq(1 .. MaxSlabs)]
    <3>1. heard' = [heard EXCEPT ![serving] = Append(heard[serving], hand)]
      BY <1>7 DEF SlabWritten
    <3>2. serving \in Streams
      BY <2>1, <1>t DEF SockTypes
    <3>3. Append(heard[serving], hand) \in Seq(1 .. MaxSlabs)
      BY <1>h, <2>1, <3>2
    <3> QED
      BY <1>h, <3>1, <3>2, <3>3
  <2>3. CASE eof /\ pending = <<>>
    BY <1>7, <2>1, <2>2, <2>3, <1>f DEF SlabWritten, FinishStream
  <2>4. CASE ~(eof /\ pending = <<>>)
    <3>1. /\ submitted' = IF submitted = 2 THEN 2 ELSE submitted + 1
          /\ slabs' = IF submitted = 2 THEN slabs - 1 ELSE slabs
          /\ IF eof \/ Len(pending) >= Prebuffer THEN WriteNext(pending)
             ELSE stage' = "refill" /\ hand' = 0 /\ UNCHANGED pending
          /\ UNCHANGED <<sock, backlog, serving>>
      BY <1>7, <2>4 DEF SlabWritten
    <3>2. submitted' \in 0 .. 2 /\ submitted \in 0 .. 2
      BY <3>1, <1>t DEF BufferTypes
    <3>3. /\ pending' \in Seq(1 .. MaxSlabs) /\ hand' \in 0 .. MaxSlabs
          /\ \/ /\ stage' = "write" /\ hand' # 0
                /\ Len(pending') = Len(pending) - 1 /\ InHand' = 1
             \/ /\ stage' = "refill" /\ hand' = 0
                /\ Len(pending') = Len(pending) /\ InHand' = 0
      <4>1. CASE eof \/ Len(pending) >= Prebuffer
        <5>1. pending # <<>> /\ WriteNext(pending)
          BY <2>4, <3>1, <4>1, <1>n, <1>t, StreamSizes DEF BufferTypes
        <5> QED
          BY <5>1, <1>t, WriteNextSlab DEF BufferTypes
      <4>2. CASE ~(eof \/ Len(pending) >= Prebuffer)
        BY <3>1, <4>2, <1>t, StreamSizes DEF BufferTypes, InHand
      <4> QED
        BY <4>1, <4>2
    <3>4. SlabsCounted'
      <4>1. slabs = Len(pending) + submitted + 1 + mishaps.torn
        BY <2>1, <1>t DEF SlabsCounted
      <4>2. slabs' = Len(pending) + submitted' + mishaps.torn
        BY <3>1, <3>2, <4>1, <1>n
      <4>3. Len(pending') + InHand' = Len(pending)
        BY <3>3, <1>n
      <4>4. Len(pending') \in Nat /\ InHand' \in Nat /\ submitted' \in Nat
        BY <3>2, <3>3 DEF InHand
      <4>5. mishaps'.torn = mishaps.torn
        BY <2>1
      <4> QED
        BY <1>n, <4>2, <4>3, <4>4, <4>5 DEF SlabsCounted
    <3>5. SockTypes'
      BY <2>1, <3>1, <3>3, <1>k DEF Stages
    <3> QED
      BY <2>1, <2>2, <3>2, <3>3, <3>4, <3>5, <1>t DEF SlabInv, BufferTypes, SlabPlaces, Stages
  <2> QED
    BY <2>3, <2>4
<1>8. ASSUME NEW n \in {0, 1}, NEW end \in BOOLEAN, Refill(n, end) PROVE SlabInv'
  <2>1. /\ stage = "refill" /\ Arrives(n, end) /\ taken' = taken + n /\ eof' = end
        /\ UNCHANGED <<heard, mishaps>> /\ hand = 0
    BY <1>8, <1>t DEF Refill, SlabPlaces
  <2>2. /\ taken + n \in 0 .. MaxSlabs /\ Queued(n) \in Seq(1 .. MaxSlabs)
        /\ Len(Queued(n)) = Len(pending) + n
    BY <2>1, ArrivingSlab
  <2>3. CASE Queued(n) = <<>>
    <3>1. DropSlabs(0) /\ Stop /\ n = 0
      BY <1>8, <2>2, <2>3, <1>n DEF Refill, FinishStream
    <3>2. UNCHANGED taken
      BY <2>1, <3>1, <1>t, StreamSizes DEF BufferTypes
    <3>3. SlabsCounted' /\ pending' = <<>> /\ hand' = 0 /\ submitted' = 0 /\ SockTypes'
          /\ stage' = "listen"
      <4>1. slabs' = mishaps.torn + 0
        BY <2>1, <3>1, <1>t, <1>n DEF DropSlabs, FreeSlabs, SlabsCounted, InHand
      <4>2. sock[serving].reply \in {"none", "OK", "ERR"}
        BY <1>t, <2>1 DEF SockTypes, Socks
      <4>3. SockTypes' /\ stage' = "listen"
        BY <2>1, <3>1, <4>2, <1>t, HangUpTypes DEF Stop, SockTypes, Stages
      <4>4. pending' = <<>> /\ hand' = 0 /\ submitted' = 0 /\ Len(pending') = 0 /\ InHand' = 0
        BY <3>1 DEF DropSlabs, InHand
      <4> QED
        BY <2>1, <4>1, <4>3, <4>4, <1>n DEF SlabsCounted
    <3> QED
      BY <2>1, <3>2, <3>3, <1>t, StreamSizes DEF SlabInv, BufferTypes, SlabPlaces, Stages
  <2>4. CASE Queued(n) # <<>>
    <3>1. slabs' = slabs + n /\ WriteNext(Queued(n)) /\ UNCHANGED <<sock, backlog, serving, submitted>>
      BY <1>8, <2>4 DEF Refill
    <3>2. /\ pending' \in Seq(1 .. MaxSlabs) /\ hand' \in 0 .. MaxSlabs /\ hand' # 0
          /\ Len(pending') = Len(pending) + n - 1 /\ InHand' = 1 /\ stage' = "write" /\ InHand = 0
      BY <2>1, <2>2, <2>4, <3>1, WriteNextSlab DEF InHand
    <3>3. SlabsCounted'
      BY <2>1, <3>1, <3>2, <1>t, <1>n DEF SlabsCounted
    <3> QED
      BY <2>1, <2>2, <3>1, <3>2, <3>3, <1>t, <1>k DEF SlabInv, BufferTypes, SlabPlaces, Stages
  <2> QED
    BY <2>3, <2>4
<1>r. ASSUME NEW lost \in {0, 1}, Reading, FailRead(lost), mishaps.torn + lost <= MaxTorn
      PROVE  SlabInv'
  <2>1. stage # "listen" /\ DropSlabs(lost) /\ Stop /\ UNCHANGED <<eof, taken, heard>>
        /\ mishaps' = [Hurt EXCEPT !.torn = Hurt.torn + lost]
    BY <1>r DEF FailRead, Reading, FinishStream
  <2>2. mishaps' \in [torn : 0 .. MaxTorn, hurt : SUBSET Streams] /\ mishaps'.torn = mishaps.torn + lost
    BY <2>1, <1>r, <1>t, <1>n, HurtTypes, StreamSizes
  <2> QED
    BY <2>1, <2>2, <1>h, DroppedSlabs
<1>9. CASE \E lost \in {0, 1} : ReadTimesOut(lost)
  BY <1>9, <1>r DEF ReadTimesOut
<1>10. CASE NoMemory
  <2>1. mishaps.torn + 0 <= MaxTorn
    BY <1>t, StreamSizes DEF SockTypes
  <2> QED
    BY <1>10, <1>r, <2>1 DEF NoMemory
<1>11. CASE GateTimesOut \/ DriverFails \/ WriteFails
  BY <1>11, <1>f, <1>h DEF GateTimesOut, DriverFails, WriteFails, FinishStream
<1> QED
  BY <1>1, <1>2, <1>3, <1>4, <1>5, <1>6, <1>7, <1>8, <1>9, <1>10, <1>11
  DEF PcmStreamTask, PcmProgress

-----------------------------------------------------------------------------
(* Playing and its requests *)

\* What M5.Speaker plays belongs to a caller; a staged session was asked for
\* with its final segment.
Playable(what) ==
    /\ what.kind \in {"staged", "wav"} /\ what.caller \in Callers
    /\ what.kind = "staged" => what.request \in Segments

SpeakerInv ==
    /\ gate \in Gates /\ mic \in BOOLEAN /\ micResume \in BOOLEAN
    /\ playing \in BOOLEAN /\ sounding \in BOOLEAN /\ loop \in {"idle", "starting"}
    /\ sounding => playing
    /\ loop = "starting" => ~playing
    /\ current = <<>> \/ \E what : current = <<what>> /\ Playable(what)
    /\ (loop = "starting" \/ playing) => current # <<>>

StagedSessions == [session : 0 .. MaxStreams, next : 0 .. MaxSegments, segments : Seq(Segments)]

PlayInv ==
    /\ diag \in [session : 0 .. MaxStreams, next : 0 .. MaxSegments]
    /\ staged \in StagedSessions
    /\ waiting \in Seq(Callers) /\ inFlight \in 0 .. MaxStreams /\ starts \in Nat
    /\ spoken \in [Callers -> SUBSET {"staged", "wav"}] /\ whole \subseteq Callers

\* The replies that may come to a request.
RepliesTo(r) ==
    IF r.kind = "play" THEN {"none", "queued"} ELSE {"none", "staged", "playing", "refused"}

RequestInv ==
    /\ requests \in Seq(Requests)
    /\ \/ awaited = <<>> /\ reply = "none"
       \/ \E r \in Requests : awaited = <<r>> /\ reply \in RepliesTo(r)

LEMMA GateTypesKept ==
    ASSUME GateUse, gate \in Gates, [Next]_vars
    PROVE  gate' \in Gates
<1>g. GoodGate(gate)
  <2>1. gate.holder \in {"none", "pcm", "loop"}
    BY DEF Gates, GateTasks
  <2> QED
    BY <2>1 DEF GoodGate, GateUse
<1>1. ASSUME NEW task \in {"pcm", "loop"}, gate' = Give(gate, task) PROVE gate' \in Gates
  BY <1>g, <1>1, GiveGood DEF GoodGate, GateTasks
<1>2. ASSUME NEW task \in {"pcm", "loop"}, NEW owner \in {"pcm-stream", "wav-play", "pcm-play"},
             gate' = Take(gate, task, owner)
      PROVE  gate' \in Gates
  BY <1>g, <1>2, TakeGood DEF GoodGate, GateTasks, GateOwners
<1>3. CASE gate' = gate
  BY <1>3
<1>4. CASE StackchanSay \/ (Breaks /\ UNCHANGED <<playRequestVars, sayVars>>)
  BY <1>3, <1>4, SayKeepsSpeaker DEF speakerVars
<1>5. CASE PcmStreamTask
  BY <1>5, <1>1, <1>2
  DEF PcmStreamTask, PcmProgress, AcceptClient, RefuseHeader, RefuseBusy, ServeClient, EnterGate,
      StartDriver, SlabWritten, ReadPrebuffer, Refill, ReadTimesOut, GateTimesOut, DriverFails,
      WriteFails, NoMemory, FailRead, FinishStream, EndSpeaker, speakerVars
<1>6. CASE LoopTask \/ SpeakerFinishes
  <2>1. ASSUME NEW what, BeginPlaying(what) PROVE gate' \in Gates
    BY <2>1, <1>2 DEF BeginPlaying
  <2> QED
    BY <1>6, <2>1, <1>1
    DEF LoopTask, SpeakerStarts, SpeakerFails, PlaybackFinishes, SpeakerFinishes, HandlePlay,
        WavDownloaded, WavFails, SegmentOutOfSequence, SegmentRefused, SegmentNoMemory,
        SegmentStaged, FinalSegment, ResumeMic, MicRecords, speakerVars
<1>7. CASE UNCHANGED vars
  BY <1>7 DEF vars, tcpVars, speakerVars
<1> QED
  BY <1>4, <1>5, <1>6, <1>7 DEF Next

\* A reply that fits its request, to whoever still waits for it.
LEMMA AnswerFits ==
    ASSUME RequestInv, NEW r \in Requests, NEW answer \in RepliesTo(r), Answer(r, answer),
           requests' \in Seq(Requests)
    PROVE  RequestInv'
<1>1. UNCHANGED awaited /\ reply' = IF awaited = <<r>> THEN answer ELSE reply
  BY DEF Answer
<1>2. CASE awaited = <<r>>
  BY <1>1, <1>2 DEF RequestInv
<1>3. CASE awaited # <<r>>
  BY <1>1, <1>3 DEF RequestInv
<1> QED
  BY <1>2, <1>3

LEMMA RequestsLoop ==
    ASSUME SpeakerInv, RequestInv, LoopTask \/ SpeakerFinishes
    PROVE  RequestInv'
<1>r. requests # <<>> => Head(requests) \in Requests /\ Tail(requests) \in Seq(Requests)
  BY DEF RequestInv
<1>u. ASSUME UNCHANGED requestVars PROVE RequestInv'
  BY <1>u DEF requestVars, RequestInv
<1>s. ASSUME NEW r \in Segments PROVE r \in Requests /\ r.kind = "segment"
  BY DEF Requests, Segments
<1>1. CASE SpeakerStarts \/ SpeakerFails
  <2>1. PICK what : current = <<what>> /\ Playable(what)
    BY <1>1 DEF SpeakerStarts, SpeakerFails, SpeakerInv
  <2>2. Head(current) = what
    BY <2>1
  <2>3. CASE what.kind = "wav"
    BY <1>1, <2>2, <2>3, <1>u DEF SpeakerStarts, SpeakerFails, requestVars
  <2>4. CASE what.kind # "wav"
    <3>1. what.request \in Requests /\ what.request.kind = "segment"
      BY <2>1, <2>4, <1>s DEF Playable
    <3>2. UNCHANGED requests /\ \E answer \in {"playing", "refused"} : Answer(what.request, answer)
      BY <1>1, <2>2, <2>4 DEF SpeakerStarts, SpeakerFails
    <3>3. requests' \in Seq(Requests)
      BY <3>2 DEF RequestInv
    <3> QED
      BY <3>1, <3>2, <3>3, AnswerFits DEF RepliesTo
  <2> QED
    BY <2>3, <2>4
<1>2. CASE PlaybackFinishes \/ SpeakerFinishes \/ WavDownloaded \/ WavFails \/ ResumeMic \/ MicRecords
  BY <1>2, <1>u DEF PlaybackFinishes, SpeakerFinishes, WavDownloaded, WavFails, ResumeMic, MicRecords,
     playRequestVars
<1>3. CASE HandlePlay
  <2>1. requests # <<>> /\ Head(requests).kind = "play" /\ requests' = Tail(requests)
        /\ Answer(Head(requests), "queued")
    BY <1>3 DEF HandlePlay
  <2> QED
    BY <2>1, <1>r, AnswerFits DEF RepliesTo
<1>4. CASE SegmentOutOfSequence \/ SegmentRefused \/ SegmentNoMemory \/ SegmentStaged
  <2>1. /\ requests # <<>> /\ Head(requests).kind = "segment" /\ requests' = Tail(requests)
        /\ \E answer \in {"staged", "refused"} : Answer(Head(requests), answer)
    BY <1>4 DEF SegmentCame, SegmentOutOfSequence, SegmentRefused, SegmentNoMemory, SegmentStaged
  <2> QED
    BY <2>1, <1>r, AnswerFits DEF RepliesTo
<1>5. CASE FinalSegment
  BY <1>5, <1>r DEF FinalSegment, SegmentCame, RequestInv
<1> QED
  BY <1>1, <1>2, <1>3, <1>4, <1>5 DEF LoopTask

LEMMA SpeakerPcm ==
    ASSUME SpeakerInv, PcmStreamTask, UNCHANGED <<playRequestVars, sayVars>>, gate' \in Gates
    PROVE  SpeakerInv'
<1>1. /\ mic' \in BOOLEAN /\ micResume' \in BOOLEAN /\ UNCHANGED playing
      /\ sounding' \in {sounding, FALSE}
  BY DEF SpeakerInv, PcmStreamTask, PcmProgress, AcceptClient, RefuseHeader, RefuseBusy,
     ServeClient, EnterGate, StartDriver, SlabWritten, ReadPrebuffer, Refill, ReadTimesOut,
     GateTimesOut, DriverFails, WriteFails, NoMemory, FailRead, FinishStream, EndSpeaker,
     speakerVars
<1>2. loop' = loop /\ current' = current /\ playing' = playing
  BY <1>1 DEF playRequestVars, playVars
<1>3. sounding' \in BOOLEAN /\ (sounding' => playing')
  <2>1. CASE sounding' = sounding
    BY <1>2, <2>1, Zenon DEF SpeakerInv
  <2>2. CASE sounding' = FALSE
    BY <2>2
  <2> QED
    BY <1>1, <2>1, <2>2
<1>4. /\ playing' \in BOOLEAN /\ loop' \in {"idle", "starting"}
      /\ loop' = "starting" => ~playing'
      /\ (loop' = "starting" \/ playing') => current' # <<>>
  BY <1>2 DEF SpeakerInv
<1>5. current' = <<>> \/ \E what : current' = <<what>> /\ Playable(what)
  BY <1>2 DEF SpeakerInv
<1> QED
  BY <1>1, <1>3, <1>4, <1>5, Zenon DEF SpeakerInv

LEMMA SpeakerLoop ==
    ASSUME SpeakerInv, PlayInv, RequestInv, LoopTask \/ SpeakerFinishes, gate' \in Gates
    PROVE  SpeakerInv'
<1> USE DEF SpeakerInv
<1>b. ASSUME NEW what, Playable(what), BeginPlaying(what), ~playing PROVE SpeakerInv'
  BY <1>b DEF BeginPlaying
<1>1. CASE SpeakerStarts
  BY <1>1 DEF SpeakerStarts
<1>2. CASE SpeakerFails
  <2>1. /\ current' = <<>> /\ loop' = "idle" /\ micResume' \in BOOLEAN /\ ~playing
        /\ UNCHANGED <<mic, playing, sounding>>
    BY <1>2 DEF SpeakerFails, ProcessAudioQueue
  <2> QED
    BY <2>1
<1>3. CASE PlaybackFinishes
  BY <1>3 DEF PlaybackFinishes, ProcessAudioQueue
<1>4. CASE SpeakerFinishes
  BY <1>4 DEF SpeakerFinishes
<1>5. CASE HandlePlay
  BY <1>5 DEF HandlePlay, speakerVars
<1>6. CASE WavDownloaded
  <2>1. inFlight \in Callers
    BY <1>6, StreamSizes DEF WavDownloaded, PlayInv, Callers, Streams
  <2> QED
    BY <1>6, <1>b, <2>1 DEF WavDownloaded, Playable
<1>7. CASE WavFails
  BY <1>7 DEF WavFails, ProcessAudioQueue
<1>8. CASE SegmentOutOfSequence \/ SegmentRefused \/ SegmentNoMemory \/ SegmentStaged
  BY <1>8 DEF SegmentOutOfSequence, SegmentRefused, SegmentNoMemory, SegmentStaged, speakerVars,
     playVars
<1>9. CASE FinalSegment
  <2> DEFINE s == Head(requests)
  <2>1. s \in Requests /\ s.kind = "segment"
    BY <1>9 DEF FinalSegment, SegmentCame, RequestInv
  <2>2. PICK new \in Staging(s) :
           BeginPlaying([kind |-> "staged", caller |-> s.caller, request |-> s,
                         segments |-> new.segments])
    BY <1>9 DEF FinalSegment
  <2>3. ~playing
    BY <1>9 DEF FinalSegment, StagingBusy
  <2> HIDE DEF s
  <2>4. s \in Segments /\ s.caller \in Callers
    BY <2>1, SegmentRequest
  <2> QED
    BY <1>b, <2>2, <2>3, <2>4 DEF Playable
<1>10. CASE ResumeMic
  BY <1>10 DEF ResumeMic, playRequestVars, playVars
<1>11. CASE MicRecords
  <2>1. mic' = TRUE /\ ~playing /\ loop = "idle"
        /\ UNCHANGED <<micResume, playing, sounding, current, loop>>
    BY <1>11 DEF MicRecords, playRequestVars, playVars
  <2> QED
    BY <2>1
<1> QED
  BY <1>1, <1>2, <1>3, <1>4, <1>5, <1>6, <1>7, <1>8, <1>9, <1>10, <1>11 DEF LoopTask

\* processAudioQueue takes the next WAV, if there is one.
LEMMA QueueTypes ==
    ASSUME PlayInv, ProcessAudioQueue
    PROVE  waiting' \in Seq(Callers) /\ inFlight' \in 0 .. MaxStreams
<1>1. CASE waiting # <<>>
  <2>1. Head(waiting) \in Callers /\ Tail(waiting) \in Seq(Callers)
    BY <1>1 DEF PlayInv
  <2> QED
    BY <1>1, <2>1, StreamSizes DEF ProcessAudioQueue, Callers, Streams
<1>2. CASE waiting = <<>>
  BY <1>2, StreamSizes DEF ProcessAudioQueue, PlayInv
<1> QED
  BY <1>1, <1>2

LEMMA NotStagedTypes == NotStaged \in StagedSessions
<1>1. MaxStreams \in Nat /\ MaxSegments \in Nat /\ <<>> \in Seq(Segments)
  BY StreamSizes, PlayAssumption DEF PlayAssumption
<1> QED
  BY <1>1 DEF NotStaged, StagedSessions

LEMMA PlayLoop ==
    ASSUME PlayInv, SpeakerInv, RequestInv, StagedInv, LoopTask \/ SpeakerFinishes
    PROVE  PlayInv'
<1>z. MaxSegments \in Nat /\ MaxStreams \in Nat /\ Callers \subseteq 0 .. MaxStreams
  BY StreamSizes, PlayAssumption DEF PlayAssumption, Callers, Streams
<1>r. requests # <<>> => Head(requests) \in Requests
  BY DEF RequestInv
<1>s. ASSUME NEW s \in Requests, s.kind = "segment"
      PROVE  /\ s \in Segments /\ s.caller \in 0 .. MaxStreams /\ s.seq + 1 \in 0 .. MaxSegments
             /\ s.caller \in Callers
  <2>1. s \in Segments /\ s.caller \in Callers
    BY <1>s, SegmentRequest
  <2>2. s.seq \in 0 .. MaxSegments - 1
    BY <2>1 DEF Segments
  <2>3. s.seq + 1 \in 0 .. MaxSegments
    BY <1>z, <2>2
  <2>4. s.caller \in 0 .. MaxStreams
    BY <1>z, <2>1
  <2> QED
    BY <2>1, <2>3, <2>4
<1>1. CASE SpeakerStarts
  <2>1. PICK what : current = <<what>> /\ Playable(what)
    BY <1>1 DEF SpeakerStarts, SpeakerInv
  <2>2. Head(current) = what
    BY <2>1
  <2>3. spoken' \in [Callers -> SUBSET {"staged", "wav"}]
    <3>1. spoken' = [spoken EXCEPT ![what.caller] = spoken[what.caller] \cup {what.kind}]
      BY <1>1, <2>2 DEF SpeakerStarts
    <3>2. spoken[what.caller] \cup {what.kind} \in SUBSET {"staged", "wav"}
      BY <2>1 DEF PlayInv, Playable
    <3> QED
      BY <3>1, <3>2 DEF PlayInv
  <2>4. diag' \in [session : 0 .. MaxStreams, next : 0 .. MaxSegments] /\ staged' \in StagedSessions
    <3>1. CASE what.kind = "wav"
      BY <1>1, <2>2, <3>1, NotStagedTypes DEF SpeakerStarts, PlayInv
    <3>2. CASE what.kind # "wav"
      <4>1. diag' = [session |-> what.caller, next |-> what.request.seq + 1] /\ UNCHANGED staged
        BY <1>1, <2>2, <3>2 DEF SpeakerStarts
      <4>2. what.request \in Requests /\ what.request.kind = "segment" /\ what.caller \in 0 .. MaxStreams
        BY <1>z, <2>1, <3>2 DEF Playable, Requests, Segments
      <4>3. what.request.seq + 1 \in 0 .. MaxSegments
        BY <4>2, <1>s
      <4> QED
        BY <4>1, <4>2, <4>3 DEF PlayInv
    <3> QED
      BY <3>1, <3>2
  <2>5. starts' \in Nat
    BY <1>1 DEF SpeakerStarts, PlayInv
  <2> QED
    BY <1>1, <2>3, <2>4, <2>5 DEF SpeakerStarts, PlayInv
<1>2. CASE SpeakerFails
  <2>1. waiting' \in Seq(Callers) /\ inFlight' \in 0 .. MaxStreams
    BY <1>2, QueueTypes DEF SpeakerFails, PlayInv
  <2> QED
    BY <1>2, <2>1 DEF SpeakerFails, PlayInv, stagingVars
<1>3. CASE PlaybackFinishes \/ WavFails
  <2>1. waiting' \in Seq(Callers) /\ inFlight' \in 0 .. MaxStreams
    BY <1>3, QueueTypes DEF PlaybackFinishes, WavFails
  <2> QED
    BY <1>3, <2>1 DEF PlaybackFinishes, WavFails, PlayInv, stagingVars
<1>4. CASE SpeakerFinishes
  <2>1. Head(current).caller \in Callers
    BY <1>4 DEF SpeakerFinishes, SpeakerInv, Playable
  <2> QED
    BY <1>4, <2>1 DEF SpeakerFinishes, PlayInv, stagingVars
<1>5. CASE HandlePlay
  <2>1. Head(requests).caller \in Callers
    BY <1>5, <1>r DEF HandlePlay, Requests, Segments
  <2>2. waiting' \in Seq(Callers) /\ inFlight' \in 0 .. MaxStreams
    <3> DEFINE c == Head(requests).caller
    <3>1. waiting' \in {waiting, Append(waiting, c)} /\ inFlight' \in {inFlight, c}
      BY <1>5 DEF HandlePlay
    <3> HIDE DEF c
    <3>2. c \in Callers
      BY <2>1 DEF c
    <3>3. Append(waiting, c) \in Seq(Callers)
      BY <3>2 DEF PlayInv
    <3> QED
      BY <1>z, <3>1, <3>2, <3>3 DEF PlayInv
  <2> QED
    BY <1>5, <2>2 DEF HandlePlay, PlayInv, stagingVars
<1>6. CASE WavDownloaded
  BY <1>6, <1>z DEF WavDownloaded, BeginPlaying, PlayInv, stagingVars
<1>7. CASE SegmentOutOfSequence \/ SegmentRefused \/ SegmentNoMemory
  BY <1>7, NotStagedTypes DEF SegmentOutOfSequence, SegmentRefused, SegmentNoMemory, PlayInv,
     playVars, stagingVars
<1>8. CASE SegmentStaged
  <2> DEFINE s == Head(requests)
  <2>1. s \in Requests /\ s.kind = "segment"
    BY <1>8, <1>r DEF SegmentStaged, SegmentCame
  <2>2. staged' \in Staging(s) /\ diag' = [session |-> s.caller, next |-> s.seq + 1]
        /\ UNCHANGED playVars
    BY <1>8 DEF SegmentStaged
  <2> HIDE DEF s
  <2>3. s.caller \in 0 .. MaxStreams /\ s.seq + 1 \in 0 .. MaxSegments
    BY <1>s, <2>1
  <2>4. staged' = [session |-> s.caller, next |-> s.seq + 1, segments |-> staged'.segments]
    BY <2>2 DEF Staging
  <2>5. staged'.segments \in Seq(Segments)
    BY <2>1, <2>2, StagingExtends
  <2>6. staged' \in StagedSessions
    BY <2>3, <2>4, <2>5 DEF StagedSessions
  <2> QED
    BY <2>2, <2>3, <2>6 DEF PlayInv, playVars
<1>9. CASE FinalSegment
  <2>1. staged' = NotStaged
        /\ UNCHANGED <<diag, waiting, inFlight, starts, spoken, whole>>
    BY <1>9 DEF FinalSegment, BeginPlaying
  <2> QED
    BY <2>1, NotStagedTypes DEF PlayInv
<1>10. CASE ResumeMic \/ MicRecords
  BY <1>10 DEF ResumeMic, MicRecords, playRequestVars, stagingVars, playVars, PlayInv
<1> QED
  BY <1>1, <1>2, <1>3, <1>4, <1>5, <1>6, <1>7, <1>8, <1>9, <1>10 DEF LoopTask

-----------------------------------------------------------------------------
(* The tool *)

Locals == [initial : 0 .. MaxSlabs, posted : 0 .. MaxSegments,
           baseline : [playing : BOOLEAN, known : BOOLEAN, starts : Nat]]

Places == {"idle", "tcp", "greet", "handshake", "stream", "staged", "posted",
           "wav", "play", "playPosted", "wait"}

SayTypes ==
    /\ call \in 0 .. MaxStreams /\ at \in Places /\ (at # "idle" => call \in Streams)
    /\ local \in Locals
    /\ said \in [Callers -> {"none", "tcp", "staged", "wav"}]

\* While a call waits for the reply to a segment, it is a segment it asked for.
SegmentAwaited ==
    at = "posted" => /\ local.posted < MaxSegments
                     /\ \E r \in Requests : awaited = <<r>> /\ r.kind = "segment"

SayInv == SayTypes /\ SegmentAwaited

LEMMA SaySizes ==
    /\ MaxSegments \in Nat /\ MaxSegments > 0 /\ Callers = Streams /\ Streams \subseteq 0 .. MaxStreams
    /\ NoLocals \in Locals
<1>1. MaxSegments \in Nat /\ MaxSegments > 0
  BY PlayAssumption DEF PlayAssumption
<1>2. 0 \in 0 .. MaxSlabs /\ 0 \in 0 .. MaxSegments
  BY <1>1, StreamSizes
<1>3. NoLocals \in Locals
  BY <1>2 DEF NoLocals, NoBaseline, Locals
<1> QED
  BY <1>1, <1>3, StreamSizes DEF Callers, Streams

\* A call goes on with the same variables, with new ones, or ends.
LEMMA GoingOn ==
    ASSUME SayInv, at # "idle",
           \/ \E place \in Places \ {"posted"} :
                 \/ Goto(place)
                 \/ \E locals \in Locals : GotoWith(place, locals)
           \/ \E transport \in {"tcp", "staged", "wav"} : Said(transport)
           \/ Failed \/ FallBack \/ TryStaged
    PROVE  SayInv'
<1> USE DEF SayInv, SayTypes, SegmentAwaited
<1>1. ASSUME NEW place \in Places \ {"posted"}, Goto(place) PROVE SayInv'
  BY <1>1 DEF Goto
<1>2. ASSUME NEW place \in Places \ {"posted"}, NEW locals \in Locals, GotoWith(place, locals)
      PROVE  SayInv'
  BY <1>2 DEF GotoWith
<1>3. ASSUME NEW transport \in {"tcp", "staged", "wav"}, Said(transport) PROVE SayInv'
  BY <1>3, SaySizes DEF Said, Places
<1>4. CASE Failed
  BY <1>4, SaySizes DEF Failed, Places
<1>5. CASE FallBack
  BY <1>5, <1>4, <1>2, SaySizes DEF FallBack, Places
<1>6. CASE TryStaged
  BY <1>6, <1>5, <1>2, SaySizes DEF TryStaged, Places
<1> QED
  BY <1>1, <1>2, <1>3, <1>4, <1>5, <1>6

LEMMA SaySteps ==
    ASSUME SayInv, RequestInv, PlayInv, SpeakerInv, StackchanSay
    PROVE  SayInv'
<1>1. CASE Say
  BY <1>1, StreamSizes
  DEF Say, SayInv, SayTypes, SegmentAwaited, Places, Streams
<1>2. CASE BufferFails \/ ConnectFails \/ NotAccepted \/ StagedSourceFails \/ SegmentLate
           \/ GenerateFails \/ PlayLate \/ WaitTimesOut
  BY <1>2, GoingOn DEF BufferFails, ConnectFails, NotAccepted, StagedSourceFails, SegmentLate,
     GenerateFails, PlayLate, WaitTimesOut
<1>3. CASE OpenStream
  <2>1. PICK n \in 1 .. MaxSlabs : GotoWith("greet", [local EXCEPT !.initial = n])
    BY <1>3 DEF OpenStream
  <2>2. [local EXCEPT !.initial = n] \in Locals
    BY StreamSizes DEF SayInv, SayTypes, Locals
  <2> QED
    BY <1>3, <2>1, <2>2, GoingOn DEF OpenStream, Places
<1>4. CASE Greet \/ SendChunk \/ BaselineFails \/ PostPlay
  BY <1>4, GoingOn DEF Greet, SendChunk, BaselineFails, PostPlay, Places
<1>5. CASE Accepted
  <2>1. [local EXCEPT !.initial = 0] \in Locals
    BY StreamSizes DEF SayInv, SayTypes, Locals
  <2> QED
    BY <1>5, <2>1, GoingOn DEF Accepted, Places
<1>6. CASE StreamBreaks
  BY <1>6, GoingOn DEF StreamBreaks
<1>7. CASE SourceEnds \/ PollStarted
  BY <1>7, GoingOn DEF SourceEnds, PollStarted
<1>8. ASSUME NEW final \in BOOLEAN, PostSegment(final) PROVE SayInv'
  <2> DEFINE r == [caller |-> call, kind |-> "segment", seq |-> local.posted, final |-> final]
  <2>1. at = "staged" /\ local.posted < MaxSegments /\ awaited' = <<r>> /\ Goto("posted")
    BY <1>8 DEF PostSegment, Post
  <2>2. call \in Callers /\ local.posted \in 0 .. MaxSegments
    BY <2>1, SaySizes DEF SayInv, SayTypes, Locals
  <2>3. r \in Requests
    BY <2>1, <2>2, SaySizes DEF Requests, Segments
  <2>4. SegmentAwaited'
    BY <2>1, <2>3 DEF SegmentAwaited, Goto
  <2> QED
    BY <2>1, <2>4 DEF SayInv, SayTypes, Goto, Places
<1>9. CASE SegmentAnswered
  <2>1. PICK r \in Requests : awaited = <<r>> /\ r.kind = "segment"
    BY <1>9 DEF SegmentAnswered, SayInv, SegmentAwaited
  <2>2. reply \in {"staged", "playing", "refused"}
    BY <1>9, <2>1 DEF SegmentAnswered, RequestInv, RepliesTo
  <2>3. at = "posted" /\ local.posted < MaxSegments
    BY <1>9 DEF SegmentAnswered, SayInv, SegmentAwaited
  <2>4. [local EXCEPT !.posted = local.posted + 1] \in Locals
    BY <2>3, SaySizes DEF SayInv, SayTypes, Locals
  <2>5. CASE reply = "staged"
    BY <1>9, <2>3, <2>4, <2>5, GoingOn DEF SegmentAnswered, Places
  <2>6. CASE reply = "playing"
    BY <1>9, <2>3, <2>6, GoingOn DEF SegmentAnswered
  <2>7. CASE reply = "refused"
    BY <1>9, <2>3, <2>7, GoingOn DEF SegmentAnswered
  <2> QED
    BY <2>2, <2>5, <2>6, <2>7
<1>10. CASE ReadBaseline
  <2>1. starts \in Nat /\ DevicePlaying \in BOOLEAN
    BY DEF PlayInv, SpeakerInv, DevicePlaying, isPcmStreamActive
  <2>2. [local EXCEPT !.baseline = [playing |-> DevicePlaying, known |-> TRUE, starts |-> starts]]
           \in Locals
    <3> DEFINE p == DevicePlaying
    <3> HIDE DEF p
    <3>1. [playing |-> p, known |-> TRUE, starts |-> starts]
             \in [playing : BOOLEAN, known : BOOLEAN, starts : Nat]
      BY <2>1 DEF p
    <3>2. ASSUME NEW b \in [playing : BOOLEAN, known : BOOLEAN, starts : Nat]
          PROVE  [local EXCEPT !.baseline = b] \in Locals
      BY DEF SayInv, SayTypes, Locals
    <3> QED
      BY <3>1, <3>2 DEF p
  <2> QED
    BY <1>10, <2>2, GoingOn DEF ReadBaseline, Places
<1>11. CASE PlayAnswered
  BY <1>11, GoingOn DEF PlayAnswered, Places
<1> QED
  BY <1>1, <1>2, <1>3, <1>4, <1>5, <1>6, <1>7, <1>8, <1>9, <1>10, <1>11 DEF StackchanSay

LEMMA RequestsSay ==
    ASSUME RequestInv, SayInv, StackchanSay
    PROVE  RequestInv'
<1>u. ASSUME UNCHANGED requestVars PROVE RequestInv'
  BY <1>u DEF requestVars, RequestInv
<1>w. ASSUME StopWaiting PROVE RequestInv'
  BY <1>w DEF StopWaiting, RequestInv
<1>p. ASSUME NEW r \in Requests, Post(r) PROVE RequestInv'
  <2>1. Append(requests, r) \in Seq(Requests)
    BY DEF RequestInv
  <2> QED
    BY <1>p, <2>1 DEF Post, RequestInv, RepliesTo
<1>1. CASE Say \/ BufferFails \/ ConnectFails \/ StagedSourceFails \/ GenerateFails
           \/ ReadBaseline \/ BaselineFails \/ PollStarted \/ WaitTimesOut
  BY <1>1, <1>u DEF Say, BufferFails, ConnectFails, StagedSourceFails, GenerateFails, ReadBaseline,
     BaselineFails, PollStarted, WaitTimesOut, Locally, playRequestVars
<1>2. CASE OpenStream \/ Greet \/ Accepted \/ NotAccepted \/ SendChunk \/ StreamBreaks \/ SourceEnds
  BY <1>2, <1>u DEF OpenStream, Greet, Accepted, NotAccepted, SendChunk, StreamBreaks, SourceEnds,
     OnSocket, playRequestVars
<1>3. CASE SegmentAnswered \/ SegmentLate \/ PlayAnswered \/ PlayLate
  BY <1>3, <1>w DEF SegmentAnswered, SegmentLate, PlayAnswered, PlayLate
<1>4. ASSUME NEW final \in BOOLEAN, PostSegment(final) PROVE RequestInv'
  <2> DEFINE r == [caller |-> call, kind |-> "segment", seq |-> local.posted, final |-> final]
  <2>1. at = "staged" /\ local.posted < MaxSegments /\ Post(r)
    BY <1>4 DEF PostSegment
  <2>2. call \in Callers /\ local.posted \in 0 .. MaxSegments
    BY <2>1, SaySizes DEF SayInv, SayTypes, Locals
  <2>3. r \in Requests
    BY <2>1, <2>2, SaySizes DEF Requests, Segments
  <2> QED
    BY <2>1, <2>3, <1>p
<1>5. CASE PostPlay
  <2> DEFINE r == [caller |-> call, kind |-> "play"]
  <2>1. Post(r) /\ call \in Callers
    BY <1>5, SaySizes DEF PostPlay, SayInv, SayTypes
  <2>2. r \in Requests
    BY <2>1 DEF Requests
  <2> QED
    BY <2>1, <2>2, <1>p
<1> QED
  BY <1>1, <1>2, <1>3, <1>4, <1>5 DEF StackchanSay

\* The client's side of a connection keeps its type.
LEMMA SocksSay ==
    ASSUME SockTypes, SayInv, StackchanSay
    PROVE  SockTypes'
<1> USE DEF SockTypes
<1>u. UNCHANGED <<serving, stage, mishaps>>
  BY SayKeepsDevice
<1>s. ASSUME UNCHANGED <<sock, backlog>> PROVE SockTypes'
  BY <1>u, <1>s
<1>c. ASSUME NEW s \in Streams, NEW new \in Socks, UNCHANGED backlog, sock' = [sock EXCEPT ![s] = new]
      PROVE  SockTypes'
  BY <1>u, <1>c
<1>1. CASE Say \/ BufferFails \/ ConnectFails \/ StagedSourceFails \/ GenerateFails
           \/ ReadBaseline \/ BaselineFails \/ PollStarted \/ WaitTimesOut
  BY <1>1, <1>s DEF Say, BufferFails, ConnectFails, StagedSourceFails, GenerateFails, ReadBaseline,
     BaselineFails, PollStarted, WaitTimesOut, Locally, tcpVars, taskVars
<1>2. CASE SegmentAnswered \/ SegmentLate \/ (\E final \in BOOLEAN : PostSegment(final))
           \/ PostPlay \/ PlayAnswered \/ PlayLate
  BY <1>2, <1>s DEF SegmentAnswered, SegmentLate, PostSegment, PostPlay, PlayAnswered, PlayLate,
     ByHttp, tcpVars, taskVars
<1>3. CASE OpenStream
  <2>1. call \in Streams /\ Connect(call)
    BY <1>3 DEF OpenStream, SayInv, SayTypes
  <2>2. sock' = [sock EXCEPT ![call] = [sock[call] EXCEPT !.end = "open"]]
        /\ backlog' = Append(backlog, call)
    BY <2>1 DEF Connect
  <2>3. [sock[call] EXCEPT !.end = "open"] \in Socks
    BY <2>1 DEF Socks, Ends
  <2>4. Append(backlog, call) \in Seq(Streams)
    BY <2>1
  <2> QED
    BY <1>u, <2>1, <2>2, <2>3, <2>4
<1>4. CASE Greet
  <2>1. call \in Streams /\ UNCHANGED backlog
        /\ sock' = [sock EXCEPT ![call] = [sock[call] EXCEPT !.header = TRUE]]
    BY <1>4 DEF Greet, SendHeader, SayInv, SayTypes, taskVars
  <2>2. [sock[call] EXCEPT !.header = TRUE] \in Socks
    BY <2>1 DEF Socks
  <2> QED
    BY <2>1, <2>2, <1>c
<1>5. CASE Accepted \/ SendChunk
  <2>1. PICK n \in 0 .. MaxSlabs : SendSlabs(call, n) /\ call \in Streams
    <3>1. call \in Streams
      BY <1>5 DEF Accepted, SendChunk, SayInv, SayTypes
    <3>2. local.initial \in 0 .. MaxSlabs /\ 1 \in 0 .. MaxSlabs
      BY StreamSizes DEF SayInv, SayTypes, Locals
    <3> QED
      BY <1>5, <3>1, <3>2 DEF Accepted, SendChunk
  <2>2. sock[call] \in Socks /\ sock[call].sent + n \in 0 .. MaxSlabs
    BY <2>1, StreamSizes DEF SendSlabs, Socks
  <2>3. [sock[call] EXCEPT !.sent = sock[call].sent + n] \in Socks
    BY <2>2 DEF Socks
  <2>4. sock' = [sock EXCEPT ![call] = [sock[call] EXCEPT !.sent = sock[call].sent + n]]
        /\ UNCHANGED backlog
    BY <2>1 DEF SendSlabs, taskVars
  <2> QED
    BY <2>1, <2>3, <2>4, <1>c
<1>6. CASE NotAccepted \/ StreamBreaks \/ SourceEnds
  <2>1. CloseSocket(call) /\ call \in Streams
    BY <1>6 DEF NotAccepted, StreamBreaks, SourceEnds, SayInv, SayTypes
  <2>2. PICK end \in Ends : sock' = [sock EXCEPT ![call] = [sock[call] EXCEPT !.end = end]]
    <3> DEFINE end == IF sock[call].end = "open" THEN "closed" ELSE sock[call].end
    <3>1. sock[call] \in Socks
      BY <2>1
    <3>2. end \in Ends
      BY <3>1 DEF Socks, Ends
    <3>3. sock' = [sock EXCEPT ![call] = [sock[call] EXCEPT !.end = end]]
      BY <2>1 DEF CloseSocket
    <3> QED
      BY <3>2, <3>3
  <2>3. [sock[call] EXCEPT !.end = end] \in Socks
    BY <2>1 DEF Socks
  <2>4. UNCHANGED backlog
    BY <2>1 DEF CloseSocket, taskVars
  <2> QED
    BY <2>1, <2>2, <2>3, <2>4, <1>c
<1> QED
  BY <1>1, <1>2, <1>3, <1>4, <1>5, <1>6 DEF StackchanSay

LEMMA SocksBreak == ASSUME SockTypes, BufferTypes, Breaks
                    PROVE  SockTypes' /\ mishaps'.torn = mishaps.torn
<1>1. PICK s \in Streams : NetworkBreaks(s)
  BY DEF Breaks
<1>2. PICK n \in (IF s = serving THEN taken ELSE 0) .. sock[s].sent :
         sock' = [sock EXCEPT ![s] = [sock[s] EXCEPT !.end = "reset", !.sent = n]]
  BY <1>1 DEF NetworkBreaks
<1>3. sock[s] \in Socks /\ n \in 0 .. MaxSlabs
  <2>1. sock[s] \in Socks
    BY DEF SockTypes
  <2>2. sock[s].sent \in 0 .. MaxSlabs /\ taken \in 0 .. MaxSlabs
    BY <2>1 DEF Socks, BufferTypes
  <2> QED
    BY <2>1, <2>2, StreamSizes
<1>4. [sock[s] EXCEPT !.end = "reset", !.sent = n] \in Socks
  BY <1>3 DEF Socks, Ends
<1>5. UNCHANGED <<serving, stage, backlog>> /\ mishaps' = [mishaps EXCEPT !.hurt = mishaps.hurt \cup {s}]
  BY <1>1 DEF NetworkBreaks, taskVars
<1> QED
  BY <1>2, <1>4, <1>5 DEF SockTypes

-----------------------------------------------------------------------------
(* All of it *)

SpeechInv == GateUse /\ StagedInv /\ SlabInv /\ SpeakerInv /\ PlayInv /\ RequestInv /\ SayInv

LEMMA SpeechStep == SpeechInv /\ [Next]_vars => SpeechInv'
<1> SUFFICES ASSUME SpeechInv, [Next]_vars PROVE SpeechInv'
  OBVIOUS
<1>i. GateUse /\ StagedInv /\ SlabInv /\ SpeakerInv /\ PlayInv /\ RequestInv /\ SayInv
  BY DEF SpeechInv
<1>g. gate' \in Gates
  BY <1>i, GateTypesKept DEF SpeakerInv
\* What follows from the parts that a step leaves alone.
<1>gate. ASSUME UNCHANGED <<stage, speakerVars, loop>> PROVE GateUse'
  BY <1>i, <1>gate DEF GateUse, Keeping, speakerVars
<1>staged. ASSUME UNCHANGED <<staged, current>>, RequestInv' PROVE StagedInv'
  BY <1>i, <1>staged DEF StagedInv, RequestInv
<1>slab. ASSUME UNCHANGED <<stage, bufferVars>>, SockTypes', mishaps'.torn = mishaps.torn PROVE SlabInv'
  BY <1>i, <1>slab DEF SlabInv, BufferTypes, SlabsCounted, SlabPlaces, InHand, bufferVars
<1>speaker. ASSUME UNCHANGED <<speakerVars, loop, current>> PROVE SpeakerInv'
  BY <1>i, <1>speaker, Zenon DEF SpeakerInv, speakerVars
<1>play. ASSUME UNCHANGED <<stagingVars, waiting, inFlight, starts, spoken, whole>> PROVE PlayInv'
  BY <1>i, <1>play DEF PlayInv, stagingVars
<1>request. ASSUME UNCHANGED requestVars PROVE RequestInv'
  BY <1>i, <1>request DEF RequestInv, requestVars
<1>say. ASSUME UNCHANGED <<sayVars, awaited>> PROVE SayInv'
  BY <1>i, <1>say DEF SayInv, SayTypes, SegmentAwaited, sayVars
<1>1. CASE StackchanSay
  <2>1. UNCHANGED <<serving, stage, speakerVars, loop, current, staged, diag, bufferVars>>
    BY <1>1, SayKeepsSpeaker
  <2>2. UNCHANGED <<mishaps, waiting, inFlight, starts, spoken, whole>>
    BY <1>1, SayKeepsDevice DEF playVars
  <2>3. RequestInv' /\ SayInv' /\ SockTypes'
    BY <1>1, <1>i, RequestsSay, SaySteps, SocksSay DEF SlabInv
  <2> QED
    BY <2>1, <2>2, <2>3, <1>gate, <1>staged, <1>slab, <1>speaker, <1>play DEF SpeechInv, stagingVars
<1>2. CASE Breaks /\ UNCHANGED <<playRequestVars, sayVars>>
  <2>1. UNCHANGED <<serving, stage, speakerVars, loop, current, staged, diag, bufferVars>>
    BY <1>2, SayKeepsSpeaker
  <2>2. SockTypes' /\ mishaps'.torn = mishaps.torn
    BY <1>2, <1>i, SocksBreak DEF SlabInv
  <2>3. UNCHANGED <<requestVars, awaited, stagingVars, waiting, inFlight, starts, spoken, whole, sayVars>>
    BY <1>2 DEF playRequestVars, playVars, requestVars
  <2> QED
    BY <2>1, <2>2, <2>3, <1>gate, <1>staged, <1>slab, <1>speaker, <1>play, <1>request, <1>say
    DEF SpeechInv
<1>3. CASE PcmStreamTask /\ UNCHANGED <<playRequestVars, sayVars>>
  <2>1. UNCHANGED <<requestVars, awaited, stagingVars, staged, current, waiting, inFlight, starts,
                    spoken, whole, sayVars>>
    BY <1>3 DEF playRequestVars, playVars, requestVars, stagingVars
  <2>2. GateUse' /\ SlabInv' /\ SpeakerInv'
    BY <1>3, <1>i, <1>g, GateUsePcm, SlabsPcm, SpeakerPcm
  <2> QED
    BY <2>1, <2>2, <1>staged, <1>play, <1>request, <1>say DEF SpeechInv
<1>4. CASE (LoopTask \/ SpeakerFinishes) /\ UNCHANGED sayVars
  <2>1. GateUse' /\ StagedInv' /\ SpeakerInv' /\ PlayInv' /\ RequestInv'
    BY <1>4, <1>i, <1>g, GateUseLoop, StagedLoop, SpeakerLoop, PlayLoop, RequestsLoop
  <2>2. UNCHANGED <<streamVars, awaited>>
    BY <1>4 DEF LoopTask, SpeakerStarts, SpeakerFails, PlaybackFinishes, SpeakerFinishes,
       HandlePlay, WavDownloaded, WavFails, SegmentOutOfSequence, SegmentRefused, SegmentNoMemory,
       SegmentStaged, FinalSegment, ResumeMic, MicRecords, Answer, requestVars, playRequestVars
  <2>3. SlabInv'
    BY <2>2, <1>i, <1>slab DEF streamVars, taskVars, SlabInv, SockTypes
  <2> QED
    BY <1>4, <2>1, <2>2, <2>3, <1>say DEF SpeechInv
<1>5. CASE UNCHANGED vars
  <2>1. UNCHANGED <<sock, backlog, serving, stage, bufferVars, speakerVars, mishaps>>
        /\ UNCHANGED <<requestVars, awaited, stagingVars, staged, current, waiting, inFlight, starts,
                       loop, spoken, whole, sayVars>>
    BY <1>5 DEF vars, tcpVars, taskVars, playRequestVars, playVars, requestVars, stagingVars
  <2>2. SockTypes'
    BY <2>1, <1>i DEF SlabInv, SockTypes
  <2> QED
    BY <2>1, <2>2, <1>gate, <1>staged, <1>slab, <1>speaker, <1>play, <1>request, <1>say DEF SpeechInv
<1> QED
  BY <1>1, <1>2, <1>3, <1>4, <1>5 DEF Next

LEMMA SpeechHolds == Spec => []SpeechInv
<1>1. SpeechInit => SpeechInv
  <2> SUFFICES ASSUME SpeechInit PROVE SpeechInv
    OBVIOUS
  <2>1. TcpInit /\ PlayInit /\ call = 0 /\ at = "idle" /\ local = NoLocals
        /\ said = [c \in Callers |-> "none"]
    BY DEF SpeechInit
  <2>2. GateUse
    BY <2>1 DEF TcpInit, PlayInit, GateUse, Keeping, FreeGate
  <2>3. StagedInv
    BY <2>1, NotStagedInv DEF PlayInit, StagedInv, NotStaged
  <2>4. NoSock \in Socks /\ NoMishaps \in [torn : 0 .. MaxTorn, hurt : SUBSET Streams]
    BY StreamSizes DEF NoSock, Socks, Ends, NoMishaps
  <2>5. SockTypes
    BY <2>1, <2>4, StreamSizes DEF TcpInit, SockTypes, Stages
  <2>6. BufferTypes
    <3>1. <<>> \in Seq(1 .. MaxSlabs) /\ 0 \in 0 .. MaxSlabs /\ 0 \in 0 .. 2
      BY StreamSizes
    <3>2. heard \in [Streams -> Seq(1 .. MaxSlabs)]
      BY <2>1, <3>1 DEF TcpInit
    <3> QED
      BY <2>1, <3>1, <3>2 DEF TcpInit, BufferTypes
  <2>7. SlabsCounted /\ SlabPlaces
    <3>1. Len(pending) = 0 /\ submitted = 0 /\ InHand = 0 /\ mishaps.torn = 0 /\ slabs = 0
      BY <2>1 DEF TcpInit, InHand, NoMishaps
    <3> QED
      BY <2>1, <3>1 DEF TcpInit, SlabsCounted, SlabPlaces, Stages
  <2>8. SpeakerInv
    BY <2>1 DEF TcpInit, PlayInit, SpeakerInv, FreeGate, Gates, GateTasks, GateOwners
  <2>9. PlayInv
    BY <2>1, NotStagedTypes, SaySizes, StreamSizes DEF PlayInit, PlayInv
  <2>10. RequestInv
    BY <2>1 DEF PlayInit, RequestInv
  <2>11. SayInv
    BY <2>1, SaySizes, StreamSizes DEF SayInv, SayTypes, SegmentAwaited, Places
  <2> QED
    BY <2>2, <2>3, <2>5, <2>6, <2>7, <2>8, <2>9, <2>10, <2>11 DEF SpeechInv, SlabInv
<1> QED
  BY <1>1, SpeechStep, PTL DEF Spec

\* The device, the network and the tool keep their types (Speech!TypeOK).
THEOREM TypeCorrect == Spec => []TypeOK
<1>1. SpeechInv => TypeOK
  <2> SUFFICES ASSUME SpeechInv PROVE TypeOK
    OBVIOUS
  <2>1. StreamTypes
    <3>1. slabs \in Nat
      <4>1. Len(pending) \in Nat /\ submitted \in Nat /\ mishaps.torn \in Nat /\ InHand \in Nat
        BY StreamSizes DEF SpeechInv, SlabInv, BufferTypes, SockTypes, InHand
      <4> QED
        BY <4>1 DEF SpeechInv, SlabInv, SlabsCounted
    <3> QED
      BY <3>1 DEF SpeechInv, SlabInv, BufferTypes, SockTypes, Stages, StreamTypes
  <2>2. SpeakerTypes
    BY DEF SpeechInv, SpeakerInv, SlabInv, SockTypes, SpeakerTypes
  <2>3. awaited \in Seq(Requests) /\ Len(awaited) <= 1
    <3>1. awaited = <<>> \/ \E r \in Requests : awaited = <<r>>
      BY DEF SpeechInv, RequestInv
    <3>2. ASSUME NEW r \in Requests, awaited = <<r>>
          PROVE  awaited \in Seq(Requests) /\ Len(awaited) <= 1
      <4>1. <<r>> \in Seq(Requests) /\ Len(<<r>>) = 1
        OBVIOUS
      <4> QED
        BY <3>2, <4>1
    <3>3. ASSUME awaited = <<>> PROVE awaited \in Seq(Requests) /\ Len(awaited) <= 1
      <4>1. <<>> \in Seq(Requests) /\ Len(<<>>) = 0
        OBVIOUS
      <4> QED
        BY <3>3, <4>1
    <3> QED
      BY <3>1, <3>2, <3>3
  <2>4. StagedTypes
    BY <2>3 DEF SpeechInv, PlayInv, RequestInv, StagedTypes, StagedSessions
  <2>5. reply \in {"none", "queued", "staged", "playing", "refused"}
    BY DEF SpeechInv, RequestInv, RepliesTo
  <2>6. (loop = "starting" \/ playing \/ sounding) => Len(current) = 1
    BY DEF SpeechInv, SpeakerInv
  <2>7. PlayTypes
    BY <2>5, <2>6 DEF SpeechInv, PlayInv, SpeakerInv, PlayTypes
  <2> QED
    BY <2>1, <2>2, <2>4, <2>7 DEF SpeechInv, SayInv, SayTypes, TypeOK, Places, Locals
<1> QED
  BY <1>1, SpeechHolds, PTL

\* A staged session is played whole, in order and alone (PlayRequests!StagedWhole).
THEOREM StagedSessionsAreWhole == Spec => []StagedWhole
<1>1. SpeechInv => StagedWhole
  BY DEF SpeechInv, StagedInv, Complete, StagedWhole
<1> QED
  BY <1>1, SpeechHolds, PTL

\* However a TCP stream ends, its slabs are freed (TcpStream!SlabsFreed).
THEOREM SlabsAreFreed == Spec => []SlabsFreed
<1>1. SpeechInv => SlabsFreed
  <2> SUFFICES ASSUME SpeechInv, stage \in {"listen", "header"} PROVE slabs = mishaps.torn
    BY DEF SlabsFreed
  <2>1. Len(pending) = 0 /\ submitted = 0 /\ InHand = 0 /\ mishaps.torn \in Nat
    BY StreamSizes DEF SpeechInv, SlabInv, SlabPlaces, SockTypes, Stages, InHand
  <2> QED
    BY <2>1 DEF SpeechInv, SlabInv, SlabsCounted
<1> QED
  BY <1>1, SpeechHolds, PTL

-----------------------------------------------------------------------------
(* Spoken once *)

IsFinal(r, c) == r.kind = "segment" /\ r.final /\ r.caller = c
IsPlay(r, c) == r.kind = "play" /\ r.caller = c

HasFinal(q, c) == \E i \in DOMAIN q : IsFinal(q[i], c)
OneFinal(q, c) == \A i, j \in DOMAIN q : IsFinal(q[i], c) /\ IsFinal(q[j], c) => i = j
HasPlay(q, c) == \E i \in DOMAIN q : IsPlay(q[i], c)

\* The playback that is being started is a play of this kind for c.
Starting(kind, c) == loop = "starting" /\ Head(current).kind = kind /\ Head(current).caller = c

\* By each transport: c was heard, or what it asked for may still be heard.
ByTcp(c) == sock[c].sent > 0 \/ heard[c] # <<>>
ByStaged(c) == "staged" \in spoken[c] \/ HasFinal(requests, c) \/ Starting("staged", c)
ByWav(c) ==
    \/ "wav" \in spoken[c] \/ HasPlay(requests, c) \/ Starting("wav", c)
    \/ inFlight = c \/ \E i \in DOMAIN waiting : waiting[i] = c

\* The call of c has come to one of these places, and no further but to its end.
Past(c, places) == c < call \/ (c = call /\ at \in places \cup {"idle"})

\* A call that may be heard by one transport goes to no other.
Exclusive(c) ==
    /\ ByTcp(c) => Past(c, {"stream"})
    /\ ByStaged(c) => Past(c, {"posted"})
    /\ ByWav(c) => Past(c, {"playPosted", "wait"})
    /\ ~(ByTcp(c) /\ ByStaged(c)) /\ ~(ByTcp(c) /\ ByWav(c)) /\ ~(ByStaged(c) /\ ByWav(c))

\* The final segment of c is at one place only.
FinalOnce(c) ==
    /\ OneFinal(requests, c)
    /\ HasFinal(requests, c) => ~Starting("staged", c) /\ "staged" \notin spoken[c]
    /\ Starting("staged", c) => "staged" \notin spoken[c] /\ Head(current).request.caller = c

\* A final segment that was refused is nowhere any more.
Refused ==
    at = "posted" =>
        /\ awaited[1].caller = call
        /\ ~awaited[1].final \/ reply = "refused" => \A c \in Callers : c = call => ~ByStaged(c)
        /\ awaited[1].final => reply # "staged"

\* What pcmStreamTask has read was sent.
ReadWasSent ==
    stage \notin {"listen", "header"} =>
        /\ taken <= sock[serving].sent
        /\ pending # <<>> \/ hand # 0 => taken > 0

OnceInv == (\A c \in Callers : Exclusive(c) /\ FinalOnce(c)) /\ Refused /\ ReadWasSent

\* The queue of requests without its first, and with one more.
LEMMA FirstServed ==
    ASSUME NEW q \in Seq(Requests), q # <<>>, NEW c
    PROVE  /\ HasFinal(Tail(q), c) => HasFinal(q, c)
           /\ HasPlay(Tail(q), c) => HasPlay(q, c)
           /\ OneFinal(q, c) => OneFinal(Tail(q), c)
           /\ IsFinal(Head(q), c) => HasFinal(q, c)
           /\ IsPlay(Head(q), c) => HasPlay(q, c)
           /\ OneFinal(q, c) /\ IsFinal(Head(q), c) => ~HasFinal(Tail(q), c)
<1>1. 1 \in DOMAIN q /\ Head(q) = q[1]
  OBVIOUS
<1>2. \A i \in DOMAIN Tail(q) : i + 1 \in DOMAIN q /\ Tail(q)[i] = q[i + 1] /\ i + 1 # 1 /\ i \in Nat
  OBVIOUS
<1>3. OneFinal(q, c) => OneFinal(Tail(q), c)
  <2> SUFFICES ASSUME OneFinal(q, c), NEW i \in DOMAIN Tail(q), NEW j \in DOMAIN Tail(q),
                      IsFinal(Tail(q)[i], c), IsFinal(Tail(q)[j], c)
               PROVE  i = j
    BY DEF OneFinal
  <2>1. i + 1 = j + 1 /\ i \in Nat /\ j \in Nat
    BY <1>2 DEF OneFinal
  <2> QED
    BY <2>1
<1>4. OneFinal(q, c) /\ IsFinal(Head(q), c) => ~HasFinal(Tail(q), c)
  BY <1>1, <1>2 DEF OneFinal, HasFinal
<1> QED
  BY <1>1, <1>2, <1>3, <1>4 DEF HasFinal, HasPlay

LEMMA OnePosted ==
    ASSUME NEW q \in Seq(Requests), NEW r \in Requests, NEW c
    PROVE  /\ HasFinal(Append(q, r), c) <=> HasFinal(q, c) \/ IsFinal(r, c)
           /\ HasPlay(Append(q, r), c) <=> HasPlay(q, c) \/ IsPlay(r, c)
           /\ OneFinal(q, c) /\ ~(HasFinal(q, c) /\ IsFinal(r, c)) => OneFinal(Append(q, r), c)
<1>1. /\ DOMAIN Append(q, r) = DOMAIN q \cup {Len(q) + 1}
      /\ Append(q, r)[Len(q) + 1] = r /\ \A i \in DOMAIN q : Append(q, r)[i] = q[i]
  OBVIOUS
<1> HIDE DEF IsFinal
<1> QED
  BY <1>1, Zenon DEF HasFinal, HasPlay, OneFinal

\* What the loop task does never lets a caller be heard by a new transport.
LEMMA OnceLoop ==
    ASSUME SpeechInv, OnceInv, LoopTask \/ SpeakerFinishes, UNCHANGED sayVars
    PROVE  OnceInv'
<1>t. /\ requests \in Seq(Requests) /\ waiting \in Seq(Callers)
      /\ spoken \in [Callers -> SUBSET {"staged", "wav"}]
  BY DEF SpeechInv, RequestInv, PlayInv
<1>o. \A c \in Callers : Exclusive(c) /\ OneFinal(requests, c)
                         /\ (HasFinal(requests, c) => ~Starting("staged", c) /\ "staged" \notin spoken[c])
                         /\ (Starting("staged", c) => "staged" \notin spoken[c]
                                                      /\ Head(current).request.caller = c)
  BY DEF OnceInv, FinalOnce
<1>p. call' = call /\ at' = at /\ sock' = sock /\ heard' = heard /\ ReadWasSent'
  BY DEF LoopTask, SpeakerStarts, SpeakerFails, PlaybackFinishes, SpeakerFinishes, HandlePlay,
     WavDownloaded, WavFails, SegmentOutOfSequence, SegmentRefused, SegmentNoMemory, SegmentStaged,
     FinalSegment, ResumeMic, MicRecords, streamVars, taskVars, bufferVars, sayVars, OnceInv, ReadWasSent
<1>a. awaited' = awaited
  BY DEF LoopTask, SpeakerStarts, SpeakerFails, PlaybackFinishes, SpeakerFinishes, HandlePlay,
     WavDownloaded, WavFails, SegmentOutOfSequence, SegmentRefused, SegmentNoMemory, SegmentStaged,
     FinalSegment, ResumeMic, MicRecords, Answer, requestVars, playRequestVars
\* It is enough that no caller gains a transport.
<1>k. ASSUME \A c \in Callers : /\ ByStaged(c)' => ByStaged(c)
                                /\ ByWav(c)' => ByWav(c)
                                /\ FinalOnce(c)',
             at = "posted" /\ reply' # reply =>
                /\ reply' = "refused" /\ awaited[1].final => \A c \in Callers : c = call => ~ByStaged(c)'
                /\ awaited[1].final => reply' # "staged"
      PROVE  OnceInv'
  <2>1. ASSUME NEW c \in Callers PROVE Exclusive(c)'
    <3>1. Exclusive(c) /\ (ByStaged(c)' => ByStaged(c)) /\ (ByWav(c)' => ByWav(c))
      BY <1>k, <1>o
    <3>2. ByTcp(c)' <=> ByTcp(c)
      BY <1>p DEF ByTcp
    <3>3. \A places : Past(c, places)' <=> Past(c, places)
      BY <1>p DEF Past
    <3> QED
      BY <3>1, <3>2, <3>3 DEF Exclusive
  <2>2. Refused'
    <3> SUFFICES ASSUME at = "posted"
                 PROVE  /\ awaited[1].caller = call
                        /\ ~awaited[1].final \/ reply' = "refused" => \A c \in Callers : c = call => ~ByStaged(c)'
                        /\ awaited[1].final => reply' # "staged"
      BY <1>p, <1>a DEF Refused
    <3>1. Refused
      BY DEF OnceInv
    <3> QED
      BY <1>k, <3>1 DEF Refused
  <2> QED
    BY <1>k, <1>p, <2>1, <2>2 DEF OnceInv
\* A step that starts no playback, ends none, and leaves the requests alone.
<1>q. ASSUME UNCHANGED <<requests, reply, current, loop, spoken>>,
             \A c \in Callers : ByWav(c)' => ByWav(c)
      PROVE  OnceInv'
  <2>1. \A c \in Callers : /\ ByStaged(c)' => ByStaged(c)
                           /\ FinalOnce(c)'
    BY <1>q, <1>o DEF ByStaged, FinalOnce, Starting
  <2> QED
    BY <1>q, <1>k, <2>1
\* A request is taken up and answered, and nothing is started.
<1>r. ASSUME requests # <<>>, requests' = Tail(requests), UNCHANGED <<current, loop, spoken>>,
             NEW answer \in {"queued", "staged", "refused"}, Answer(Head(requests), answer),
             answer = "staged" => ~Head(requests).final /\ Head(requests).kind = "segment",
             answer = "queued" => Head(requests).kind = "play",
             answer = "refused" => Head(requests).kind = "segment",
             \A c \in Callers : ByWav(c)' => ByWav(c)
      PROVE  OnceInv'
  <2> DEFINE s == Head(requests)
  <2>1. ASSUME NEW c \in Callers
        PROVE  (ByStaged(c)' => ByStaged(c)) /\ FinalOnce(c)'
               /\ (IsFinal(s, c) => ~ByStaged(c)')
    <3>1. /\ HasFinal(requests', c) => HasFinal(requests, c)
          /\ OneFinal(requests', c)
          /\ IsFinal(s, c) => HasFinal(requests, c) /\ ~HasFinal(requests', c)
      BY <1>r, <1>t, <1>o, FirstServed
    <3>2. /\ Starting("staged", c)' <=> Starting("staged", c)
          /\ spoken'[c] = spoken[c]
      BY <1>r DEF Starting
    <3>3. FinalOnce(c)'
      BY <1>r, <1>o, <3>1, <3>2 DEF FinalOnce
    <3> QED
      BY <1>o, <3>1, <3>2, <3>3 DEF ByStaged
  <2>2. ASSUME at = "posted", reply' # reply
        PROVE  /\ reply' = "refused" /\ awaited[1].final => \A c \in Callers : c = call => ~ByStaged(c)'
               /\ awaited[1].final => reply' # "staged"
    <3>1. awaited = <<s>> /\ reply' = answer
      BY <1>r, <2>2 DEF Answer
    <3>2. awaited[1] = s /\ s.caller = call
      BY <3>1, <2>2 DEF OnceInv, Refused
    <3>3. reply' = "refused" /\ s.final => IsFinal(s, call)
      BY <1>r, <3>1, <3>2 DEF IsFinal
    <3> QED
      BY <1>r, <2>1, <2>2, <3>1, <3>2, <3>3
  <2>3. \A c \in Callers : /\ ByStaged(c)' => ByStaged(c)
                           /\ ByWav(c)' => ByWav(c)
                           /\ FinalOnce(c)'
    BY <1>r, <2>1
  <2> QED
    BY <1>k, <2>2, <2>3
<1>w. ASSUME ProcessAudioQueue, UNCHANGED <<requests, spoken>>,
             \A c \in Callers : ~Starting("wav", c)'
      PROVE  \A c \in Callers : ByWav(c)' => ByWav(c)
  <2>1. CASE waiting # <<>>
    <3>1. inFlight' = waiting[1] /\ 1 \in DOMAIN waiting
          /\ \A i \in DOMAIN Tail(waiting) : i + 1 \in DOMAIN waiting /\ Tail(waiting)[i] = waiting[i + 1]
      BY <1>t, <2>1, <1>w DEF ProcessAudioQueue
    <3>2. waiting' = Tail(waiting)
      BY <2>1, <1>w DEF ProcessAudioQueue
    <3> QED
      BY <1>w, <3>1, <3>2 DEF ByWav
  <2>2. CASE waiting = <<>>
    <3>1. inFlight' = 0 /\ waiting' = waiting /\ \A c \in Callers : c # 0
      BY <2>2, <1>w DEF ProcessAudioQueue, Callers, Streams
    <3> QED
      BY <1>w, <3>1 DEF ByWav
  <2> QED
    BY <2>1, <2>2
<1>1. CASE SpeakerStarts
  <2>1. PICK what : current = <<what>> /\ Playable(what) /\ Head(current) = what
    BY <1>1 DEF SpeakerStarts, SpeechInv, SpeakerInv
  <2>2. /\ loop = "starting" /\ loop' = "idle" /\ UNCHANGED <<requests, waiting, inFlight, current>>
        /\ spoken' = [spoken EXCEPT ![what.caller] = spoken[what.caller] \cup {what.kind}]
        /\ reply' \in {reply, "playing"}
    BY <1>1, <2>1 DEF SpeakerStarts, requestVars, Answer
  <2>3. ASSUME NEW c \in Callers
        PROVE  /\ ByStaged(c)' => ByStaged(c)
               /\ ByWav(c)' => ByWav(c)
               /\ FinalOnce(c)'
    <3>1. spoken'[c] = IF c = what.caller THEN spoken[c] \cup {what.kind} ELSE spoken[c]
      BY <1>t, <2>2
    <3>2. "staged" \in spoken'[c] => "staged" \in spoken[c] \/ Starting("staged", c)
      BY <2>1, <2>2, <3>1 DEF Starting
    <3>3. "wav" \in spoken'[c] => "wav" \in spoken[c] \/ Starting("wav", c)
      BY <2>1, <2>2, <3>1 DEF Starting
    <3>4. ~Starting("staged", c)' /\ ~Starting("wav", c)'
      BY <2>2 DEF Starting
    <3>5. FinalOnce(c)'
      BY <1>o, <2>2, <3>2, <3>4 DEF FinalOnce
    <3> QED
      BY <2>2, <3>2, <3>3, <3>4, <3>5 DEF ByStaged, ByWav
  <2> QED
    BY <1>k, <2>2, <2>3
<1>2. CASE SpeakerFails
  <2>1. PICK what : current = <<what>> /\ Playable(what) /\ Head(current) = what
    BY <1>2 DEF SpeakerFails, SpeechInv, SpeakerInv
  <2>2. /\ loop = "starting" /\ loop' = "idle" /\ UNCHANGED <<requests, spoken>>
        /\ \A c \in Callers, kind \in {"staged", "wav"} : ~Starting(kind, c)'
    BY <1>2 DEF SpeakerFails, Starting, requestVars
  <2>3. \A c \in Callers : (ByStaged(c)' => ByStaged(c)) /\ FinalOnce(c)'
    BY <1>o, <2>2 DEF ByStaged, FinalOnce
  <2>4. CASE what.kind = "wav"
    <3>1. ProcessAudioQueue /\ UNCHANGED reply
      BY <1>2, <2>1, <2>4 DEF SpeakerFails, requestVars
    <3> QED
      BY <1>k, <1>w, <2>2, <2>3, <3>1
  <2>5. CASE what.kind # "wav"
    <3>1. UNCHANGED <<waiting, inFlight>> /\ Answer(what.request, "refused")
      BY <1>2, <2>1, <2>5 DEF SpeakerFails
    <3>2. \A c \in Callers : ByWav(c)' => ByWav(c)
      BY <2>2, <3>1 DEF ByWav
    <3>3. ASSUME at = "posted", reply' # reply 
          PROVE  reply' = "refused" /\ \A c \in Callers : c = call => ~ByStaged(c)'
      <4>1. awaited[1] = what.request /\ reply' = "refused"
        BY <3>1, <3>3 DEF Answer
      <4>2. Starting("staged", what.caller) /\ what.caller \in Callers
        BY <2>1, <2>2, <2>5 DEF Starting, Playable
      <4>3. what.request.caller = what.caller /\ what.request.caller = call
        BY <1>o, <2>1, <3>3, <4>1, <4>2 DEF OnceInv, Refused
      <4>4. "staged" \notin spoken[call] /\ ~HasFinal(requests, call)
        BY <1>o, <4>2, <4>3
      <4> QED
        BY <2>2, <3>3, <4>1, <4>4 DEF ByStaged
    <3> QED
      BY <1>k, <2>3, <3>2, <3>3
  <2> QED
    BY <2>4, <2>5
<1>3. CASE PlaybackFinishes
  <2>1. /\ loop = "idle" /\ loop' = "idle" /\ UNCHANGED <<requests, reply, spoken>> /\ ProcessAudioQueue
    BY <1>3 DEF PlaybackFinishes, requestVars
  <2>2. \A c \in Callers, kind \in {"staged", "wav"} : ~Starting(kind, c)'
    BY <2>1 DEF Starting
  <2>3. \A c \in Callers : (ByStaged(c)' => ByStaged(c)) /\ FinalOnce(c)'
    BY <1>o, <2>1, <2>2 DEF ByStaged, FinalOnce
  <2> QED
    BY <1>k, <1>w, <2>1, <2>2, <2>3
<1>4. CASE SpeakerFinishes \/ ResumeMic \/ MicRecords
  <2>1. UNCHANGED <<requests, reply, current, loop, spoken, waiting, inFlight>>
    BY <1>4 DEF SpeakerFinishes, ResumeMic, MicRecords, playRequestVars, requestVars, playVars
  <2> QED
    BY <1>q, <2>1 DEF ByWav, Starting
<1>5. CASE WavFails
  <2>1. /\ loop = "idle" /\ UNCHANGED <<requests, reply, current, loop, spoken>> /\ ProcessAudioQueue
    BY <1>5 DEF WavFails, requestVars
  <2>2. \A c \in Callers : ~Starting("wav", c)'
    BY <2>1 DEF Starting
  <2> QED
    BY <1>q, <1>w, <2>1, <2>2
<1>6. CASE WavDownloaded
  <2>1. /\ UNCHANGED <<requests, reply, spoken, waiting>> /\ inFlight' = 0
        /\ Head(current') = [kind |-> "wav", caller |-> inFlight]
    BY <1>6 DEF WavDownloaded, BeginPlaying, requestVars
  <2>2. \A c \in Callers : ~Starting("staged", c)' /\ (Starting("wav", c)' => inFlight = c)
    BY <2>1 DEF Starting
  <2>3. \A c \in Callers : c # 0
    BY DEF Callers, Streams
  <2>4. \A c \in Callers : /\ ByStaged(c)' => ByStaged(c)
                           /\ ByWav(c)' => ByWav(c)
                           /\ FinalOnce(c)'
    BY <1>o, <2>1, <2>2, <2>3 DEF ByStaged, ByWav, FinalOnce
  <2> QED
    BY <1>k, <2>1, <2>4
<1>7. CASE HandlePlay
  <2> DEFINE d == Head(requests).caller
  <2>1. /\ requests # <<>> /\ Head(requests).kind = "play" /\ requests' = Tail(requests)
        /\ Answer(Head(requests), "queued") /\ UNCHANGED <<current, loop, spoken>>
        /\ \/ waiting' = Append(waiting, d) /\ UNCHANGED inFlight
           \/ inFlight' = d /\ UNCHANGED waiting
    BY <1>7 DEF HandlePlay
  <2>2. ASSUME NEW c \in Callers PROVE ByWav(c)' => ByWav(c)
    <3>1. /\ HasPlay(requests', c) => HasPlay(requests, c)
          /\ c = d => HasPlay(requests, c)
      BY <1>t, <2>1, FirstServed DEF IsPlay
    <3>2. d \in Callers
      <4>1. Head(requests) \in Requests
        BY <1>t, <2>1
      <4> QED
        BY <4>1 DEF Requests, Segments
    <3>3. inFlight' = c => inFlight = c \/ c = d
      BY <2>1
    <3>4. (\E i \in DOMAIN waiting' : waiting'[i] = c) => (\E i \in DOMAIN waiting : waiting[i] = c) \/ c = d
      <4> HIDE DEF d
      <4>1. CASE waiting' = Append(waiting, d)
        <5>1. /\ DOMAIN waiting' = DOMAIN waiting \cup {Len(waiting) + 1}
              /\ waiting'[Len(waiting) + 1] = d /\ \A i \in DOMAIN waiting : waiting'[i] = waiting[i]
          BY <1>t, <3>2, <4>1
        <5> QED
          BY <5>1
      <4>2. CASE waiting' = waiting
        BY <4>2
      <4> QED
        BY <2>1, <4>1, <4>2
    <3>5. Starting("wav", c)' <=> Starting("wav", c)
      BY <2>1 DEF Starting
    <3> QED
      BY <2>1, <3>1, <3>3, <3>4, <3>5 DEF ByWav
  <2> QED
    BY <1>r, <2>1, <2>2
<1>8. CASE SegmentOutOfSequence \/ SegmentRefused \/ SegmentNoMemory \/ SegmentStaged
  <2>1. PICK answer \in {"staged", "refused"} :
           /\ requests # <<>> /\ Head(requests).kind = "segment" /\ requests' = Tail(requests)
           /\ Answer(Head(requests), answer) /\ (answer = "staged" => ~Head(requests).final)
           /\ UNCHANGED <<current, loop, spoken, waiting, inFlight>>
    BY <1>8 DEF SegmentCame, SegmentOutOfSequence, SegmentRefused, SegmentNoMemory, SegmentStaged,
       playVars
  <2>2. \A c \in Callers : HasPlay(requests', c) => HasPlay(requests, c)
    BY <1>t, <2>1, FirstServed
  <2>3. \A c \in Callers : ByWav(c)' => ByWav(c)
    BY <2>1, <2>2 DEF ByWav, Starting
  <2> QED
    BY <1>r, <2>1, <2>3
<1>9. CASE FinalSegment
  <2> DEFINE s == Head(requests)
  <2>1. /\ requests # <<>> /\ s.kind = "segment" /\ s.final /\ requests' = Tail(requests)
        /\ UNCHANGED <<reply, spoken, waiting, inFlight>>
        /\ Head(current').kind = "staged" /\ Head(current').caller = s.caller
        /\ Head(current').request = s
    BY <1>9 DEF FinalSegment, SegmentCame, BeginPlaying
  <2>2. ASSUME NEW c \in Callers
        PROVE  /\ ByStaged(c)' => ByStaged(c)
               /\ ByWav(c)' => ByWav(c)
               /\ FinalOnce(c)'
    <3>1. /\ HasFinal(requests', c) => HasFinal(requests, c)
          /\ HasPlay(requests', c) => HasPlay(requests, c)
          /\ OneFinal(requests', c)
          /\ IsFinal(s, c) => HasFinal(requests, c) /\ ~HasFinal(requests', c)
      BY <1>t, <1>o, <2>1, FirstServed
    <3>2. /\ Starting("staged", c)' => IsFinal(s, c) /\ Head(current').request.caller = c
          /\ ~Starting("wav", c)'
      BY <2>1 DEF Starting, IsFinal
    <3>3. FinalOnce(c)'
      BY <1>o, <2>1, <3>1, <3>2 DEF FinalOnce
    <3> QED
      BY <2>1, <3>1, <3>2, <3>3 DEF ByStaged, ByWav
  <2> QED
    BY <1>k, <2>1, <2>2
<1> QED
  BY <1>1, <1>2, <1>3, <1>4, <1>5, <1>6, <1>7, <1>8, <1>9 DEF LoopTask

\* What the stream and the network do never lets a caller be heard who has sent
\* nothing.
LEMMA OnceStream ==
    ASSUME SpeechInv, OnceInv, UNCHANGED <<playRequestVars, sayVars>>,
           \A c \in Callers : ByTcp(c)' => ByTcp(c),
           ReadWasSent'
    PROVE  OnceInv'
<1>1. /\ UNCHANGED <<requests, awaited, reply, current, waiting, inFlight, loop, spoken>>
      /\ UNCHANGED <<call, at>>
  BY DEF playRequestVars, requestVars, playVars, sayVars
<1>2. ASSUME NEW c \in Callers PROVE Exclusive(c)' /\ FinalOnce(c)'
  <2>1. Exclusive(c) /\ FinalOnce(c) /\ (ByTcp(c)' => ByTcp(c))
    BY DEF OnceInv
  <2>2. (ByStaged(c)' <=> ByStaged(c)) /\ (ByWav(c)' <=> ByWav(c))
    BY <1>1 DEF ByStaged, ByWav, Starting
  <2>3. FinalOnce(c)'
    BY <1>1, <2>1 DEF FinalOnce, Starting
  <2>4. \A places : Past(c, places)' <=> Past(c, places)
    BY <1>1 DEF Past
  <2> QED
    BY <2>1, <2>2, <2>3, <2>4 DEF Exclusive
<1>3. Refused'
  <2>1. \A c \in Callers : ByStaged(c)' => ByStaged(c)
    BY <1>1 DEF ByStaged, Starting
  <2> QED
    BY <1>1, <2>1 DEF OnceInv, Refused
<1> QED
  BY <1>2, <1>3 DEF OnceInv

LEMMA OncePcm ==
    ASSUME SpeechInv, OnceInv, PcmStreamTask, UNCHANGED <<playRequestVars, sayVars>>
    PROVE  OnceInv'
<1>t. SockTypes /\ BufferTypes /\ SlabPlaces /\ ReadWasSent
  BY DEF SpeechInv, SlabInv, OnceInv
<1>n. /\ taken \in Nat /\ stage \in Stages /\ sock \in [Streams -> Socks]
      /\ stage # "listen" => serving \in Streams /\ sock[serving].sent \in Nat
  BY <1>t, StreamSizes DEF BufferTypes, SockTypes, Socks
\* The device answers and hangs up, but what was sent stays what it was.
<1>h. ASSUME stage # "listen", NEW answer, HangUp(answer)
      PROVE  stage' = "listen" /\ \A c \in Streams : sock'[c].sent = sock[c].sent
  <2>1. sock' = [sock EXCEPT ![serving] = [sock[serving] EXCEPT !.stopped = TRUE, !.reply = answer]]
    BY <1>h, <1>n DEF HangUp
  <2>2. [sock[serving] EXCEPT !.stopped = TRUE, !.reply = answer].sent = sock[serving].sent
    BY <1>h, <1>n DEF Socks
  <2> QED
    BY <1>h, <1>n, <2>1, <2>2 DEF HangUp
<1>s. ASSUME stage # "listen", Stop
      PROVE  stage' = "listen" /\ \A c \in Streams : sock'[c].sent = sock[c].sent
  BY <1>h, <1>s DEF Stop
<1>e. ASSUME \A c \in Streams : sock'[c].sent = sock[c].sent, UNCHANGED heard, ReadWasSent'
      PROVE  OnceInv'
  BY <1>e, SaySizes, OnceStream DEF ByTcp
<1>l. ASSUME stage # "listen", Stop, UNCHANGED heard PROVE OnceInv'
  BY <1>l, <1>s, <1>e DEF ReadWasSent
<1>1. CASE AcceptClient
  BY <1>1, <1>e DEF AcceptClient, ReadWasSent, bufferVars
<1>2. CASE RefuseHeader \/ RefuseBusy
  BY <1>2, <1>h, <1>e DEF RefuseHeader, RefuseBusy, ReadWasSent, bufferVars
<1>3. CASE ServeClient
  <2>1. /\ stage = "header" /\ taken' = 0 /\ UNCHANGED <<serving, heard, pending, hand>>
        /\ sock' = [sock EXCEPT ![serving] = [sock[serving] EXCEPT !.reply = "OK"]]
    BY <1>3, <1>n DEF ServeClient
  <2>2. [sock[serving] EXCEPT !.reply = "OK"].sent = sock[serving].sent
    BY <1>n, <2>1 DEF Socks
  <2>3. \A c \in Streams : sock'[c].sent = sock[c].sent
    BY <1>n, <2>1, <2>2
  <2>4. pending = <<>> /\ hand = 0
    BY <1>t, <2>1 DEF SlabPlaces
  <2>5. ReadWasSent'
    BY <1>n, <2>1, <2>3, <2>4 DEF ReadWasSent
  <2> QED
    BY <1>e, <2>1, <2>3, <2>5
\* A slab that is read was sent.
<1>a. ASSUME NEW n \in {0, 1}, NEW end \in BOOLEAN, Arrives(n, end), stage \in {"prebuffer", "refill"},
             taken' = taken + n, UNCHANGED <<sock, serving, heard>>,
             pending' # <<>> \/ hand' # 0 => n = 1 \/ pending # <<>> \/ hand # 0
      PROVE  OnceInv'
  <2>1. n = 1 => taken < sock[serving].sent
    BY <1>a DEF Arrives
  <2>2. taken <= sock[serving].sent /\ (pending # <<>> \/ hand # 0 => taken > 0)
    BY <1>a, <1>t DEF ReadWasSent
  <2>3. taken' <= sock[serving].sent /\ taken' >= taken /\ (n = 1 => taken' > 0)
    BY <1>a, <1>n, <2>1, <2>2
  <2>4. ReadWasSent'
    BY <1>a, <1>n, <2>2, <2>3 DEF ReadWasSent
  <2> QED
    BY <1>a, <1>e, <2>4
<1>4. ASSUME NEW n \in {0, 1}, NEW end \in BOOLEAN, ReadPrebuffer(n, end) PROVE OnceInv'
  <2>1. CASE Queued(n) = <<>>
    BY <1>4, <1>l, <2>1 DEF ReadPrebuffer
  <2>2. CASE Queued(n) # <<>>
    <3>1. /\ Arrives(n, end) /\ stage = "prebuffer" /\ taken' = taken + n
          /\ UNCHANGED <<sock, serving, heard, hand>> /\ pending' = Queued(n)
      BY <1>4, <2>2 DEF ReadPrebuffer
    <3>2. n = 1 \/ pending' = pending
      BY <3>1 DEF Queued
    <3> QED
      BY <1>a, <3>1, <3>2
  <2> QED
    BY <2>1, <2>2
<1>5. ASSUME NEW n \in {0, 1}, NEW end \in BOOLEAN, Refill(n, end) PROVE OnceInv'
  <2>1. CASE Queued(n) = <<>>
    BY <1>5, <1>l, <2>1 DEF Refill, FinishStream
  <2>2. CASE Queued(n) # <<>>
    <3>1. /\ Arrives(n, end) /\ stage = "refill" /\ taken' = taken + n
          /\ UNCHANGED <<sock, serving, heard>>
      BY <1>5, <2>2 DEF Refill
    <3>2. n = 1 \/ pending # <<>>
      BY <2>2 DEF Queued
    <3> QED
      BY <1>a, <3>1, <3>2
  <2> QED
    BY <2>1, <2>2
<1>6. CASE EnterGate
  BY <1>6, <1>e, <1>t DEF EnterGate, bufferVars, ReadWasSent
<1>7. CASE StartDriver
  <2>1. /\ stage = "settle" /\ stage' = "write" /\ UNCHANGED <<sock, serving, taken, heard>>
        /\ pending # <<>>
    BY <1>7, <1>t DEF StartDriver, WriteNext, SlabPlaces
  <2> QED
    BY <1>e, <1>t, <2>1 DEF ReadWasSent
<1>8. CASE SlabWritten
  <2>1. stage = "write" /\ hand # 0 /\ UNCHANGED <<taken, mishaps>>
        /\ heard' = [heard EXCEPT ![serving] = Append(heard[serving], hand)]
    BY <1>8, <1>t DEF SlabWritten, SlabPlaces
  <2>2. taken > 0 /\ taken <= sock[serving].sent /\ sock[serving].sent > 0
    BY <1>t, <1>n, <2>1 DEF ReadWasSent
  <2>3. /\ \A c \in Streams : sock'[c].sent = sock[c].sent
        /\ stage' = "listen" \/ UNCHANGED <<sock, serving>>
    <3>1. CASE eof /\ pending = <<>>
      BY <1>8, <1>s, <2>1, <3>1 DEF SlabWritten, FinishStream
    <3>2. CASE ~(eof /\ pending = <<>>)
      BY <1>8, <3>2 DEF SlabWritten
    <3> QED
      BY <3>1, <3>2
  <2>4. ReadWasSent'
    BY <2>1, <2>2, <2>3 DEF ReadWasSent
  <2>5. ASSUME NEW c \in Callers, ByTcp(c)' PROVE ByTcp(c)
    <3>1. c \in Streams
      BY SaySizes
    <3>2. CASE c = serving
      BY <2>2, <3>2 DEF ByTcp
    <3>3. CASE c # serving
      <4>1. heard'[c] = heard[c] /\ sock'[c].sent = sock[c].sent
        BY <1>t, <2>1, <2>3, <3>1, <3>3 DEF BufferTypes
      <4> QED
        BY <2>5, <4>1 DEF ByTcp
    <3> QED
      BY <3>2, <3>3
  <2> QED
    BY <2>4, <2>5, OnceStream
<1>9. CASE (\E lost \in {0, 1} : ReadTimesOut(lost)) \/ NoMemory
  <2>1. stage # "listen" /\ Stop /\ UNCHANGED heard
    BY <1>9 DEF ReadTimesOut, NoMemory, FailRead, Reading, FinishStream
  <2> QED
    BY <1>l, <2>1
<1>10. CASE GateTimesOut \/ DriverFails \/ WriteFails
  BY <1>10, <1>l DEF GateTimesOut, DriverFails, WriteFails, FinishStream
<1> QED
  BY <1>1, <1>2, <1>3, <1>4, <1>5, <1>6, <1>7, <1>8, <1>9, <1>10 DEF PcmStreamTask, PcmProgress

LEMMA OnceBreaks ==
    ASSUME SpeechInv, OnceInv, Breaks, UNCHANGED <<playRequestVars, sayVars>>
    PROVE  OnceInv'
<1>t. SockTypes /\ BufferTypes /\ ReadWasSent
  BY DEF SpeechInv, SlabInv, OnceInv
<1>1. PICK s \in Streams : NetworkBreaks(s)
  BY DEF Breaks
<1>2. PICK n \in (IF s = serving THEN taken ELSE 0) .. sock[s].sent :
         sock' = [sock EXCEPT ![s] = [sock[s] EXCEPT !.end = "reset", !.sent = n]]
  BY <1>1 DEF NetworkBreaks
<1>3. UNCHANGED <<serving, stage, heard, taken, pending, hand>>
  BY <1>1 DEF NetworkBreaks, taskVars, bufferVars
<1>4. /\ sock'[s].sent = n /\ \A c \in Streams \ {s} : sock'[c].sent = sock[c].sent
      /\ n \in Nat /\ n <= sock[s].sent /\ (s = serving => taken <= n)
  <2>1. sock[s] \in Socks /\ sock[s].sent \in Nat /\ taken \in Nat
    BY <1>t, StreamSizes DEF SockTypes, Socks, BufferTypes
  <2>2. [sock[s] EXCEPT !.end = "reset", !.sent = n].sent = n
    BY <2>1 DEF Socks
  <2>3. n \in Nat /\ n <= sock[s].sent /\ (s = serving => taken <= n)
    BY <2>1
  <2> QED
    BY <1>2, <1>t, <2>2, <2>3 DEF SockTypes
<1>5. ReadWasSent'
  BY <1>3, <1>4, <1>t DEF ReadWasSent, SockTypes
<1>6. ASSUME NEW c \in Callers, ByTcp(c)' PROVE ByTcp(c)
  <2>1. c \in Streams /\ sock[c].sent \in Nat
    BY <1>t, SaySizes, StreamSizes DEF SockTypes, Socks
  <2> QED
    BY <1>3, <1>4, <1>6, <2>1 DEF ByTcp
<1> QED
  BY <1>5, <1>6, OnceStream

\* A call goes on, posts nothing, and sends slabs only to the stream that accepted it.
LEMMA OnceGoesOn ==
    ASSUME SpeechInv, OnceInv, StackchanSay, at # "idle",
           UNCHANGED <<call, requests>>, at' # "posted",
           \A c \in Streams :
               \/ sock'[c].sent = sock[c].sent
               \/ c = call /\ at \in {"handshake", "stream"} /\ at' = "stream"
                  /\ sock'[c].sent >= sock[c].sent,
           at = "stream" => at' \in {"stream", "idle"},
           at \in {"playPosted", "wait"} => at' \in {"playPosted", "wait", "idle"},
           at = "posted" => at' = "idle" \/ \A c \in Callers : c = call => ~ByStaged(c)
    PROVE  OnceInv'
<1>1. UNCHANGED <<serving, stage, heard, taken, pending, hand, current, loop, spoken, inFlight, waiting>>
  BY SayKeepsDevice DEF bufferVars, playVars
<1>2. /\ \A c \in Streams : sock[c].sent \in Nat
      /\ taken \in Nat /\ call \in Nat /\ Callers = Streams /\ Streams \subseteq Nat
      /\ stage # "listen" => serving \in Streams
  <2>1. SockTypes /\ BufferTypes /\ SayTypes
    BY DEF SpeechInv, SlabInv, SayInv
  <2>2. \A c \in Streams : sock[c] \in Socks /\ sock[c].sent \in Nat
    BY <2>1, StreamSizes DEF SockTypes, Socks
  <2>3. taken \in Nat /\ call \in Nat
    BY <2>1, StreamSizes DEF BufferTypes, SayTypes
  <2>4. stage # "listen" => serving \in Streams
    BY <2>1 DEF SockTypes
  <2> QED
    BY <2>2, <2>3, <2>4, SaySizes DEF Streams
<1>4. ASSUME NEW c \in Callers PROVE Exclusive(c)' /\ FinalOnce(c)'
  <2>1. Exclusive(c) /\ FinalOnce(c)
    BY DEF OnceInv
  <2>2. (ByStaged(c)' <=> ByStaged(c)) /\ (ByWav(c)' <=> ByWav(c))
    BY <1>1 DEF ByStaged, ByWav, Starting
  <2>3. FinalOnce(c)'
    BY <1>1, <2>1 DEF FinalOnce, Starting
  <2>4. c \in Streams /\ c \in Nat
    BY <1>2
  <2>5. CASE sock'[c].sent = sock[c].sent
    <3>1. ByTcp(c)' <=> ByTcp(c)
      BY <1>1, <2>5 DEF ByTcp
    <3>2. ByTcp(c) => Past(c, {"stream"})'
      BY <2>1 DEF Exclusive, Past
    <3>3. ByStaged(c) => Past(c, {"posted"})'
      BY <2>1 DEF Exclusive, Past
    <3>4. ByWav(c) => Past(c, {"playPosted", "wait"})'
      BY <2>1 DEF Exclusive, Past
    <3> QED
      BY <2>1, <2>2, <2>3, <3>1, <3>2, <3>3, <3>4 DEF Exclusive
  <2>6. CASE sock'[c].sent # sock[c].sent
    <3>1. c = call /\ at \in {"handshake", "stream"} /\ at' = "stream"
      BY <2>4, <2>6
    <3>2. ~ByStaged(c) /\ ~ByWav(c)
      BY <2>1, <2>4, <3>1 DEF Exclusive, Past
    <3>3. Past(c, {"stream"})'
      BY <3>1 DEF Past
    <3> QED
      BY <2>2, <2>3, <3>2, <3>3 DEF Exclusive
  <2> QED
    BY <2>5, <2>6
<1>5. Refused'
  BY DEF Refused
<1>6. ReadWasSent'
  <2> SUFFICES ASSUME stage \notin {"listen", "header"}
               PROVE  taken <= sock'[serving].sent /\ (pending # <<>> \/ hand # 0 => taken > 0)
    BY <1>1 DEF ReadWasSent
  <2>1. /\ serving \in Streams /\ taken <= sock[serving].sent
        /\ pending # <<>> \/ hand # 0 => taken > 0
    BY <1>2 DEF OnceInv, ReadWasSent
  <2>2. CASE sock'[serving].sent = sock[serving].sent
    BY <2>1, <2>2
  <2>3. CASE sock'[serving].sent # sock[serving].sent
    <3>1. sock'[serving].sent >= sock[serving].sent
      BY <2>1, <2>3
    <3>2. SockTypes'
      BY SocksSay DEF SpeechInv, SlabInv
    <3>3. serving' = serving /\ sock'[serving].sent \in Nat
      BY <1>1, <2>1, <3>2, StreamSizes DEF SockTypes, Socks
    <3>4. sock[serving].sent \in Nat
      BY <1>2, <2>1
    <3> QED
      BY <1>2, <2>1, <3>1, <3>3, <3>4
  <2> QED
    BY <2>2, <2>3
<1> QED
  BY <1>4, <1>5, <1>6 DEF OnceInv

\* A new call has not been heard.
LEMMA OnceCalls == ASSUME SpeechInv, OnceInv, Say PROVE OnceInv'
<1>1. /\ at = "idle" /\ call' = call + 1 /\ call \in Nat /\ at' # "posted"
      /\ \A c \in Callers : c \in Nat
  BY SaySizes, StreamSizes DEF Say, SpeechInv, SayInv, SayTypes, Streams
<1>2. UNCHANGED <<sock, serving, stage, heard, taken, pending, hand, requests, current, loop, spoken,
                  inFlight, waiting>>
  BY DEF Say, Locally, tcpVars, taskVars, bufferVars, playRequestVars, requestVars, playVars
<1>3. ASSUME NEW c \in Callers PROVE Exclusive(c)' /\ FinalOnce(c)'
  <2>1. Exclusive(c) /\ FinalOnce(c)
    BY DEF OnceInv
  <2>2. (ByTcp(c)' <=> ByTcp(c)) /\ (ByStaged(c)' <=> ByStaged(c)) /\ (ByWav(c)' <=> ByWav(c))
    BY <1>2 DEF ByTcp, ByStaged, ByWav, Starting
  <2>3. \A places : Past(c, places) => c < call'
    BY <1>1 DEF Past
  <2>4. \A places : Past(c, places) => Past(c, places)'
    BY <2>3 DEF Past
  <2>5. FinalOnce(c)'
    BY <1>2, <2>1 DEF FinalOnce, Starting
  <2> QED
    BY <2>1, <2>2, <2>4, <2>5 DEF Exclusive
<1>4. Refused' /\ ReadWasSent'
  BY <1>1, <1>2 DEF OnceInv, Refused, ReadWasSent
<1> QED
  BY <1>3, <1>4 DEF OnceInv

\* A request is posted at a place where the call cannot have been heard.
LEMMA OncePosts ==
    ASSUME SpeechInv, OnceInv, StackchanSay,
           NEW r \in Requests, r.caller = call, Post(r), UNCHANGED <<call, sock>>,
           \/ at = "staged" /\ at' = "posted" /\ r.kind = "segment"
           \/ at = "play" /\ at' = "playPosted" /\ r.kind = "play"
    PROVE  OnceInv'
<1>1. UNCHANGED <<serving, stage, heard, taken, pending, hand, current, loop, spoken, inFlight, waiting>>
  BY SayKeepsDevice DEF bufferVars, playVars
<1>2. /\ requests \in Seq(Requests) /\ requests' = Append(requests, r)
      /\ awaited' = <<r>> /\ reply' = "none"
      /\ call \in Nat /\ \A c \in Callers : c \in Nat
  BY SaySizes, StreamSizes DEF SpeechInv, RequestInv, SayInv, SayTypes, Streams, Post
<1>3. ASSUME NEW c \in Callers PROVE Exclusive(c)' /\ FinalOnce(c)' /\ (c = call => ~ByStaged(c))
                                    /\ (ByStaged(c)' => ByStaged(c) \/ IsFinal(r, c))
  <2>1. Exclusive(c) /\ FinalOnce(c)
    BY DEF OnceInv
  <2>2. c = call => ~ByTcp(c) /\ ~ByStaged(c) /\ ~ByWav(c)
    BY <1>2, <2>1 DEF Exclusive, Past
  <2>3. /\ HasFinal(requests', c) <=> HasFinal(requests, c) \/ IsFinal(r, c)
        /\ HasPlay(requests', c) <=> HasPlay(requests, c) \/ IsPlay(r, c)
        /\ ~HasFinal(requests, c) \/ ~IsFinal(r, c) => OneFinal(requests', c)
    BY <1>2, <2>1, OnePosted DEF FinalOnce
  <2>4. (IsFinal(r, c) => c = call /\ at' = "posted") /\ (IsPlay(r, c) => c = call /\ at' = "playPosted")
    BY DEF IsFinal, IsPlay
  <2>5. ByTcp(c)' <=> ByTcp(c)
    BY <1>1 DEF ByTcp
  <2>6. (ByStaged(c)' <=> ByStaged(c) \/ IsFinal(r, c)) /\ (ByWav(c)' <=> ByWav(c) \/ IsPlay(r, c))
    BY <1>1, <2>3 DEF ByStaged, ByWav, Starting
  <2>7. c # call => \A places : Past(c, places) => c < call
    BY DEF Past
  <2>8. Exclusive(c)'
    <3>1. CASE c = call
      <4>1. ~IsFinal(r, c) \/ ~IsPlay(r, c)
        BY DEF IsFinal, IsPlay
      <4>2. ~ByTcp(c)' /\ (ByStaged(c)' => IsFinal(r, c)) /\ (ByWav(c)' => IsPlay(r, c))
        BY <2>2, <2>5, <2>6, <3>1
      <4>3. (IsFinal(r, c) => Past(c, {"posted"})') /\ (IsPlay(r, c) => Past(c, {"playPosted", "wait"})')
        BY <2>4 DEF Past
      <4> QED
        BY <4>1, <4>2, <4>3 DEF Exclusive
    <3>2. CASE c # call
      <4>1. /\ ByStaged(c)' <=> ByStaged(c)
            /\ ByWav(c)' <=> ByWav(c)
        BY <2>4, <2>6, <3>2
      <4>2. \A places : Past(c, places) => Past(c, places)'
        BY <2>7, <3>2 DEF Past
      <4> QED
        BY <2>1, <2>5, <4>1, <4>2 DEF Exclusive
    <3> QED
      BY <3>1, <3>2
  <2>9. FinalOnce(c)'
    <3>1. IsFinal(r, c) => ~HasFinal(requests, c) /\ ~Starting("staged", c) /\ "staged" \notin spoken[c]
      BY <2>2, <2>4 DEF ByStaged
    <3>2. (Starting("staged", c)' <=> Starting("staged", c)) /\ spoken' = spoken /\ current' = current
      BY <1>1 DEF Starting
    <3> QED
      BY <2>1, <2>3, <3>1, <3>2 DEF FinalOnce
  <2> QED
    BY <2>2, <2>6, <2>8, <2>9
<1>4. Refused'
  <2> SUFFICES ASSUME at' = "posted"
               PROVE  ~r.final => \A c \in Callers : c = call => ~ByStaged(c)'
    BY <1>2 DEF Refused
  <2> QED
    BY <1>3 DEF IsFinal
<1>5. ReadWasSent'
  BY <1>1 DEF OnceInv, ReadWasSent
<1> QED
  BY <1>3, <1>4, <1>5 DEF OnceInv

\* The client closes its connection, and what it sent stays sent.
LEMMA HangsUp ==
    ASSUME NEW s \in Streams, sock \in [Streams -> Socks], CloseSocket(s)
    PROVE  \E new \in Socks : sock' = [sock EXCEPT ![s] = new] /\ new.sent = sock[s].sent
<1> DEFINE end == IF sock[s].end = "open" THEN "closed" ELSE sock[s].end
<1>1. sock[s] \in Socks
  OBVIOUS
<1>2. end \in Ends
  BY <1>1 DEF Socks, Ends
<1> HIDE DEF end
<1>3. [sock[s] EXCEPT !.end = end] \in Socks /\ [sock[s] EXCEPT !.end = end].sent = sock[s].sent
  BY <1>1, <1>2 DEF Socks
<1>4. sock' = [sock EXCEPT ![s] = [sock[s] EXCEPT !.end = end]]
  BY DEF CloseSocket, end
<1> QED
  BY <1>3, <1>4

\* When neither a final segment nor a stream that has begun is given up for
\* another transport.
LEMMA OnceSay ==
    ASSUME "final" \notin LateReplies, "ValueError" \notin StreamErrors,
           SpeechInv, OnceInv, StackchanSay
    PROVE  OnceInv'
<1>t. SockTypes /\ (at # "idle" => call \in Callers)
  BY SaySizes DEF SpeechInv, SlabInv, SayInv, SayTypes
<1>1. CASE Say
  BY <1>1, OnceCalls
\* Nothing is sent and nothing is posted.
<1>k. ASSUME UNCHANGED <<call, requests>>, \A c \in Streams : sock'[c].sent = sock[c].sent,
             at \notin {"idle", "stream", "posted"}, at' # "posted",
             at \in {"playPosted", "wait"} => at' \in {"playPosted", "wait", "idle"}
      PROVE  OnceInv'
  BY <1>k, OnceGoesOn
<1>f. ASSUME FallBack \/ TryStaged \/ Failed \/ Goto("play") \/ (\E l : GotoWith("play", l))
      PROVE  call' = call /\ at' \in {"idle", "wav", "staged", "play"}
  BY <1>f DEF FallBack, TryStaged, Failed, Goto, GotoWith
<1>2. CASE BufferFails \/ ConnectFails \/ StagedSourceFails \/ ReadBaseline \/ BaselineFails
           \/ GenerateFails
  <2>1. UNCHANGED <<sock, requests>>
    BY <1>2 DEF BufferFails, ConnectFails, StagedSourceFails, GenerateFails, ReadBaseline,
       BaselineFails, Locally, tcpVars, playRequestVars, requestVars
  <2>2. at \in {"tcp", "staged", "wav"}
    BY <1>2 DEF BufferFails, ConnectFails, StagedSourceFails, GenerateFails, ReadBaseline, BaselineFails
  <2>3. call' = call /\ at' \in {"idle", "wav", "staged", "play"}
    BY <1>2, <1>f DEF BufferFails, ConnectFails, StagedSourceFails, GenerateFails, ReadBaseline,
       BaselineFails
  <2> QED
    BY <1>k, <2>1, <2>2, <2>3
<1>3. CASE PollStarted \/ WaitTimesOut
  BY <1>3, <1>k DEF PollStarted, WaitTimesOut, Said, Failed, Locally, tcpVars, playRequestVars, requestVars
<1>4. CASE OpenStream \/ Greet \/ NotAccepted
  <2>1. /\ call' = call /\ requests' = requests
        /\ at \in {"tcp", "greet", "handshake"} /\ at' # "posted"
    <3>1. CASE OpenStream \/ Greet
      BY <3>1 DEF OpenStream, Greet, Goto, GotoWith, OnSocket, playRequestVars, requestVars
    <3>2. CASE NotAccepted
      BY <3>2, <1>f DEF NotAccepted, OnSocket, playRequestVars, requestVars
    <3> QED
      BY <1>4, <3>1, <3>2
  <2>c. call \in Streams
    BY <1>t, <2>1, SaySizes
  <2>2. PICK new \in Socks : sock' = [sock EXCEPT ![call] = new] /\ new.sent = sock[call].sent
    <3>1. sock[call] \in Socks
      BY <1>t, <2>c DEF SockTypes
    <3>2. CASE OpenStream
      <4>1. sock' = [sock EXCEPT ![call] = [sock[call] EXCEPT !.end = "open"]]
        BY <3>2 DEF OpenStream, Connect
      <4>2. [sock[call] EXCEPT !.end = "open"] \in Socks
            /\ [sock[call] EXCEPT !.end = "open"].sent = sock[call].sent
        BY <3>1 DEF Socks, Ends
      <4> QED
        BY <4>1, <4>2
    <3>3. CASE Greet
      <4>1. sock' = [sock EXCEPT ![call] = [sock[call] EXCEPT !.header = TRUE]]
        BY <3>3 DEF Greet, SendHeader
      <4>2. [sock[call] EXCEPT !.header = TRUE] \in Socks
            /\ [sock[call] EXCEPT !.header = TRUE].sent = sock[call].sent
        BY <3>1 DEF Socks
      <4> QED
        BY <4>1, <4>2
    <3>4. CASE NotAccepted
      BY <1>t, <2>c, <3>4, HangsUp DEF NotAccepted, SockTypes
    <3> QED
      BY <1>4, <3>2, <3>3, <3>4
  <2>3. \A c \in Streams : sock'[c].sent = sock[c].sent
    BY <1>t, <2>c, <2>2 DEF SockTypes
  <2> QED
    BY <1>k, <2>1, <2>3
<1>5. CASE Accepted \/ SendChunk
  <2>1. /\ call \in Streams /\ UNCHANGED <<call, requests>>
        /\ at \in {"handshake", "stream"} /\ at' = "stream"
    BY <1>t, <1>5, SaySizes DEF Accepted, SendChunk, Goto, GotoWith, OnSocket, playRequestVars, requestVars
  <2>2. PICK n \in Nat : sock' = [sock EXCEPT ![call] = [sock[call] EXCEPT !.sent = sock[call].sent + n]]
    <3>1. local.initial \in Nat
      BY StreamSizes DEF SpeechInv, SayInv, SayTypes, Locals
    <3> QED
      BY <1>5, <3>1 DEF Accepted, SendChunk, SendSlabs
  <2>3. sock[call] \in Socks /\ sock[call].sent \in Nat
    BY <1>t, <2>1, StreamSizes DEF SockTypes, Socks
  <2>4. [sock[call] EXCEPT !.sent = sock[call].sent + n].sent = sock[call].sent + n
    BY <2>3 DEF Socks
  <2>5. \A c \in Streams : sock'[c].sent = sock[c].sent \/ (c = call /\ sock'[c].sent >= sock[c].sent)
    <3>1. sock'[call].sent = sock[call].sent + n
      BY <1>t, <2>1, <2>2, <2>4 DEF SockTypes
    <3>2. sock'[call].sent >= sock[call].sent
      BY <2>3, <3>1
    <3>3. \A c \in Streams \ {call} : sock'[c] = sock[c]
      BY <1>t, <2>2 DEF SockTypes
    <3>4. \A c \in Streams : c # call => sock'[c].sent = sock[c].sent
      BY <3>3
    <3> QED
      BY <3>2, <3>4
  <2> QED
    BY <2>1, <2>5, OnceGoesOn
<1>6. CASE StreamBreaks \/ SourceEnds
  <2>1. call \in Streams /\ CloseSocket(call) /\ requests' = requests /\ at = "stream"
    BY <1>t, <1>6, SaySizes DEF StreamBreaks, SourceEnds, OnSocket, playRequestVars, requestVars
  <2>2. call' = call /\ at' = "idle"
    <3>1. StreamErrors \subseteq {"OSError"}
      BY SpeechAssumption DEF SpeechAssumption, ErrorKinds
    <3> QED
      BY <1>6, <3>1 DEF StreamBreaks, SourceEnds, Said, Failed
  <2>3. \A c \in Streams : sock'[c].sent = sock[c].sent
    BY <1>t, <2>1, HangsUp DEF SockTypes
  <2> QED
    BY <2>1, <2>2, <2>3, OnceGoesOn
<1>7. CASE PlayAnswered \/ PlayLate
  BY <1>7, <1>k DEF PlayAnswered, PlayLate, StopWaiting, Goto, Said, Failed, ByHttp, tcpVars
<1>8. CASE SegmentAnswered \/ SegmentLate
  <2>1. UNCHANGED <<sock, requests>> /\ at = "posted"
    BY <1>8 DEF SegmentAnswered, SegmentLate, StopWaiting, ByHttp, tcpVars
  <2>2. PICK r \in Requests : awaited = <<r>> /\ r.kind = "segment" /\ r.final \in BOOLEAN
    BY <2>1 DEF SpeechInv, SayInv, SegmentAwaited, Requests, Segments
  <2>3. Refused
    BY DEF OnceInv
  <2>4. ~r.final \/ reply = "refused" => \A c \in Callers : c = call => ~ByStaged(c)
    BY <2>1, <2>2, <2>3 DEF Refused
  <2>5. /\ call' = call /\ at' # "posted"
        /\ at' = "idle" \/ ~r.final \/ reply = "refused"
    <3>1. CASE SegmentAnswered
      <4>1. reply \in {"staged", "playing", "refused"}
        BY <3>1, <2>2 DEF SegmentAnswered, SpeechInv, RequestInv, RepliesTo
      <4>2. reply = "staged" => ~r.final
        BY <2>1, <2>2, <2>3 DEF Refused
      <4> QED
        BY <3>1, <4>1, <4>2, <1>f DEF SegmentAnswered, GotoWith, Said
    <3>2. CASE SegmentLate
      BY <3>2, <2>2, <1>f DEF SegmentLate
    <3> QED
      BY <1>8, <3>1, <3>2
  <2> QED
    BY <2>1, <2>4, <2>5, OnceGoesOn
<1>9. ASSUME NEW final \in BOOLEAN, PostSegment(final) PROVE OnceInv'
  <2> DEFINE r == [caller |-> call, kind |-> "segment", seq |-> local.posted, final |-> final]
  <2>1. /\ at = "staged" /\ local.posted < MaxSegments /\ Post(r) /\ sock' = sock
        /\ call' = call /\ at' = "posted"
    BY <1>9 DEF PostSegment, Goto, ByHttp, tcpVars
  <2>2. call \in Callers /\ local.posted \in 0 .. MaxSegments
    BY <1>t, <2>1 DEF SpeechInv, SayInv, SayTypes, Locals
  <2>3. r \in Requests
    BY <2>1, <2>2, SaySizes DEF Requests, Segments
  <2> QED
    BY <2>1, <2>3, OncePosts
<1>10. CASE PostPlay
  <2> DEFINE r == [caller |-> call, kind |-> "play"]
  <2>1. at = "play" /\ Post(r) /\ sock' = sock /\ call' = call /\ at' = "playPosted" /\ call \in Callers
    BY <1>10, <1>t DEF PostPlay, Goto, ByHttp, tcpVars
  <2>2. r \in Requests
    BY <2>1 DEF Requests
  <2> QED
    BY <2>1, <2>2, OncePosts
<1> QED
  BY <1>1, <1>2, <1>3, <1>4, <1>5, <1>6, <1>7, <1>8, <1>9, <1>10 DEF StackchanSay

LEMMA OnceHolds ==
    ASSUME "final" \notin LateReplies, "ValueError" \notin StreamErrors
    PROVE  Spec => []OnceInv
<1>1. SpeechInit => OnceInv
  <2> SUFFICES ASSUME SpeechInit PROVE OnceInv
    OBVIOUS
  <2>1. TcpInit /\ PlayInit /\ call = 0 /\ at = "idle"
    BY DEF SpeechInit
  <2>2. ReadWasSent /\ Refused
    BY <2>1 DEF TcpInit, ReadWasSent, Refused
  <2>3. ASSUME NEW c \in Callers PROVE Exclusive(c) /\ FinalOnce(c)
    <3>1. sock[c].sent = 0 /\ heard[c] = <<>> /\ spoken[c] = {}
      BY <2>1, SaySizes DEF TcpInit, PlayInit, NoSock
    <3>2. requests = <<>> /\ waiting = <<>> /\ inFlight = 0 /\ loop = "idle" /\ c # 0
      BY <2>1 DEF PlayInit, Callers, Streams
    <3>3. ~HasFinal(requests, c) /\ ~HasPlay(requests, c) /\ OneFinal(requests, c)
      BY <3>2 DEF HasFinal, HasPlay, OneFinal
    <3>4. ~ByTcp(c) /\ ~ByStaged(c) /\ ~ByWav(c)
      BY <3>1, <3>2, <3>3 DEF ByTcp, ByStaged, ByWav, Starting
    <3> QED
      BY <3>2, <3>3, <3>4 DEF Exclusive, FinalOnce, Starting
  <2> QED
    BY <2>2, <2>3 DEF OnceInv
<1>2. SpeechInv /\ OnceInv /\ [Next]_vars => OnceInv'
  <2> SUFFICES ASSUME SpeechInv, OnceInv, [Next]_vars PROVE OnceInv'
    OBVIOUS
  <2>1. CASE UNCHANGED vars
    <3>1. UNCHANGED <<sock, heard, playRequestVars, sayVars>>
          /\ UNCHANGED <<serving, stage, taken, pending, hand>>
      BY <2>1 DEF vars, tcpVars, taskVars, bufferVars
    <3>2. ReadWasSent'
      BY <3>1 DEF OnceInv, ReadWasSent
    <3>3. \A c \in Callers : ByTcp(c)' => ByTcp(c)
      BY <3>1 DEF ByTcp
    <3> QED
      BY <3>1, <3>2, <3>3, OnceStream
  <2> QED
    BY <2>1, OnceSay, OncePcm, OnceBreaks, OnceLoop DEF Next
<1> QED
  BY <1>1, <1>2, SpeechHolds, PTL DEF Spec

\* A call is heard through one transport at most (Speech!SpokenOnce), unless a
\* final segment that may be played is given up (SegmentLate), or a stream that
\* plays is taken for one that failed before it started (StreamBreaks).
THEOREM SpokenByOneTransport ==
    ASSUME "final" \notin LateReplies, "ValueError" \notin StreamErrors
    PROVE  Spec => []SpokenOnce
<1>1. SpeechInv /\ OnceInv => SpokenOnce
  <2> SUFFICES ASSUME SpeechInv, OnceInv, NEW c \in Callers
               PROVE  Cardinality(HeardThrough(c)) <= 1
    BY DEF SpokenOnce
  <2>1. HeardThrough(c) \subseteq {"tcp", "staged", "wav"}
    BY DEF SpeechInv, PlayInv, HeardThrough
  <2>2. /\ "tcp" \in HeardThrough(c) => ByTcp(c)
        /\ "staged" \in HeardThrough(c) => ByStaged(c)
        /\ "wav" \in HeardThrough(c) => ByWav(c)
    BY DEF SpeechInv, PlayInv, HeardThrough, ByTcp, ByStaged, ByWav
  <2>3. Exclusive(c)
    BY DEF OnceInv
  <2>4. \A x, y \in HeardThrough(c) : x = y
    BY <2>1, <2>2, <2>3 DEF Exclusive
  <2>5. HeardThrough(c) = {} \/ \E x : HeardThrough(c) = {x}
    BY <2>4
  <2>6. Cardinality(HeardThrough(c)) = 0 \/ Cardinality(HeardThrough(c)) = 1
    BY <2>5, FS_EmptySet, FS_Singleton
  <2> QED
    BY <2>6
<1> QED
  BY <1>1, SpeechHolds, OnceHolds, PTL

-----------------------------------------------------------------------------
(* What was said is heard *)

\* The places where a call has a connection, and those before it posts a segment
\* that may be the final one.
Streaming == {"greet", "handshake", "stream"}
Beginning == {"tcp", "staged"} \cup Streaming

\* What a step of the tool does to the connections.
Opens ==
    /\ at = "tcp" /\ at' = "greet" /\ sock[call].end = "none"
    /\ sock' = [sock EXCEPT ![call] = [sock[call] EXCEPT !.end = "open"]]
    /\ backlog' = Append(backlog, call)

Sends ==
    /\ at \in Streaming /\ at' \in Streaming /\ sock[call].end = "open"
    /\ \E new \in Socks :
          /\ sock' = [sock EXCEPT ![call] = new]
          /\ new.end = "open" /\ new.reply = sock[call].reply /\ new.stopped = sock[call].stopped
          /\ new.sent >= sock[call].sent /\ (new.sent = sock[call].sent \/ at' = "stream")
    /\ at' = "stream" => sock[call].reply = "OK" \/ at = "stream"
    /\ UNCHANGED backlog

Closes ==
    /\ at \in Streaming /\ at' \notin Streaming
    /\ sock' = [sock EXCEPT ![call] =
                   [sock[call] EXCEPT !.end = IF sock[call].end = "open" THEN "closed" ELSE sock[call].end]]
    /\ UNCHANGED backlog

LEMMA SayConnections ==
    ASSUME SpeechInv, StackchanSay
    PROVE  \/ at \notin Streaming /\ at' \notin Streaming /\ UNCHANGED <<sock, backlog>>
           \/ UNCHANGED call /\ (Opens \/ Sends \/ Closes)
<1>t. sock \in [Streams -> Socks] /\ (at # "idle" => call \in Streams /\ sock[call] \in Socks)
  BY DEF SpeechInv, SlabInv, SockTypes, SayInv, SayTypes
<1>f. ASSUME FallBack \/ Failed \/ TryStaged \/ \E transport : Said(transport)
      PROVE  UNCHANGED call /\ at' \in {"idle", "wav", "staged"}
  BY <1>f DEF FallBack, Failed, TryStaged, Said, GotoWith
<1>c. ASSUME at \in Streaming, CloseSocket(call), UNCHANGED call, at' \in {"idle", "wav", "staged"}
      PROVE  Closes
  BY <1>c, <1>t DEF Closes, CloseSocket, Streaming, taskVars
<1>1. CASE Say \/ BufferFails \/ ConnectFails \/ StagedSourceFails \/ GenerateFails
           \/ ReadBaseline \/ BaselineFails \/ PollStarted \/ WaitTimesOut
  <2>1. UNCHANGED <<sock, backlog>>
    BY <1>1 DEF Say, BufferFails, ConnectFails, StagedSourceFails, GenerateFails, ReadBaseline,
       BaselineFails, PollStarted, WaitTimesOut, Locally, tcpVars, taskVars
  <2>2. at \notin Streaming /\ at' \notin Streaming
    BY <1>1, <1>f DEF Say, BufferFails, ConnectFails, StagedSourceFails, GenerateFails, ReadBaseline,
       BaselineFails, PollStarted, WaitTimesOut, Goto, GotoWith, Streaming
  <2> QED
    BY <2>1, <2>2
<1>2. CASE SegmentAnswered \/ SegmentLate \/ (\E final \in BOOLEAN : PostSegment(final))
           \/ PostPlay \/ PlayAnswered \/ PlayLate
  <2>1. UNCHANGED <<sock, backlog>>
    BY <1>2 DEF SegmentAnswered, SegmentLate, PostSegment, PostPlay, PlayAnswered, PlayLate, ByHttp,
       tcpVars, taskVars
  <2>2. at \notin Streaming
    BY <1>2 DEF SegmentAnswered, SegmentLate, PostSegment, PostPlay, PlayAnswered, PlayLate, Streaming
  <2>3. at' \notin Streaming
    <3>1. CASE SegmentAnswered
      <4>1. reply \in {"staged", "playing", "refused"}
        BY <3>1 DEF SegmentAnswered, SpeechInv, SayInv, SegmentAwaited, RequestInv, RepliesTo
      <4> QED
        BY <3>1, <4>1, <1>f DEF SegmentAnswered, GotoWith, Streaming
    <3>2. CASE SegmentLate \/ PlayLate
      BY <3>2, <1>f DEF SegmentLate, PlayLate, Streaming
    <3>3. CASE (\E final \in BOOLEAN : PostSegment(final)) \/ PostPlay \/ PlayAnswered
      BY <3>3, <1>f DEF PostSegment, PostPlay, PlayAnswered, Goto, Streaming
    <3> QED
      BY <1>2, <3>1, <3>2, <3>3
  <2> QED
    BY <2>1, <2>2, <2>3
<1>3. CASE OpenStream
  BY <1>3, <1>t DEF OpenStream, Connect, GotoWith, Opens
<1>4. CASE Greet
  <2> DEFINE new == [sock[call] EXCEPT !.header = TRUE]
  <2>1. /\ at = "greet" /\ at' = "handshake" /\ sock[call].end = "open" /\ UNCHANGED <<call, backlog>>
        /\ sock' = [sock EXCEPT ![call] = new]
    BY <1>4, <1>t DEF Greet, SendHeader, Goto, taskVars
  <2>2. /\ new \in Socks /\ new.end = sock[call].end /\ new.sent = sock[call].sent
        /\ new.reply = sock[call].reply /\ new.stopped = sock[call].stopped
    BY <1>t, <2>1 DEF Socks
  <2>3. sock[call].sent \in Nat
    BY <1>t, <2>1, StreamSizes DEF Socks
  <2>4. new.sent >= sock[call].sent
    BY <2>2, <2>3
  <2> HIDE DEF new
  <2> QED
    BY <2>1, <2>2, <2>4 DEF Sends, Streaming
<1>5. ASSUME NEW n \in Nat, SendSlabs(call, n), (at = "handshake" /\ sock[call].reply = "OK") \/ at = "stream",
             at' = "stream", UNCHANGED call
      PROVE  Sends
  <2> DEFINE new == [sock[call] EXCEPT !.sent = sock[call].sent + n]
  <2>1. at # "idle"
    BY <1>5
  <2>2. /\ sock[call].end = "open" /\ UNCHANGED backlog
        /\ sock' = [sock EXCEPT ![call] = new]
    BY <1>5, <1>t, <2>1 DEF SendSlabs, taskVars
  <2>3. sock[call].sent \in 0 .. MaxSlabs /\ sock[call].sent + n \in 0 .. MaxSlabs
    BY <1>5, <1>t, <2>1, StreamSizes DEF SendSlabs, Socks
  <2>4. /\ new \in Socks /\ new.end = sock[call].end /\ new.sent >= sock[call].sent
        /\ new.reply = sock[call].reply /\ new.stopped = sock[call].stopped
    BY <1>t, <2>1, <2>3, StreamSizes DEF Socks
  <2> HIDE DEF new
  <2> QED
    BY <1>5, <2>2, <2>4 DEF Sends, Streaming
<1>6. CASE Accepted \/ SendChunk
  <2>1. local.initial \in Nat /\ 1 \in Nat
    BY StreamSizes DEF SpeechInv, SayInv, SayTypes, Locals
  <2> QED
    BY <1>5, <1>6, <2>1 DEF Accepted, SendChunk, Goto, GotoWith
<1>7. CASE NotAccepted \/ StreamBreaks \/ SourceEnds
  <2>1. at \in Streaming /\ CloseSocket(call)
    BY <1>7 DEF NotAccepted, StreamBreaks, SourceEnds, Streaming
  <2>2. UNCHANGED call /\ at' \in {"idle", "wav", "staged"}
    BY <1>7, <1>f DEF NotAccepted, StreamBreaks, SourceEnds
  <2> QED
    BY <1>c, <2>1, <2>2
<1> QED
  BY <1>1, <1>2, <1>3, <1>4, <1>6, <1>7 DEF StackchanSay

\* What a step of the tool does to the requests, and what the call says then.
LEMMA SayProgress ==
    ASSUME SpeechInv, StackchanSay
    PROVE  /\ \/ UNCHANGED call /\ at # "idle"
              \/ at = "idle" /\ call' = call + 1 /\ UNCHANGED <<said, requests>>
           /\ \/ UNCHANGED said
              \/ at' = "idle" /\ at # "idle" /\ \E transport \in {"tcp", "staged", "wav"} :
                    /\ said' = [said EXCEPT ![call] = transport]
                    /\ transport = "tcp" => at = "stream"
                    /\ transport = "staged" => at = "posted" /\ reply = "playing"
           /\ at' \in Beginning =>
                 at \in Beginning \/ call' = call + 1 \/ (at = "posted" /\ reply = "staged")
           /\ \/ UNCHANGED requests /\ at' # "posted"
              \/ \E r \in Requests : requests' = Append(requests, r) /\ r.kind = "play" /\ at' # "posted"
              \/ \E r \in Requests : /\ requests' = Append(requests, r) /\ awaited' = <<r>>
                                     /\ r.kind = "segment" /\ r.caller = call /\ UNCHANGED call
                                     /\ reply' = "none" /\ at = "staged" /\ at' = "posted"
<1>i. SayInv /\ RequestInv
  BY DEF SpeechInv
<1> DEFINE Calls == (UNCHANGED call /\ at # "idle") \/ (at = "idle" /\ call' = call + 1 /\ UNCHANGED <<said, requests>>)
           Says == \/ UNCHANGED said
                   \/ at' = "idle" /\ at # "idle" /\ \E transport \in {"tcp", "staged", "wav"} :
                         /\ said' = [said EXCEPT ![call] = transport]
                         /\ transport = "tcp" => at = "stream"
                         /\ transport = "staged" => at = "posted" /\ reply = "playing"
           Begun == at' \in Beginning =>
                 at \in Beginning \/ call' = call + 1 \/ (at = "posted" /\ reply = "staged")
           Asks == \/ UNCHANGED requests /\ at' # "posted"
                   \/ \E r \in Requests : requests' = Append(requests, r) /\ r.kind = "play" /\ at' # "posted"
                   \/ \E r \in Requests : /\ requests' = Append(requests, r) /\ awaited' = <<r>>
                                          /\ r.kind = "segment" /\ r.caller = call /\ UNCHANGED call
                                          /\ reply' = "none" /\ at = "staged" /\ at' = "posted"
<1> SUFFICES Calls /\ Says /\ Begun /\ Asks
  OBVIOUS
<1>f. ASSUME FallBack \/ Failed
      PROVE  UNCHANGED <<call, said>> /\ at' \in {"idle", "wav"}
  BY <1>f DEF FallBack, Failed, GotoWith
<1>s. ASSUME TryStaged PROVE UNCHANGED <<call, said>> /\ at' \in {"idle", "wav", "staged"}
  BY <1>s, <1>f DEF TryStaged, GotoWith
<1> USE DEF Beginning, Streaming
<1>1. CASE Say
  BY <1>1 DEF Say, Locally, playRequestVars, requestVars
<1>2. CASE BufferFails \/ StagedSourceFails \/ GenerateFails \/ ReadBaseline \/ BaselineFails
           \/ WaitTimesOut
  BY <1>2, <1>f DEF BufferFails, StagedSourceFails, GenerateFails, ReadBaseline, BaselineFails,
     WaitTimesOut, Goto, GotoWith, Locally, playRequestVars, requestVars
<1>3. CASE PollStarted \/ SourceEnds
  BY <1>3 DEF PollStarted, SourceEnds, Said, Locally, OnSocket, playRequestVars, requestVars
<1>4. CASE ConnectFails \/ NotAccepted
  BY <1>4, <1>s DEF ConnectFails, NotAccepted, Locally, OnSocket, playRequestVars, requestVars
<1>5. CASE OpenStream \/ Greet \/ Accepted \/ SendChunk
  BY <1>5 DEF OpenStream, Greet, Accepted, SendChunk, Goto, GotoWith, OnSocket, playRequestVars,
     requestVars
<1>6. CASE StreamBreaks
  BY <1>6, <1>f DEF StreamBreaks, OnSocket, playRequestVars, requestVars
<1>7. CASE SegmentLate \/ PlayLate
  BY <1>7, <1>f DEF SegmentLate, PlayLate, StopWaiting
<1>8. CASE SegmentAnswered
  <2>1. reply \in {"staged", "playing", "refused"} /\ at = "posted" /\ UNCHANGED requests
    BY <1>8 DEF SegmentAnswered, SpeechInv, SayInv, SegmentAwaited, RequestInv, RepliesTo, StopWaiting
  <2> QED
    BY <1>8, <1>f, <2>1 DEF SegmentAnswered, GotoWith, Said
<1>9. CASE PlayAnswered
  BY <1>9 DEF PlayAnswered, StopWaiting, Said, Goto
<1>10. ASSUME NEW final \in BOOLEAN, PostSegment(final) PROVE Calls /\ Says /\ Begun /\ Asks
  <2> DEFINE r == [caller |-> call, kind |-> "segment", seq |-> local.posted, final |-> final]
  <2>1. /\ at = "staged" /\ local.posted < MaxSegments /\ awaited' = <<r>> /\ reply' = "none"
        /\ requests' = Append(requests, r) /\ Goto("posted")
    BY <1>10 DEF PostSegment, Post
  <2>2. call \in Callers /\ local.posted \in 0 .. MaxSegments
    BY <1>i, <2>1, SaySizes DEF SayInv, SayTypes, Locals
  <2>3. r \in Requests /\ r.kind = "segment" /\ r.caller = call
    BY <2>1, <2>2, SaySizes DEF Requests, Segments
  <2> HIDE DEF r
  <2> QED
    BY <2>1, <2>3 DEF Goto
<1>11. CASE PostPlay
  <2> DEFINE r == [caller |-> call, kind |-> "play"]
  <2>1. requests' = Append(requests, r) /\ at = "play" /\ Goto("playPosted")
    BY <1>11 DEF PostPlay, Post
  <2>2. r \in Requests /\ r.kind = "play"
    BY <1>i, <2>1, SaySizes DEF Requests, SayInv, SayTypes
  <2> HIDE DEF r
  <2> QED
    BY <2>1, <2>2 DEF Goto
<1> QED
  BY <1>1, <1>2, <1>3, <1>4, <1>5, <1>6, <1>7, <1>8, <1>9, <1>10, <1>11 DEF StackchanSay

\* The slabs of a stream: 1 .. n in this order.
Numbers(n) == [k \in 1 .. n |-> k]

\* What was written (h), is being written (x, or 0) and is queued (p) are, in this
\* order, the n slabs read so far.
InOrder(h, x, p, n) ==
    LET i == IF x = 0 THEN 0 ELSE 1
    IN  /\ Len(h) + i + Len(p) = n
        /\ \A k \in 1 .. Len(h) : h[k] = k
        /\ x # 0 => x = Len(h) + 1
        /\ \A k \in 1 .. Len(p) : p[k] = Len(h) + i + k

LEMMA InOrderWritten ==
    ASSUME NEW h \in Seq(Nat), NEW x \in Nat, NEW p \in Seq(Nat), NEW n \in Nat,
           InOrder(h, x, p, n), x # 0
    PROVE  InOrder(Append(h, x), 0, p, n)
<1>1. x = Len(h) + 1 /\ Len(h) + 1 + Len(p) = n
  BY DEF InOrder
<1>2. /\ Len(Append(h, x)) = Len(h) + 1 /\ Append(h, x)[Len(h) + 1] = x
      /\ \A k \in 1 .. Len(h) : Append(h, x)[k] = h[k]
  OBVIOUS
<1>3. \A k \in 1 .. Len(h) + 1 : k \in 1 .. Len(h) \/ k = Len(h) + 1
  OBVIOUS
<1>4. \A k \in 1 .. Len(h) + 1 : Append(h, x)[k] = k
  BY <1>1, <1>2, <1>3 DEF InOrder
<1>5. \A k \in 1 .. Len(p) : p[k] = Len(h) + 1 + k
  BY DEF InOrder
<1> DEFINE g == Append(h, x)
<1>6. g \in Seq(Nat)
  OBVIOUS
<1> HIDE DEF g
<1>7. Len(g) = Len(h) + 1 /\ \A k \in 1 .. Len(g) : g[k] = k
  BY <1>2, <1>4 DEF g
<1>8. InOrder(g, 0, p, n)
  BY <1>1, <1>5, <1>7 DEF InOrder
<1> QED
  BY <1>8 DEF g

LEMMA InOrderNext ==
    ASSUME NEW h \in Seq(Nat), NEW p \in Seq(Nat), NEW n \in Nat, InOrder(h, 0, p, n), p # <<>>
    PROVE  Head(p) # 0 /\ InOrder(h, Head(p), Tail(p), n)
<1>1. /\ Head(p) = p[1] /\ Tail(p) \in Seq(Nat) /\ Len(p) = Len(Tail(p)) + 1
      /\ Len(p) \in Nat /\ Len(p) >= 1 /\ Len(h) \in Nat
      /\ \A k \in 1 .. Len(p) - 1 : Tail(p)[k] = p[k + 1] /\ k + 1 \in 1 .. Len(p)
  OBVIOUS
<1>2. Len(h) + Len(p) = n /\ \A k \in 1 .. Len(p) : p[k] = Len(h) + k
  BY <1>1 DEF InOrder
<1>3. Head(p) = Len(h) + 1
  BY <1>1, <1>2
<1>4. \A k \in 1 .. Len(p) - 1 : Tail(p)[k] = Len(h) + 1 + k
  BY <1>1, <1>2
<1>5. ASSUME NEW q \in Seq(Nat), Len(p) = Len(q) + 1,
             \A k \in 1 .. Len(p) - 1 : q[k] = Len(h) + 1 + k
      PROVE  InOrder(h, Len(h) + 1, q, n)
  <2>1. Len(h) + 1 # 0 /\ Len(h) + 1 + Len(q) = n
    BY <1>1, <1>2, <1>5
  <2>2. ASSUME NEW k \in 1 .. Len(q) PROVE q[k] = Len(h) + 1 + k
    <3>1. k \in 1 .. Len(p) - 1
      BY <1>5
    <3> QED
      BY <1>5, <3>1
  <2> QED
    BY <1>2, <2>1, <2>2 DEF InOrder
<1>6. InOrder(h, Len(h) + 1, Tail(p), n)
  BY <1>1, <1>4, <1>5
<1> QED
  BY <1>1, <1>3, <1>6

LEMMA InOrderRead ==
    ASSUME NEW h \in Seq(Nat), NEW x \in Nat, NEW p \in Seq(Nat), NEW n \in Nat, InOrder(h, x, p, n)
    PROVE  InOrder(h, x, Append(p, n + 1), n + 1)
<1>1. PICK i \in {0, 1} : /\ Len(h) + i + Len(p) = n /\ i = (IF x = 0 THEN 0 ELSE 1)
                          /\ \A k \in 1 .. Len(p) : p[k] = Len(h) + i + k
  BY DEF InOrder
<1>2. ASSUME NEW y \in Nat, y = n + 1 PROVE InOrder(h, x, Append(p, y), y)
  <2>1. /\ Append(p, y) \in Seq(Nat) /\ Len(p) + 1 = Len(Append(p, y))
        /\ Append(p, y)[Len(p) + 1] = y /\ Len(p) \in Nat /\ Len(h) \in Nat
        /\ \A k \in 1 .. Len(p) : Append(p, y)[k] = p[k]
    OBVIOUS
  <2>2. ASSUME NEW q \in Seq(Nat), Len(p) + 1 = Len(q), q[Len(p) + 1] = y,
               \A k \in 1 .. Len(p) : q[k] = p[k]
        PROVE  InOrder(h, x, q, y)
    <3>s. ASSUME NEW a \in Nat, NEW b \in Nat, NEW c \in Nat, a + i + b = n, b + 1 = c
          PROVE  a + i + c = y
      BY <1>2, <3>s
    <3>1. Len(h) + i + Len(q) = y
      <4>1. Len(h) \in Nat /\ Len(p) \in Nat /\ Len(q) \in Nat
        OBVIOUS
      <4>2. Len(h) + i + Len(p) = n /\ Len(p) + 1 = Len(q)
        BY <1>1, <2>2
      <4> QED
        BY <3>s, <4>1, <4>2
    <3>2. ASSUME NEW k \in 1 .. Len(q) PROVE q[k] = Len(h) + i + k
      <4>0. k = Len(p) + 1 => k = Len(q)
        BY <2>2
      <4>1. CASE k \in 1 .. Len(p)
        BY <1>1, <2>2, <4>1
      <4>2. CASE k = Len(p) + 1
        BY <2>2, <3>1, <4>0, <4>2
      <4> QED
        BY <4>1, <4>2, <2>1, <2>2
    <3> QED
      BY <1>1, <3>1, <3>2 DEF InOrder
  <2> QED
    BY <2>1, <2>2
<1> QED
  BY <1>2

LEMMA InOrderDone ==
    ASSUME NEW h \in Seq(Nat), NEW n \in Nat, InOrder(h, 0, <<>>, n)
    PROVE  h = Numbers(n)
<1>1. Len(h) = n /\ \A k \in 1 .. n : h[k] = k
  BY DEF InOrder
<1>2. h = [k \in 1 .. n |-> h[k]]
  BY <1>1
<1> QED
  BY <1>1, <1>2 DEF Numbers

\* The connections that wait differ, and each is still to be served.
QueueInv ==
    /\ stage = "listen" => serving = 0
    /\ stage # "listen" => ~sock[serving].stopped /\ sock[serving].end # "none"
    /\ \A i \in 1 .. Len(backlog) :
          /\ backlog[i] # serving /\ ~sock[backlog[i]].stopped /\ sock[backlog[i]].end # "none"
          /\ \A j \in 1 .. Len(backlog) : backlog[i] = backlog[j] => i = j

\* A connection before it is served, and after.
Untouched(c) == heard[c] = <<>> /\ sock[c].reply = "none"

HeardOut(c) ==
    \/ sock[c].reply = "ERR" \/ c \in mishaps.hurt
    \/ sock[c].end # "open" /\ heard[c] = Numbers(sock[c].sent)

SocketInv == \A c \in Streams :
    /\ ~sock[c].stopped /\ (c # serving \/ stage = "header") => Untouched(c)
    /\ sock[c].stopped => sock[c].end # "none" /\ HeardOut(c)

\* No slab of the stream that is served is lost on its way from the connection to
\* the speaker, nor overtaken, and the end of the stream is its end.
Pipeline ==
    /\ sock[serving].reply = "OK"
    /\ taken <= sock[serving].sent
    /\ eof => sock[serving].end # "open" /\ taken = sock[serving].sent
    /\ InOrder(heard[serving], hand, pending, taken)

Served == stage \notin {"listen", "header"}

\* A stream that the tool speaks to, or has spoken to, was accepted.
AcceptedInv ==
    /\ at = "stream" => sock[call].reply = "OK"
    /\ \A c \in Callers : said[c] = "tcp" => sock[c].reply = "OK"

TcpHeardInv == QueueInv /\ SocketInv /\ (Served => Pipeline) /\ AcceptedInv

\* Nor does the tool change what the device has answered, or take back what it sent.
LEMMA SayKeepsAnswers ==
    ASSUME SpeechInv, StackchanSay, NEW c \in Streams
    PROVE  /\ sock'[c].reply = sock[c].reply /\ sock'[c].stopped = sock[c].stopped
           /\ sock'[c].sent >= sock[c].sent
           /\ sock[c].end # "none" => sock'[c].end # "none"
           /\ sock[c].end \in {"closed", "reset"} =>
                 sock'[c].end = sock[c].end /\ sock'[c].sent = sock[c].sent
<1>t. /\ sock \in [Streams -> Socks]
      /\ (at # "idle" => call \in Streams)
  BY DEF SpeechInv, SlabInv, SockTypes, SayInv, SayTypes
<1>1. sock[c] \in Socks /\ sock[c].sent \in Nat
  BY <1>t, StreamSizes DEF Socks
<1>2. CASE UNCHANGED sock
  BY <1>1, <1>2
<1>3. CASE Opens
  <2>1. call \in Streams
    BY <1>t, <1>3 DEF Opens
  <2> QED
    BY <1>t, <1>1, <1>3, <2>1 DEF Opens, Socks
<1>4. CASE Sends
  <2>1. call \in Streams
    BY <1>t, <1>4 DEF Sends, Streaming
  <2> QED
    BY <1>t, <1>1, <1>4, <2>1 DEF Sends
<1>5. CASE Closes
  <2>1. call \in Streams
    BY <1>t, <1>5 DEF Closes, Streaming
  <2>2. sock'[call].end = (IF sock[call].end = "open" THEN "closed" ELSE sock[call].end)
        /\ sock'[call].sent = sock[call].sent /\ sock'[call].reply = sock[call].reply
        /\ sock'[call].stopped = sock[call].stopped
    BY <1>t, <1>5, <2>1 DEF Closes, Socks
  <2>3. c # call => sock'[c] = sock[c]
    BY <1>t, <1>5, <2>1 DEF Closes
  <2> QED
    BY <1>1, <2>2, <2>3
<1> QED
  BY SayConnections, <1>2, <1>3, <1>4, <1>5

\* The connections are used, but none is accepted or stopped.
LEMMA HeardSay ==
    ASSUME SpeechInv, TcpHeardInv, StackchanSay
    PROVE  TcpHeardInv'
<1>d. UNCHANGED <<serving, stage, mishaps, eof, taken, pending, hand, heard>>
  BY SayKeepsDevice DEF bufferVars
<1>t. /\ sock \in [Streams -> Socks] /\ backlog \in Seq(Streams) /\ (stage # "listen" => serving \in Streams)
      /\ (at # "idle" => call \in Streams)
  BY DEF SpeechInv, SlabInv, SockTypes, SayInv, SayTypes
<1>i. QueueInv /\ SocketInv /\ (Served => Pipeline) /\ AcceptedInv
  BY DEF TcpHeardInv
<1>k. \A c \in Streams :
        /\ sock'[c].reply = sock[c].reply /\ sock'[c].stopped = sock[c].stopped
        /\ sock'[c].sent >= sock[c].sent
        /\ sock[c].end # "none" => sock'[c].end # "none"
        /\ sock[c].end \in {"closed", "reset"} =>
              sock'[c].end = sock[c].end /\ sock'[c].sent = sock[c].sent
  BY SayKeepsAnswers
<1>e. \A c \in Streams : sock[c].end \in {"none", "open", "closed", "reset"}
  BY <1>t DEF Socks, Ends
<1>1. QueueInv'
  <2>1. CASE UNCHANGED backlog
    <3>1. \A i \in 1 .. Len(backlog) : backlog[i] \in Streams
      BY <1>t
    <3> QED
      BY <1>d, <1>i, <1>k, <1>t, <2>1, <3>1 DEF QueueInv
  <2>2. CASE Opens
    <3>1. call \in Streams /\ sock[call].end = "none" /\ backlog' = Append(backlog, call)
      BY <1>t, <2>2 DEF Opens
    <3>2. ~sock[call].stopped /\ call # serving
      BY <1>i, <1>t, <3>1 DEF SocketInv, QueueInv, Streams
    <3>3. sock'[call].end = "open" /\ ~sock'[call].stopped
      BY <1>t, <2>2, <3>1, <3>2 DEF Opens, Socks
    <3>4. /\ Len(backlog') = Len(backlog) + 1 /\ backlog'[Len(backlog) + 1] = call
          /\ \A i \in 1 .. Len(backlog) : backlog'[i] = backlog[i] /\ backlog[i] \in Streams
          /\ \A i \in 1 .. Len(backlog') : i \in 1 .. Len(backlog) \/ i = Len(backlog) + 1
      BY <1>t, <3>1
    <3>5. \A i \in 1 .. Len(backlog) : /\ backlog[i] # call /\ backlog[i] # serving
                                       /\ ~sock'[backlog[i]].stopped /\ sock'[backlog[i]].end # "none"
      BY <1>i, <1>k, <3>1, <3>4 DEF QueueInv
    <3>6. ASSUME NEW i \in 1 .. Len(backlog')
          PROVE  backlog'[i] # serving /\ ~sock'[backlog'[i]].stopped /\ sock'[backlog'[i]].end # "none"
      BY <3>2, <3>3, <3>4, <3>5
    <3>7. ASSUME NEW i \in 1 .. Len(backlog'), NEW j \in 1 .. Len(backlog'), backlog'[i] = backlog'[j]
          PROVE  i = j
      BY <1>i, <3>4, <3>5, <3>7 DEF QueueInv
    <3>8. (stage' = "listen" => serving' = 0) /\ (stage' # "listen" => ~sock'[serving].stopped /\ sock'[serving].end # "none")
      BY <1>d, <1>i, <1>k, <1>t DEF QueueInv
    <3> QED
      BY <1>d, <3>6, <3>7, <3>8 DEF QueueInv
  <2> QED
    BY SayConnections, <2>1, <2>2 DEF Sends, Closes
<1>2. SocketInv'
  <2> SUFFICES ASSUME NEW c \in Streams
               PROVE  /\ ~sock'[c].stopped /\ (c # serving \/ stage = "header") => Untouched(c)'
                      /\ sock'[c].stopped => sock'[c].end # "none" /\ HeardOut(c)'
    BY <1>d DEF SocketInv
  <2>1. Untouched(c) => Untouched(c)'
    BY <1>d, <1>k DEF Untouched
  <2>2. sock[c].end # "none" /\ HeardOut(c) => HeardOut(c)'
    BY <1>d, <1>k, <1>e DEF HeardOut
  <2> QED
    BY <1>i, <1>k, <2>1, <2>2 DEF SocketInv
<1>3. Served' => Pipeline'
  <2> SUFFICES ASSUME Served PROVE Pipeline'
    BY <1>d DEF Served
  <2>1. Pipeline /\ serving \in Streams /\ sock[serving].end # "none"
    BY <1>i, <1>t DEF Served, QueueInv
  <2>2. sock'[serving].sent \in Nat /\ sock[serving].sent \in Nat /\ taken \in Nat
    <3>1. SockTypes'
      BY SocksSay DEF SpeechInv, SlabInv
    <3> QED
      BY <1>d, <1>t, <2>1, <3>1, StreamSizes DEF SockTypes, Socks, SpeechInv, SlabInv, BufferTypes
  <2>3. sock'[serving].reply = "OK" /\ taken <= sock'[serving].sent
    BY <1>k, <2>1, <2>2 DEF Pipeline
  <2>4. eof => sock'[serving].end # "open" /\ taken = sock'[serving].sent
    BY <1>k, <1>e, <2>1 DEF Pipeline
  <2> QED
    BY <1>d, <2>1, <2>3, <2>4 DEF Pipeline
<1>4. AcceptedInv'
  <2>1. ASSUME at' = "stream" PROVE sock'[call'].reply = "OK"
    <3>1. Sends /\ UNCHANGED call
      BY SayConnections, <2>1 DEF Opens, Closes, Streaming
    <3>2. call \in Streams /\ sock[call].reply = "OK"
      BY <1>i, <1>t, <2>1, <3>1 DEF Sends, AcceptedInv, Streaming
    <3> QED
      BY <1>k, <3>1, <3>2
  <2>2. ASSUME NEW c \in Callers, said'[c] = "tcp" PROVE sock'[c].reply = "OK"
    <3>1. c \in Streams /\ said \in [Callers -> {"none", "tcp", "staged", "wav"}]
      BY SaySizes DEF SpeechInv, SayInv, SayTypes
    <3>2. said[c] = "tcp" \/ (at = "stream" /\ c = call)
      BY SayProgress, <2>2, <3>1
    <3> QED
      BY <1>i, <1>k, <3>1, <3>2 DEF AcceptedInv
  <2> QED
    BY <2>1, <2>2 DEF AcceptedInv
<1> QED
  BY <1>1, <1>2, <1>3, <1>4 DEF TcpHeardInv

\* A stream that breaks keeps what pcmStreamTask has read of it.
LEMMA HeardBreaks ==
    ASSUME SpeechInv, TcpHeardInv, Breaks, UNCHANGED <<playRequestVars, sayVars>>
    PROVE  TcpHeardInv'
<1>t. /\ sock \in [Streams -> Socks] /\ backlog \in Seq(Streams) /\ (stage # "listen" => serving \in Streams)
      /\ taken \in Nat /\ mishaps \in [torn : 0 .. MaxTorn, hurt : SUBSET Streams]
      /\ (at # "idle" => call \in Streams)
  BY StreamSizes DEF SpeechInv, SlabInv, SockTypes, BufferTypes, SayInv, SayTypes
<1>i. QueueInv /\ SocketInv /\ (Served => Pipeline) /\ AcceptedInv
  BY DEF TcpHeardInv
<1>1. PICK s \in Streams : NetworkBreaks(s)
  BY DEF Breaks
<1>2. PICK n \in (IF s = serving THEN taken ELSE 0) .. sock[s].sent :
         sock' = [sock EXCEPT ![s] = [sock[s] EXCEPT !.end = "reset", !.sent = n]]
  BY <1>1 DEF NetworkBreaks
<1>3. /\ UNCHANGED <<serving, stage, backlog, heard, taken, pending, hand, eof, call, at, said>>
      /\ mishaps'.hurt = mishaps.hurt \cup {s} /\ ~sock[s].stopped
  BY <1>1, <1>t DEF NetworkBreaks, taskVars, bufferVars, sayVars
<1>4. /\ sock'[s].sent = n /\ sock'[s].end = "reset" /\ sock'[s].reply = sock[s].reply
      /\ sock'[s].stopped = sock[s].stopped
      /\ \A c \in Streams \ {s} : sock'[c] = sock[c]
      /\ n \in Nat /\ n <= sock[s].sent /\ (s = serving => taken <= n)
  <2>1. sock[s] \in Socks /\ sock[s].sent \in Nat
    BY <1>t, StreamSizes DEF Socks
  <2>2. /\ [sock[s] EXCEPT !.end = "reset", !.sent = n].sent = n
        /\ [sock[s] EXCEPT !.end = "reset", !.sent = n].end = "reset"
        /\ [sock[s] EXCEPT !.end = "reset", !.sent = n].reply = sock[s].reply
        /\ [sock[s] EXCEPT !.end = "reset", !.sent = n].stopped = sock[s].stopped
    BY <2>1 DEF Socks
  <2>3. n \in Nat /\ n <= sock[s].sent /\ (s = serving => taken <= n)
    BY <1>t, <2>1
  <2> QED
    BY <1>2, <1>t, <2>2, <2>3
<1>5. QueueInv'
  <2>1. \A i \in 1 .. Len(backlog) : backlog[i] \in Streams
    BY <1>t
  <2> QED
    BY <1>i, <1>t, <1>3, <1>4, <2>1 DEF QueueInv
<1>6. SocketInv'
  <2> SUFFICES ASSUME NEW c \in Streams
               PROVE  /\ ~sock'[c].stopped /\ (c # serving \/ stage = "header") => Untouched(c)'
                      /\ sock'[c].stopped => sock'[c].end # "none" /\ HeardOut(c)'
    BY <1>3 DEF SocketInv
  <2> QED
    BY <1>i, <1>3, <1>4 DEF SocketInv, Untouched, HeardOut
<1>7. Served' => Pipeline'
  <2> SUFFICES ASSUME Served PROVE Pipeline'
    BY <1>3 DEF Served
  <2>1. Pipeline /\ serving \in Streams
    BY <1>i, <1>t DEF Served
  <2>2. sock[serving].sent \in Nat
    BY <1>t, <2>1, StreamSizes DEF Socks
  <2> QED
    BY <1>3, <1>4, <1>t, <2>1, <2>2 DEF Pipeline
<1>8. AcceptedInv'
  <2>1. Callers = Streams /\ (at = "stream" => call \in Streams)
    BY <1>t, SaySizes
  <2> QED
    BY <1>i, <1>3, <1>4, <2>1 DEF AcceptedInv
<1> QED
  BY <1>5, <1>6, <1>7, <1>8 DEF TcpHeardInv

\* A connection is answered or stopped: with ERR before it was accepted, otherwise when
\* all of it was heard, or entered as hurt.
LEMMA HeardHangUp ==
    ASSUME SpeechInv, TcpHeardInv, UNCHANGED sayVars, stage # "listen",
           NEW answer, HangUp(answer),
           \/ stage = "header" /\ answer = "ERR"
           \/ answer = sock[serving].reply
              /\ \/ serving \in mishaps'.hurt
                 \/ sock[serving].end # "open" /\ heard'[serving] = Numbers(sock[serving].sent),
           \A c \in Streams : c # serving => heard'[c] = heard[c],
           mishaps.hurt \subseteq mishaps'.hurt
    PROVE  TcpHeardInv'
<1>t. sock \in [Streams -> Socks] /\ backlog \in Seq(Streams) /\ serving \in Streams /\ sock[serving] \in Socks
  BY DEF SpeechInv, SlabInv, SockTypes
<1>i. QueueInv /\ SocketInv /\ AcceptedInv
  BY DEF TcpHeardInv
<1>1. serving' = 0 /\ stage' = "listen" /\ UNCHANGED <<backlog, call, at, said>>
  BY DEF HangUp, sayVars
<1>2. /\ sock'[serving].stopped /\ sock'[serving].reply = answer /\ sock'[serving].end = sock[serving].end
      /\ sock'[serving].sent = sock[serving].sent
      /\ \A c \in Streams : c # serving => sock'[c] = sock[c]
  <2>1. sock' = [sock EXCEPT ![serving] = [sock[serving] EXCEPT !.stopped = TRUE, !.reply = answer]]
    BY <1>t DEF HangUp
  <2>2. /\ [sock[serving] EXCEPT !.stopped = TRUE, !.reply = answer].stopped
        /\ [sock[serving] EXCEPT !.stopped = TRUE, !.reply = answer].reply = answer
        /\ [sock[serving] EXCEPT !.stopped = TRUE, !.reply = answer].end = sock[serving].end
        /\ [sock[serving] EXCEPT !.stopped = TRUE, !.reply = answer].sent = sock[serving].sent
    BY <1>t DEF Socks
  <2> QED
    BY <1>t, <2>1, <2>2
<1>3. QueueInv'
  <2>0. \A i \in 1 .. Len(backlog) : backlog[i] \in Streams
    BY <1>t
  <2>1. \A i \in 1 .. Len(backlog) : backlog[i] \in Streams /\ backlog[i] # 0
    BY <2>0 DEF Streams
  <2> QED
    BY <1>i, <1>1, <1>2, <2>1 DEF QueueInv
<1>4. SocketInv'
  <2> SUFFICES ASSUME NEW c \in Streams
               PROVE  /\ ~sock'[c].stopped => Untouched(c)'
                      /\ sock'[c].stopped => sock'[c].end # "none" /\ HeardOut(c)'
    BY DEF SocketInv
  <2>1. CASE c = serving
    BY <1>i, <1>2, <2>1 DEF QueueInv, HeardOut
  <2>2. CASE c # serving
    BY <1>i, <1>2, <2>2 DEF SocketInv, Untouched, HeardOut
  <2> QED
    BY <2>1, <2>2
<1>5. AcceptedInv'
  <2>1. ASSUME NEW c \in Streams, sock[c].reply = "OK" PROVE sock'[c].reply = "OK"
    BY <1>i, <1>2, <2>1 DEF SocketInv, QueueInv, Untouched
  <2>2. Callers = Streams /\ (at = "stream" => call \in Streams)
    BY SaySizes DEF SpeechInv, SayInv, SayTypes
  <2> QED
    BY <1>i, <1>1, <2>1, <2>2 DEF AcceptedInv
<1> QED
  BY <1>1, <1>3, <1>4, <1>5 DEF TcpHeardInv, Served

\* The stream goes on.
LEMMA HeardGoesOn ==
    ASSUME TcpHeardInv, UNCHANGED <<sock, backlog, serving, mishaps, sayVars>>, Served, Served',
           Pipeline', \A c \in Streams : c # serving => heard'[c] = heard[c]
    PROVE  TcpHeardInv'
<1>1. QueueInv'
  BY DEF TcpHeardInv, QueueInv, Served
<1>2. SocketInv'
  <2>1. stage # "header" /\ stage' # "header" /\ (stage # "listen" => ~sock[serving].stopped)
    BY DEF Served, TcpHeardInv, QueueInv
  <2> QED
    BY <2>1 DEF TcpHeardInv, SocketInv, Untouched, HeardOut, Served
<1>3. AcceptedInv'
  BY DEF TcpHeardInv, AcceptedInv, sayVars
<1> QED
  BY <1>1, <1>2, <1>3 DEF TcpHeardInv

\* What pcmStreamTask does with a connection and its slabs.
LEMMA HeardPcm ==
    ASSUME SpeechInv, TcpHeardInv, PcmStreamTask, UNCHANGED <<playRequestVars, sayVars>>
    PROVE  TcpHeardInv'
<1>t. /\ sock \in [Streams -> Socks] /\ backlog \in Seq(Streams)
      /\ stage \in Stages /\ (stage # "listen" => serving \in Streams)
      /\ eof \in BOOLEAN /\ taken \in Nat /\ hand \in Nat
      /\ heard \in [Streams -> Seq(1 .. MaxSlabs)] /\ pending \in Seq(1 .. MaxSlabs)
      /\ (at # "idle" => call \in Streams) /\ Callers = Streams
      /\ mishaps \in [torn : 0 .. MaxTorn, hurt : SUBSET Streams]
  BY SaySizes, StreamSizes DEF SpeechInv, SlabInv, SockTypes, BufferTypes, SayInv, SayTypes
<1>n. pending \in Seq(Nat) /\ (stage # "listen" => heard[serving] \in Seq(Nat) /\ sock[serving].sent \in Nat)
  <2>1. Seq(1 .. MaxSlabs) \subseteq Seq(Nat)
    <3>1. \A q \in Seq(1 .. MaxSlabs) : q \in Seq(Nat)
      BY StreamSizes
    <3> QED
      BY <3>1
  <2> QED
    BY <1>t, <2>1, StreamSizes DEF Socks
<1>i. QueueInv /\ SocketInv /\ (Served => Pipeline) /\ AcceptedInv
  BY DEF TcpHeardInv
<1>p. /\ stage \in {"listen", "header"} => pending = <<>>
      /\ stage \in {"gate", "settle"} => pending # <<>>
      /\ (stage = "write" <=> hand # 0)
  BY DEF SpeechInv, SlabInv, SlabPlaces
<1>u. UNCHANGED sayVars
  OBVIOUS
\* A failure: the stream is hurt.
<1>f. ASSUME Served, Stop, UNCHANGED heard, mishaps'.hurt = mishaps.hurt \cup {serving} PROVE TcpHeardInv'
  BY <1>f, <1>t, HeardHangUp DEF Stop, Served
\* The end: what was read and is heard now was all.
<1>e. ASSUME Served, Stop, UNCHANGED mishaps, NEW n \in Nat, n = sock[serving].sent,
             sock[serving].end # "open", heard'[serving] = Numbers(n),
             \A c \in Streams : c # serving => heard'[c] = heard[c]
      PROVE  TcpHeardInv'
  BY <1>e, HeardHangUp DEF Stop, Served
<1>1. CASE AcceptClient
  <2>1. /\ stage = "listen" /\ backlog # <<>> /\ serving' = Head(backlog) /\ backlog' = Tail(backlog)
        /\ stage' = "header" /\ UNCHANGED <<sock, heard, mishaps, call, at, said>>
    BY <1>1 DEF AcceptClient, bufferVars, sayVars
  <2>2. /\ Head(backlog) = backlog[1] /\ 1 \in 1 .. Len(backlog) /\ Tail(backlog) \in Seq(Streams)
        /\ backlog[1] \in Streams
        /\ \A i \in 1 .. Len(Tail(backlog)) : /\ Tail(backlog)[i] = backlog[i + 1] /\ i + 1 # 1
                                              /\ i + 1 \in 1 .. Len(backlog) /\ i \in Nat
    BY <1>t, <2>1
  <2>3. QueueInv'
    <3>1. ~sock[backlog[1]].stopped /\ sock[backlog[1]].end # "none"
      BY <1>i, <2>2 DEF QueueInv
    <3>2. ASSUME NEW i \in 1 .. Len(Tail(backlog))
          PROVE  /\ Tail(backlog)[i] # backlog[1] /\ ~sock[Tail(backlog)[i]].stopped
                 /\ sock[Tail(backlog)[i]].end # "none"
      BY <1>i, <2>2 DEF QueueInv
    <3>3. ASSUME NEW i \in 1 .. Len(Tail(backlog)), NEW j \in 1 .. Len(Tail(backlog)),
                 Tail(backlog)[i] = Tail(backlog)[j]
          PROVE  i = j
      <4>1. i + 1 = j + 1
        BY <1>i, <2>2, <3>3 DEF QueueInv
      <4> QED
        BY <2>2, <4>1
    <3> QED
      BY <2>1, <2>2, <3>1, <3>2, <3>3 DEF QueueInv
  <2>4. SocketInv'
    <3>1. serving = 0 /\ \A c \in Streams : c # 0
      BY <1>i, <2>1 DEF QueueInv, Streams
    <3> QED
      BY <1>i, <2>1, <3>1 DEF SocketInv, Untouched, HeardOut
  <2> QED
    BY <1>i, <2>1, <2>3, <2>4 DEF TcpHeardInv, Served, AcceptedInv
<1>2. CASE RefuseHeader \/ RefuseBusy
  <2>1. stage = "header" /\ HangUp("ERR") /\ UNCHANGED <<heard, mishaps>>
    BY <1>2 DEF RefuseHeader, RefuseBusy, bufferVars
  <2> QED
    BY <2>1, HeardHangUp
<1>3. CASE ServeClient
  <2>1. /\ stage = "header" /\ stage' = "prebuffer" /\ taken' = 0 /\ eof' = FALSE
        /\ UNCHANGED <<backlog, serving, pending, hand, heard, mishaps, call, at, said>>
        /\ sock' = [sock EXCEPT ![serving] = [sock[serving] EXCEPT !.reply = "OK"]]
    BY <1>3, <1>t DEF ServeClient, sayVars
  <2>2. /\ sock'[serving].reply = "OK" /\ sock'[serving].end = sock[serving].end
        /\ sock'[serving].sent = sock[serving].sent /\ sock'[serving].stopped = sock[serving].stopped
        /\ \A c \in Streams : c # serving => sock'[c] = sock[c]
    <3>1. sock[serving] \in Socks /\ serving \in Streams
      BY <1>t, <2>1
    <3>2. /\ [sock[serving] EXCEPT !.reply = "OK"].reply = "OK"
          /\ [sock[serving] EXCEPT !.reply = "OK"].end = sock[serving].end
          /\ [sock[serving] EXCEPT !.reply = "OK"].sent = sock[serving].sent
          /\ [sock[serving] EXCEPT !.reply = "OK"].stopped = sock[serving].stopped
      BY <3>1 DEF Socks
    <3> QED
      BY <1>t, <2>1, <3>1, <3>2
  <2>3. ~sock[serving].stopped /\ heard[serving] = <<>> /\ sock[serving].end # "none" /\ serving \in Streams
    BY <1>i, <1>t, <2>1 DEF QueueInv, SocketInv, Untouched
  <2>4. QueueInv'
    <3>1. \A i \in 1 .. Len(backlog) : backlog[i] \in Streams
      BY <1>t
    <3> QED
      BY <1>i, <2>1, <2>2, <2>3, <3>1 DEF QueueInv
  <2>5. SocketInv'
    BY <1>i, <2>1, <2>2, <2>3 DEF SocketInv, Untouched, HeardOut
  <2>6. Pipeline'
    <3>1. InOrder(<<>>, 0, <<>>, 0)
      BY DEF InOrder
    <3>2. pending = <<>> /\ hand = 0 /\ 0 <= sock[serving].sent
      BY <1>n, <1>p, <2>1
    <3> QED
      BY <2>1, <2>2, <2>3, <3>1, <3>2 DEF Pipeline
  <2>7. AcceptedInv'
    BY <1>i, <1>t, <2>1, <2>2 DEF AcceptedInv
  <2> QED
    BY <2>4, <2>5, <2>6, <2>7 DEF TcpHeardInv
\* A read: with a slab or without, at the end or not.
<1>r. ASSUME NEW n \in {0, 1}, NEW end \in BOOLEAN, Arrives(n, end), Served
      PROVE  /\ InOrder(heard[serving], hand, Queued(n), taken + n)
             /\ taken + n <= sock[serving].sent
             /\ end => sock[serving].end # "open" /\ taken + n = sock[serving].sent
             /\ Queued(n) \in Seq(Nat) /\ taken + n \in Nat
  <2>1. InOrder(heard[serving], hand, pending, taken) /\ taken <= sock[serving].sent /\ serving \in Streams
    BY <1>i, <1>r, <1>t DEF Pipeline, Served
  <2>2. heard[serving] \in Seq(Nat) /\ sock[serving].sent \in Nat
    BY <1>n, <1>r DEF Served
  <2>3. end => sock[serving].end # "open" /\ taken + n = sock[serving].sent
    BY <1>r DEF Arrives
  <2>4. CASE n = 1
    <3>1. Queued(n) = Append(pending, taken + 1) /\ taken < sock[serving].sent
      BY <1>r, <2>4 DEF Queued, Arrives
    <3>2. InOrder(heard[serving], hand, Append(pending, taken + 1), taken + 1)
      BY <1>t, <1>n, <2>1, <2>2, InOrderRead
    <3>3. taken + 1 \in Nat /\ taken + 1 <= sock[serving].sent
      BY <1>t, <2>2, <3>1
    <3>4. Append(pending, taken + 1) \in Seq(Nat)
      BY <1>n, <3>3
    <3> QED
      BY <2>3, <2>4, <3>1, <3>2, <3>3, <3>4
  <2>5. CASE n = 0
    <3>1. Queued(n) = pending /\ taken + n = taken
      BY <1>t, <2>5 DEF Queued
    <3> QED
      BY <1>n, <1>t, <2>1, <2>2, <2>3, <3>1
  <2> QED
    BY <2>4, <2>5
<1>4. ASSUME NEW n \in {0, 1}, NEW end \in BOOLEAN, ReadPrebuffer(n, end) PROVE TcpHeardInv'
  <2>1. /\ stage = "prebuffer" /\ Arrives(n, end) /\ taken' = taken + n /\ eof' = end
        /\ pending' = Queued(n) /\ UNCHANGED <<hand, heard, mishaps>> /\ Served
    BY <1>4 DEF ReadPrebuffer, Served
  <2>2. Pipeline /\ hand = 0 /\ serving \in Streams
    BY <1>i, <1>p, <1>t, <2>1
  <2>3. CASE Queued(n) = <<>>
    <3>1. n # 1
      BY <1>n, <2>3 DEF Queued
    <3>2. end /\ Stop
      BY <1>4, <2>1, <2>3, <3>1 DEF Arrives, ReadPrebuffer
    <3>3. heard[serving] = Numbers(taken + n)
      BY <1>n, <1>r, <2>1, <2>2, <2>3, InOrderDone
    <3> QED
      BY <1>e, <1>r, <2>1, <3>2, <3>3
  <2>4. CASE Queued(n) # <<>>
    <3>1. UNCHANGED <<sock, backlog, serving>> /\ stage' \in {"prebuffer", "gate"}
      BY <1>4, <2>4 DEF ReadPrebuffer
    <3>2. Pipeline'
      BY <1>r, <2>1, <2>2, <3>1 DEF Pipeline
    <3> QED
      BY <2>1, <3>1, <3>2, HeardGoesOn DEF Served
  <2> QED
    BY <2>3, <2>4
<1>5. ASSUME NEW n \in {0, 1}, NEW end \in BOOLEAN, Refill(n, end) PROVE TcpHeardInv'
  <2>1. /\ stage = "refill" /\ Arrives(n, end) /\ taken' = taken + n /\ eof' = end
        /\ UNCHANGED <<heard, mishaps>> /\ Served
    BY <1>5 DEF Refill, Served
  <2>2. Pipeline /\ hand = 0 /\ serving \in Streams
    BY <1>i, <1>p, <1>t, <2>1
  <2>3. CASE Queued(n) = <<>>
    <3>1. n # 1
      BY <1>n, <2>3 DEF Queued
    <3>2. end /\ Stop
      BY <1>5, <2>1, <2>3, <3>1 DEF Arrives, Refill, FinishStream
    <3>3. heard[serving] = Numbers(taken + n)
      BY <1>n, <1>r, <2>1, <2>2, <2>3, InOrderDone
    <3> QED
      BY <1>e, <1>r, <2>1, <3>2, <3>3
  <2>4. CASE Queued(n) # <<>>
    <3>1. UNCHANGED <<sock, backlog, serving>> /\ WriteNext(Queued(n))
      BY <1>5, <2>4 DEF Refill
    <3>2. InOrder(heard[serving], Head(Queued(n)), Tail(Queued(n)), taken + n)
      BY <1>n, <1>r, <2>1, <2>2, <2>4, InOrderNext
    <3>3. Pipeline'
      BY <1>r, <2>1, <2>2, <3>1, <3>2 DEF Pipeline, WriteNext
    <3> QED
      BY <2>1, <3>1, <3>3, HeardGoesOn DEF Served, WriteNext
  <2> QED
    BY <2>3, <2>4
<1>6. CASE EnterGate
  <2>1. /\ stage = "gate" /\ stage' = "settle"
        /\ UNCHANGED <<sock, backlog, serving, mishaps, eof, taken, pending, hand, heard>>
    BY <1>6 DEF EnterGate, bufferVars
  <2> QED
    BY <1>i, <2>1, HeardGoesOn DEF Served, Pipeline
<1>7. CASE StartDriver
  <2>1. /\ stage = "settle" /\ WriteNext(pending) /\ pending # <<>> /\ hand = 0
        /\ UNCHANGED <<sock, backlog, serving, mishaps, eof, taken, heard>>
    BY <1>7, <1>p DEF StartDriver
  <2>2. Pipeline
    BY <1>i, <2>1 DEF Served
  <2>3. InOrder(heard[serving], Head(pending), Tail(pending), taken)
    BY <1>n, <1>t, <2>1, <2>2, InOrderNext DEF Pipeline
  <2> QED
    BY <2>1, <2>2, <2>3, HeardGoesOn DEF Served, Pipeline, WriteNext
<1>8. CASE SlabWritten
  <2>1. /\ stage = "write" /\ hand # 0 /\ Served /\ UNCHANGED <<eof, taken, mishaps>>
        /\ heard' = [heard EXCEPT ![serving] = Append(heard[serving], hand)]
    BY <1>8, <1>p DEF SlabWritten, Served
  <2>2. Pipeline /\ serving \in Streams
    BY <1>i, <1>t, <2>1
  <2>3. /\ heard'[serving] = Append(heard[serving], hand)
        /\ \A c \in Streams : c # serving => heard'[c] = heard[c]
    BY <1>t, <2>1, <2>2
  <2>4. heard'[serving] \in Seq(Nat) /\ InOrder(heard'[serving], 0, pending, taken)
    <3>1. InOrder(Append(heard[serving], hand), 0, pending, taken)
      BY <1>n, <1>t, <2>1, <2>2, InOrderWritten DEF Pipeline
    <3>2. Append(heard[serving], hand) \in Seq(Nat)
      BY <1>n, <1>t, <2>1
    <3> QED
      BY <2>3, <3>1, <3>2
  <2>5. CASE eof /\ pending = <<>>
    <3>1. Stop
      BY <1>8, <2>5 DEF SlabWritten, FinishStream
    <3>2. sock[serving].end # "open" /\ taken = sock[serving].sent
      BY <2>2, <2>5 DEF Pipeline
    <3>3. heard'[serving] = Numbers(taken)
      BY <1>t, <2>4, <2>5, InOrderDone
    <3> QED
      BY <1>e, <1>t, <2>1, <2>3, <3>1, <3>2, <3>3
  <2>6. CASE ~(eof /\ pending = <<>>)
    <3>1. /\ UNCHANGED <<sock, backlog, serving>>
          /\ \/ (eof \/ Len(pending) >= Prebuffer) /\ WriteNext(pending)
             \/ stage' = "refill" /\ hand' = 0 /\ UNCHANGED pending
      BY <1>8, <2>6 DEF SlabWritten
    <3>2. CASE stage' = "refill" /\ hand' = 0 /\ UNCHANGED pending
      <4>1. Pipeline'
        BY <2>1, <2>2, <2>4, <3>1, <3>2 DEF Pipeline
      <4> QED
        BY <2>1, <2>3, <3>1, <3>2, <4>1, HeardGoesOn DEF Served
    <3>3. CASE (eof \/ Len(pending) >= Prebuffer) /\ WriteNext(pending)
      <4>1. pending # <<>>
        <5>1. CASE eof
          BY <2>6, <5>1
        <5>2. CASE Len(pending) >= Prebuffer
          BY <5>2, StreamSizes
        <5> QED
          BY <3>3, <5>1, <5>2
      <4>2. InOrder(heard'[serving], Head(pending), Tail(pending), taken)
        BY <1>n, <1>t, <2>4, <4>1, InOrderNext
      <4>3. Pipeline'
        BY <2>1, <2>2, <3>1, <3>3, <4>2 DEF Pipeline, WriteNext
      <4> QED
        BY <2>1, <2>3, <3>1, <3>3, <4>3, HeardGoesOn DEF Served, WriteNext
    <3> QED
      BY <3>1, <3>2, <3>3
  <2> QED
    BY <2>5, <2>6
<1>h. stage # "listen" => Hurt.hurt = mishaps.hurt \cup {serving}
  BY <1>t DEF Hurt
<1>9. ASSUME NEW lost \in {0, 1}, Reading, FailRead(lost) PROVE TcpHeardInv'
  <2>1. Served /\ Stop /\ UNCHANGED heard /\ mishaps' = [Hurt EXCEPT !.torn = Hurt.torn + lost]
    BY <1>9 DEF FailRead, Reading, FinishStream, Served
  <2>2. mishaps'.hurt = Hurt.hurt
    BY <1>t, <2>1, HurtTypes DEF Hurt
  <2> QED
    BY <1>f, <1>h, <2>1, <2>2 DEF Served
<1>10. CASE (\E lost \in {0, 1} : ReadTimesOut(lost)) \/ NoMemory
  BY <1>9, <1>10 DEF ReadTimesOut, NoMemory
<1>11. CASE GateTimesOut \/ DriverFails \/ WriteFails
  <2>1. Served /\ Stop /\ UNCHANGED heard /\ mishaps' = Hurt
    BY <1>11 DEF GateTimesOut, DriverFails, WriteFails, FinishStream, Served
  <2> QED
    BY <1>f, <1>h, <2>1 DEF Served
<1> QED
  BY <1>1, <1>2, <1>3, <1>4, <1>5, <1>6, <1>7, <1>8, <1>10, <1>11 DEF PcmStreamTask, PcmProgress

\* The loop task looks at the stream but does not touch it.
LEMMA LoopKeepsStream ==
    ASSUME LoopTask \/ SpeakerFinishes
    PROVE  UNCHANGED streamVars
BY DEF LoopTask, SpeakerStarts, SpeakerFails, PlaybackFinishes, SpeakerFinishes, HandlePlay,
   WavDownloaded, WavFails, SegmentOutOfSequence, SegmentRefused, SegmentNoMemory, SegmentStaged,
   FinalSegment, ResumeMic, MicRecords

LEMMA HeardKept ==
    ASSUME TcpHeardInv, UNCHANGED <<streamVars, sayVars>>
    PROVE  TcpHeardInv'
<1>1. UNCHANGED <<sock, backlog, serving, stage, eof, taken, pending, hand, heard, mishaps, call, at, said>>
  BY DEF streamVars, taskVars, bufferVars, sayVars
<1>2. QueueInv'
  BY <1>1 DEF TcpHeardInv, QueueInv
<1>3. SocketInv'
  BY <1>1 DEF TcpHeardInv, SocketInv, Untouched, HeardOut
<1>4. (Served => Pipeline)' /\ AcceptedInv'
  BY <1>1 DEF TcpHeardInv, Served, Pipeline, AcceptedInv
<1> QED
  BY <1>2, <1>3, <1>4 DEF TcpHeardInv

LEMMA TcpHeardStep == SpeechInv /\ TcpHeardInv /\ [Next]_vars => TcpHeardInv'
<1> SUFFICES ASSUME SpeechInv, TcpHeardInv, [Next]_vars PROVE TcpHeardInv'
  OBVIOUS
<1>1. CASE UNCHANGED vars
  BY <1>1, HeardKept DEF vars, tcpVars, streamVars
<1> QED
  BY <1>1, HeardSay, HeardBreaks, HeardPcm, LoopKeepsStream, HeardKept DEF Next

LEMMA TcpHeardHolds == Spec => []TcpHeardInv
<1>1. SpeechInit => TcpHeardInv
  <2> SUFFICES ASSUME SpeechInit PROVE TcpHeardInv
    OBVIOUS
  <2>1. \A c \in Streams : sock[c] = NoSock /\ heard[c] = <<>>
    BY DEF SpeechInit, TcpInit
  <2>2. /\ backlog = <<>> /\ serving = 0 /\ stage = "listen" /\ at = "idle"
        /\ \A c \in Callers : said[c] = "none"
    BY DEF SpeechInit, TcpInit, PlayInit
  <2> QED
    BY <2>1, <2>2 DEF TcpHeardInv, QueueInv, SocketInv, Untouched, Served, AcceptedInv, NoSock
<1> QED
  BY <1>1, TcpHeardStep, SpeechHolds, PTL DEF Spec

-----------------------------------------------------------------------------
(* The staged sessions that a call relies on *)

\* Only the call that streams has an open connection, and nothing is sent before the
\* device has accepted it (post_pcm_tcp_stream waits for OK).  A call reports once.
ClientInv ==
    /\ \A c \in Streams :
          /\ sock[c].end = "open" => c = call /\ at \in Streaming
          /\ sock[c].sent > 0 => sock[c].reply = "OK"
    /\ \A c \in Callers : c > call \/ (c = call /\ at # "idle") => said[c] = "none"

\* A staged session of c is started or played.
PlaysFor(c) == current # <<>> /\ Head(current).kind = "staged" /\ Head(current).caller = c

\* No final segment of c has been posted.
NoFinal(c) == ~HasFinal(requests, c) /\ ~PlaysFor(c)

FinalInv ==
    /\ \A c \in Callers : c > call => NoFinal(c)
    /\ at \in Beginning => NoFinal(call)
    /\ at = "posted" => /\ awaited[1].caller = call
                        /\ ~awaited[1].final => NoFinal(call)
                        /\ awaited[1].final => reply # "staged"
    /\ current # <<>> /\ Head(current).kind = "staged" =>
          Head(current).request.caller = Head(current).caller

\* The call of c has said that it was heard, or is about to: its session plays.
Relied(c) == said[c] = "staged" \/ (c = call /\ at = "posted" /\ PlaysFor(c))

\* Such a session plays, and no stream is near the speaker.  One that was accepted
\* while the playback started is closed already and has nothing to say.
Undisturbed(c) ==
    /\ PlaysFor(c)
    /\ loop = "starting" => c = call /\ at = "posted"
    /\ loop = "idle" => playing /\ sounding
    /\ stage \in {"listen", "header", "prebuffer"}
    /\ stage = "prebuffer" => sock[serving].end # "open" /\ sock[serving].sent = 0 /\ pending = <<>>

RelianceInv ==
    /\ \A c \in Callers : Relied(c) => c \in whole \/ Undisturbed(c)
    /\ at = "posted" /\ reply = "playing" => call \in whole \/ (PlaysFor(call) /\ loop = "idle")

StagedHeardInv == ClientInv /\ FinalInv /\ RelianceInv

\* The tool on its own.
LEMMA RelianceSay ==
    ASSUME SpeechInv, TcpHeardInv, StagedHeardInv, StackchanSay
    PROVE  StagedHeardInv'
<1>d. UNCHANGED <<serving, stage, pending, playing, sounding, loop, current, whole>>
  BY SayKeepsDevice DEF bufferVars, speakerVars, playVars
<1>t. /\ sock \in [Streams -> Socks] /\ (stage # "listen" => serving \in Streams)
      /\ call \in Nat /\ (at # "idle" => call \in Streams) /\ Callers = Streams /\ Streams \subseteq Nat
      /\ said \in [Callers -> {"none", "tcp", "staged", "wav"}] /\ requests \in Seq(Requests)
      /\ at \in Places
  BY SaySizes, StreamSizes DEF SpeechInv, SlabInv, SockTypes, SayInv, SayTypes, RequestInv, Streams
<1>i. ClientInv /\ FinalInv /\ RelianceInv /\ QueueInv /\ SocketInv /\ AcceptedInv
  BY DEF StagedHeardInv, TcpHeardInv
<1>c. (UNCHANGED call /\ at # "idle") \/ (at = "idle" /\ call' = call + 1 /\ UNCHANGED <<said, requests>>)
  BY SayProgress
\* The connections: which are open, and what was sent.
<1>s. ASSUME NEW c \in Streams
      PROVE  /\ sock'[c].end = "open" => c = call /\ call' = call /\ at' \in Streaming
             /\ sock'[c].sent > 0 => sock'[c].reply = "OK"
             /\ sock[c].end # "open" /\ sock[c].end # "none" => sock'[c] = sock[c]
  <2>1. sock[c] \in Socks /\ sock[c].sent \in Nat
    BY <1>t, StreamSizes DEF Socks
  <2>2. CASE at \notin Streaming /\ at' \notin Streaming /\ UNCHANGED <<sock, backlog>>
    BY <1>i, <2>2 DEF ClientInv
  <2>3. CASE Opens /\ UNCHANGED call
    <3>1. call \in Streams
      BY <1>t, <2>3 DEF Opens
    <3> QED
      BY <1>i, <1>t, <2>1, <2>3, <3>1 DEF ClientInv, Opens, Socks, Streaming
  <2>4. CASE Sends /\ UNCHANGED call
    <3>1. call \in Streams
      BY <1>t, <2>4 DEF Sends, Streaming
    <3>2. PICK new \in Socks :
             /\ sock' = [sock EXCEPT ![call] = new]
             /\ new.end = "open" /\ new.reply = sock[call].reply /\ new.stopped = sock[call].stopped
             /\ new.sent >= sock[call].sent /\ (new.sent = sock[call].sent \/ at' = "stream")
      BY <2>4 DEF Sends
    <3>3. sock[call].end = "open" /\ at' \in Streaming
          /\ (at' = "stream" => sock[call].reply = "OK" \/ at = "stream")
      BY <2>4 DEF Sends
    <3>4. new.sent > 0 => new.reply = "OK"
      BY <1>i, <3>1, <3>2, <3>3 DEF ClientInv, AcceptedInv
    <3> QED
      BY <1>i, <1>t, <2>1, <2>4, <3>1, <3>2, <3>3, <3>4 DEF ClientInv
  <2>5. CASE Closes /\ UNCHANGED call
    <3>1. call \in Streams /\ sock[call] \in Socks
      BY <1>t, <2>5 DEF Closes, Streaming
    <3>2. sock'[call].end = (IF sock[call].end = "open" THEN "closed" ELSE sock[call].end)
          /\ sock'[call].sent = sock[call].sent /\ sock'[call].reply = sock[call].reply
          /\ (sock[call].end # "open" => sock'[call] = sock[call])
      <4>1. sock[call].end # "open" => [sock[call] EXCEPT !.end = sock[call].end] = sock[call]
        BY <3>1 DEF Socks
      <4> QED
        BY <1>t, <2>5, <3>1, <4>1 DEF Closes, Socks
    <3>3. c # call => sock'[c] = sock[c]
      BY <1>t, <2>5, <3>1 DEF Closes
    <3> QED
      BY <1>i, <2>1, <3>2, <3>3 DEF ClientInv
  <2> QED
    BY SayConnections, <2>2, <2>3, <2>4, <2>5
<1>1. ClientInv'
  <2>1. ASSUME NEW c \in Callers, c > call' \/ (c = call' /\ at' # "idle") PROVE said'[c] = "none"
    <3>1. UNCHANGED said \/ (at' = "idle" /\ UNCHANGED call /\ \E tr : said' = [said EXCEPT ![call] = tr])
      BY SayProgress, <1>c
    <3>2. CASE UNCHANGED said
      <4>1. c > call \/ (c = call /\ at # "idle")
        BY <1>c, <1>t, <2>1
      <4> QED
        BY <1>i, <3>2, <4>1 DEF ClientInv
    <3>3. CASE at' = "idle" /\ UNCHANGED call /\ \E tr : said' = [said EXCEPT ![call] = tr]
      <4>1. c > call /\ c # call
        BY <1>t, <2>1, <3>3
      <4> QED
        BY <1>i, <1>t, <3>3, <4>1 DEF ClientInv
    <3> QED
      BY <3>1, <3>2, <3>3
  <2> QED
    BY <1>s, <2>1 DEF ClientInv
\* Nothing new plays, and the only segment that may be posted is one of the call.
<1>n. ASSUME NEW c \in Callers, NoFinal(c),
             UNCHANGED requests \/ \E r \in Requests : requests' = Append(requests, r) /\ ~IsFinal(r, c)
      PROVE  NoFinal(c)'
  <2>1. CASE UNCHANGED requests
    BY <1>d, <1>n, <2>1 DEF NoFinal, PlaysFor
  <2>2. ASSUME NEW r \in Requests, requests' = Append(requests, r), ~IsFinal(r, c) PROVE NoFinal(c)'
    <3>1. HasFinal(Append(requests, r), c) <=> HasFinal(requests, c)
      <4> HIDE DEF IsFinal, HasFinal
      <4> QED
        BY <1>t, <2>2, OnePosted
    <3> QED
      BY <1>d, <1>n, <2>2, <3>1 DEF NoFinal, PlaysFor
  <2> QED
    BY <1>n, <2>1, <2>2
<1>r. \/ UNCHANGED requests /\ at' # "posted"
      \/ \E r \in Requests : requests' = Append(requests, r) /\ r.kind = "play" /\ at' # "posted"
      \/ \E r \in Requests : /\ requests' = Append(requests, r) /\ awaited' = <<r>>
                             /\ r.kind = "segment" /\ r.caller = call /\ UNCHANGED call
                             /\ reply' = "none" /\ at = "staged" /\ at' = "posted"
  BY SayProgress
<1>2. FinalInv'
  <2>1. ASSUME NEW c \in Callers, c > call' PROVE NoFinal(c)'
    <3>1. c > call /\ c # call
      BY <1>c, <1>t, <2>1
    <3>2. NoFinal(c)
      BY <1>i, <3>1 DEF FinalInv
    <3> QED
      BY <1>n, <1>r, <3>1, <3>2 DEF IsFinal
  <2>2. ASSUME at' \in Beginning PROVE NoFinal(call)'
    <3>1. at' # "posted" /\ at' # "idle"
      BY <2>2 DEF Beginning, Streaming
    <3>2. call' \in Callers
      <4>1. SayTypes'
        BY SaySteps DEF SpeechInv, SayInv
      <4> QED
        BY <1>t, <3>1, <4>1 DEF SayTypes
    <3>3. NoFinal(call')
      <4>1. CASE call' = call + 1
        <5>1. call' > call
          BY <1>t, <4>1
        <5> QED
          BY <1>i, <3>2, <5>1 DEF FinalInv
      <4>2. CASE at \in Beginning /\ call' = call
        BY <1>i, <4>2 DEF FinalInv
      <4>3. CASE at = "posted" /\ reply = "staged" /\ call' = call
        <5>1. awaited[1].final \in BOOLEAN
          BY <4>3, SegmentRequest DEF SpeechInv, SayInv, SegmentAwaited
        <5> QED
          BY <1>i, <4>3, <5>1 DEF FinalInv
      <4> QED
        BY <1>c, <2>2, <4>1, <4>2, <4>3, SayProgress
    <3>4. ASSUME NEW c \in Callers, c = call' PROVE NoFinal(c)'
      <4>1. NoFinal(c)
        BY <3>3, <3>4
      <4> QED
        BY <1>n, <1>r, <3>1, <4>1 DEF IsFinal
    <3> QED
      BY <3>2, <3>4 DEF NoFinal, PlaysFor
  <2>3. ASSUME at' = "posted"
        PROVE  /\ awaited'[1].caller = call'
               /\ ~awaited'[1].final => NoFinal(call)'
               /\ awaited'[1].final => reply' # "staged"
    <3>1. PICK r \in Requests : /\ requests' = Append(requests, r) /\ awaited' = <<r>>
                                /\ r.kind = "segment" /\ r.caller = call /\ UNCHANGED call
                                /\ reply' = "none" /\ at = "staged" /\ at' = "posted"
      BY <1>r, <2>3
    <3>2. NoFinal(call) /\ call \in Callers
      BY <1>i, <1>t, <3>1 DEF FinalInv, Beginning
    <3>3. ~r.final => NoFinal(call)'
      <4>1. ~r.final => ~IsFinal(r, call)
        BY DEF IsFinal
      <4>2. ASSUME NEW c \in Callers, c = call, ~r.final PROVE NoFinal(c)'
        BY <1>n, <3>1, <3>2, <4>1, <4>2
      <4> QED
        BY <3>1, <3>2, <4>2 DEF NoFinal, PlaysFor
    <3> QED
      BY <3>1, <3>3
  <2>4. current' # <<>> /\ Head(current').kind = "staged" =>
           Head(current').request.caller = Head(current').caller
    BY <1>d, <1>i DEF FinalInv
  <2> QED
    BY <2>1, <2>2, <2>3, <2>4 DEF FinalInv
<1>3. RelianceInv'
  <2>1. ASSUME at' = "posted" PROVE reply' = "none" /\ ~PlaysFor(call)'
    <3>1. reply' = "none" /\ at = "staged" /\ UNCHANGED call
      BY <1>r, <2>1
    <3>2. ~PlaysFor(call)
      BY <1>i, <3>1 DEF FinalInv, Beginning, NoFinal
    <3> QED
      BY <1>d, <3>1, <3>2 DEF PlaysFor
  <2>2. ASSUME NEW c \in Callers, Undisturbed(c), loop = "idle" PROVE Undisturbed(c)'
    <3>1. stage = "prebuffer" => sock'[serving] = sock[serving]
      BY <1>i, <1>s, <1>t, <2>2 DEF Undisturbed, QueueInv
    <3> QED
      BY <1>d, <2>2, <3>1 DEF Undisturbed, PlaysFor
  <2>3. ASSUME NEW c \in Callers, Relied(c)' PROVE c \in whole \/ Undisturbed(c)'
    <3>1. said'[c] = "staged"
      BY <2>1, <2>3 DEF Relied, PlaysFor
    <3>2. said[c] = "staged" \/ (c = call /\ at = "posted" /\ reply = "playing")
      BY <1>t, <3>1, SayProgress
    <3>3. CASE said[c] = "staged"
      <4>1. ~(c = call /\ at = "posted")
        BY <1>i, <3>3 DEF ClientInv
      <4>2. c \in whole \/ (Undisturbed(c) /\ loop # "starting")
        BY <1>i, <3>3, <4>1 DEF RelianceInv, Relied, Undisturbed
      <4> QED
        BY <2>2, <4>2 DEF SpeechInv, SpeakerInv
    <3>4. CASE c = call /\ at = "posted" /\ reply = "playing"
      <4>1. c \in whole \/ (PlaysFor(c) /\ loop = "idle")
        BY <1>i, <3>4 DEF RelianceInv
      <4>2. c \in whole \/ (Undisturbed(c) /\ loop = "idle")
        BY <1>i, <3>4, <4>1 DEF RelianceInv, Relied
      <4> QED
        BY <2>2, <4>2
    <3> QED
      BY <3>2, <3>3, <3>4
  <2> QED
    BY <1>d, <2>1, <2>3 DEF RelianceInv
<1> QED
  BY <1>1, <1>2, <1>3 DEF StagedHeardInv

\* A step that leaves the requests and the loop task alone.
LEMMA RelianceKept ==
    ASSUME StagedHeardInv, UNCHANGED <<playRequestVars, sayVars>>, ClientInv',
           \A c \in Callers : Relied(c) /\ Undisturbed(c) => Undisturbed(c)'
    PROVE  StagedHeardInv'
<1>1. UNCHANGED <<requests, awaited, reply, current, loop, whole, call, at, said>>
  BY DEF playRequestVars, requestVars, playVars, sayVars
<1>2. ClientInv /\ FinalInv /\ RelianceInv
  BY DEF StagedHeardInv
<1>3. FinalInv'
  BY <1>1, <1>2 DEF FinalInv, NoFinal, PlaysFor
<1>4. RelianceInv'
  <2>1. \A c \in Callers : Relied(c)' <=> Relied(c)
    BY <1>1 DEF Relied, PlaysFor
  <2>2. at' = "posted" /\ reply' = "playing" => call' \in whole' \/ (PlaysFor(call') /\ loop = "idle")
    BY <1>1, <1>2 DEF RelianceInv
  <2>3. PlaysFor(call)' <=> PlaysFor(call')
    BY <1>1 DEF PlaysFor
  <2> QED
    BY <1>1, <1>2, <2>1, <2>2, <2>3 DEF RelianceInv
<1> QED
  BY <1>3, <1>4 DEF StagedHeardInv

\* A connection that breaks was not needed, or was open.
LEMMA RelianceBreaks ==
    ASSUME SpeechInv, StagedHeardInv, Breaks, UNCHANGED <<playRequestVars, sayVars>>
    PROVE  StagedHeardInv'
<1>t. /\ sock \in [Streams -> Socks] /\ (stage # "listen" => serving \in Streams)
      /\ taken \in Nat
  BY StreamSizes DEF SpeechInv, SlabInv, SockTypes, BufferTypes
<1>i. ClientInv
  BY DEF StagedHeardInv
<1>1. PICK s \in Streams : NetworkBreaks(s)
  BY DEF Breaks
<1>2. PICK n \in (IF s = serving THEN taken ELSE 0) .. sock[s].sent :
         sock' = [sock EXCEPT ![s] = [sock[s] EXCEPT !.end = "reset", !.sent = n]]
  BY <1>1 DEF NetworkBreaks
<1>3. UNCHANGED <<serving, stage, pending, playing, sounding, loop, current, call, at, said>>
  BY <1>1 DEF NetworkBreaks, taskVars, bufferVars, speakerVars, sayVars, playRequestVars, playVars
<1>4. /\ sock'[s].end = "reset" /\ sock'[s].reply = sock[s].reply /\ sock'[s].sent = n
      /\ \A c \in Streams \ {s} : sock'[c] = sock[c]
      /\ sock[s].sent \in Nat /\ n \in Nat /\ n <= sock[s].sent
  <2>1. sock[s] \in Socks /\ sock[s].sent \in Nat
    BY <1>t, StreamSizes DEF Socks
  <2>2. /\ [sock[s] EXCEPT !.end = "reset", !.sent = n].sent = n
        /\ [sock[s] EXCEPT !.end = "reset", !.sent = n].end = "reset"
        /\ [sock[s] EXCEPT !.end = "reset", !.sent = n].reply = sock[s].reply
    BY <2>1 DEF Socks
  <2>3. n \in Nat /\ n <= sock[s].sent
    BY <1>t, <2>1
  <2> QED
    BY <1>2, <1>t, <2>1, <2>2, <2>3
<1>5. ClientInv'
  BY <1>i, <1>3, <1>4 DEF ClientInv
<1>6. ASSUME NEW c \in Callers, Undisturbed(c) PROVE Undisturbed(c)'
  <2>1. stage = "prebuffer" => sock'[serving].end # "open" /\ sock'[serving].sent = 0
    BY <1>t, <1>4, <1>6 DEF Undisturbed
  <2> QED
    BY <1>3, <1>6, <2>1 DEF Undisturbed, PlaysFor
<1> QED
  BY <1>5, <1>6, RelianceKept

\* While a session plays that a call relies on, no stream reaches the speaker: one that
\* asks then is refused, and one that asked before has no slab to play.
LEMMA ReliancePcm ==
    ASSUME SpeechInv, TcpHeardInv, StagedHeardInv, PcmStreamTask,
           UNCHANGED <<playRequestVars, sayVars>>
    PROVE  StagedHeardInv'
<1>t. /\ sock \in [Streams -> Socks] /\ stage \in Stages /\ (stage # "listen" => serving \in Streams)
      /\ pending \in Seq(1 .. MaxSlabs) /\ taken \in Nat
      /\ stage \in {"listen", "header"} => pending = <<>>
  BY StreamSizes DEF SpeechInv, SlabInv, SockTypes, BufferTypes, SlabPlaces
<1>i. ClientInv /\ SocketInv /\ QueueInv
  BY DEF StagedHeardInv, TcpHeardInv
<1>w. UNCHANGED <<loop, current, call, at, said>>
  BY DEF sayVars, playRequestVars, playVars
<1>h. ASSUME NEW answer, HangUp(answer), stage # "listen"
      PROVE  /\ \A c \in Streams : sock'[c].end = sock[c].end /\ sock'[c].sent = sock[c].sent
             /\ sock'[serving].reply = answer /\ \A c \in Streams \ {serving} : sock'[c] = sock[c]
             /\ stage' = "listen"
  <2>1. sock' = [sock EXCEPT ![serving] = [sock[serving] EXCEPT !.stopped = TRUE, !.reply = answer]]
        /\ sock[serving] \in Socks
    BY <1>h, <1>t DEF HangUp
  <2>2. /\ [sock[serving] EXCEPT !.stopped = TRUE, !.reply = answer].reply = answer
        /\ [sock[serving] EXCEPT !.stopped = TRUE, !.reply = answer].end = sock[serving].end
        /\ [sock[serving] EXCEPT !.stopped = TRUE, !.reply = answer].sent = sock[serving].sent
    BY <2>1 DEF Socks
  <2> QED
    BY <1>h, <1>t, <2>1, <2>2 DEF HangUp
\* Before it is accepted nothing is sent.
<1>z. stage = "header" => sock[serving].sent = 0
  <2> SUFFICES ASSUME stage = "header" PROVE sock[serving].sent = 0
    OBVIOUS
  <2>1. sock[serving].reply = "none" /\ serving \in Streams
    BY <1>i, <1>t DEF SocketInv, QueueInv, Untouched
  <2>2. sock[serving].sent \in Nat /\ ~(sock[serving].sent > 0)
    BY <1>i, <1>t, <2>1, StreamSizes DEF ClientInv, Socks
  <2> QED
    BY <2>2
<1>c. ASSUME \A c \in Streams : /\ sock'[c].end = sock[c].end /\ sock'[c].sent = sock[c].sent
                                /\ sock[c].sent = 0 \/ sock'[c].reply \in {"OK", sock[c].reply}
      PROVE  ClientInv'
  BY <1>c, <1>i, <1>w DEF ClientInv
<1>s. ASSUME Stop, stage # "listen",
             UNCHANGED <<playing, sounding>> \/ stage \in {"gate", "settle", "write", "refill"}
      PROVE  StagedHeardInv'
  <2>1. /\ \A c \in Streams : /\ sock'[c].end = sock[c].end /\ sock'[c].sent = sock[c].sent
                              /\ sock'[c].reply = sock[c].reply
        /\ stage' = "listen"
    BY <1>h, <1>s, <1>t DEF Stop
  <2>2. ASSUME NEW c \in Callers, Undisturbed(c) PROVE Undisturbed(c)'
    BY <1>s, <1>w, <2>1, <2>2 DEF Undisturbed, PlaysFor
  <2>3. ClientInv'
    BY <1>c, <2>1
  <2> QED
    BY <2>2, <2>3, RelianceKept
\* What happens near the speaker happens while nobody relies on a session.
<1>a. ASSUME UNCHANGED sock, stage \in {"gate", "settle", "write", "refill"} PROVE StagedHeardInv'
  <2>1. ClientInv'
    BY <1>a, <1>c
  <2> QED
    BY <1>a, <2>1, RelianceKept DEF Undisturbed
<1>1. CASE AcceptClient
  <2>1. UNCHANGED <<sock, playing, sounding>> /\ stage' = "header"
    BY <1>1 DEF AcceptClient, speakerVars
  <2>2. ASSUME NEW c \in Callers, Undisturbed(c) PROVE Undisturbed(c)'
    BY <1>w, <2>1, <2>2 DEF Undisturbed, PlaysFor
  <2>3. ClientInv'
    BY <1>c, <2>1
  <2> QED
    BY <2>2, <2>3, RelianceKept
<1>2. CASE RefuseHeader \/ RefuseBusy
  <2>1. stage = "header" /\ HangUp("ERR") /\ UNCHANGED <<playing, sounding>>
    BY <1>2 DEF RefuseHeader, RefuseBusy, speakerVars
  <2>2. /\ \A c \in Streams : sock'[c].end = sock[c].end /\ sock'[c].sent = sock[c].sent
        /\ \A c \in Streams \ {serving} : sock'[c] = sock[c]
        /\ stage' = "listen"
    BY <1>h, <2>1
  <2>3. ClientInv'
    BY <1>c, <1>z, <2>1, <2>2
  <2>4. ASSUME NEW c \in Callers, Undisturbed(c) PROVE Undisturbed(c)'
    BY <1>w, <2>1, <2>2, <2>4 DEF Undisturbed, PlaysFor
  <2> QED
    BY <2>3, <2>4, RelianceKept
<1>3. CASE ServeClient
  <2>1. /\ stage = "header" /\ ~playing /\ ~sounding /\ stage' = "prebuffer"
        /\ UNCHANGED <<serving, pending, playing, sounding>>
        /\ sock' = [sock EXCEPT ![serving] = [sock[serving] EXCEPT !.reply = "OK"]]
    BY <1>3 DEF ServeClient, Busy, speakerVars
  <2>2. /\ \A c \in Streams : sock'[c].end = sock[c].end /\ sock'[c].sent = sock[c].sent
        /\ sock'[serving].reply = "OK" /\ \A c \in Streams \ {serving} : sock'[c] = sock[c]
    <3>1. sock[serving] \in Socks /\ serving \in Streams
      BY <1>t, <2>1
    <3>2. /\ [sock[serving] EXCEPT !.reply = "OK"].reply = "OK"
          /\ [sock[serving] EXCEPT !.reply = "OK"].end = sock[serving].end
          /\ [sock[serving] EXCEPT !.reply = "OK"].sent = sock[serving].sent
      BY <3>1 DEF Socks
    <3> QED
      BY <1>t, <2>1, <3>1, <3>2
  <2>3. ClientInv'
    BY <1>c, <2>2
  <2>4. ASSUME NEW c \in Callers, Undisturbed(c) PROVE Undisturbed(c)'
    <3>1. loop # "idle" /\ loop \in {"idle", "starting"}
      BY <2>1, <2>4 DEF Undisturbed, SpeechInv, SpeakerInv
    <3>2. at = "posted" /\ serving \in Streams
      BY <1>t, <2>1, <2>4, <3>1 DEF Undisturbed
    <3>3. sock[serving].end # "open"
      BY <1>i, <3>2 DEF ClientInv, Streaming
    <3>4. sock[serving].sent = 0 /\ pending = <<>>
      BY <1>t, <1>z, <2>1
    <3> QED
      BY <1>w, <2>1, <2>2, <2>4, <3>1, <3>2, <3>3, <3>4 DEF Undisturbed, PlaysFor
  <2> QED
    BY <2>3, <2>4, RelianceKept
<1>4. ASSUME NEW n \in {0, 1}, NEW end \in BOOLEAN, ReadPrebuffer(n, end) PROVE StagedHeardInv'
  <2>1. stage = "prebuffer" /\ Arrives(n, end) /\ UNCHANGED <<playing, sounding>>
    BY <1>4 DEF ReadPrebuffer, speakerVars
  <2>2. CASE Queued(n) = <<>>
    BY <1>4, <1>s, <2>1, <2>2 DEF ReadPrebuffer
  <2>3. CASE Queued(n) # <<>>
    <3>1. UNCHANGED sock
      BY <1>4, <2>3 DEF ReadPrebuffer
    <3>2. \A c \in Callers : ~Undisturbed(c)
      <4> SUFFICES ASSUME sock[serving].sent = 0, pending = <<>> PROVE FALSE
        BY <2>1 DEF Undisturbed
      <4>1. n = 1
        BY <2>3 DEF Queued
      <4> QED
        BY <1>t, <2>1, <4>1 DEF Arrives
    <3>3. ClientInv'
      BY <1>c, <3>1
    <3> QED
      BY <3>2, <3>3, RelianceKept
  <2> QED
    BY <2>2, <2>3
<1>5. ASSUME NEW n \in {0, 1}, NEW end \in BOOLEAN, Refill(n, end) PROVE StagedHeardInv'
  <2>1. stage = "refill"
    BY <1>5 DEF Refill
  <2>2. CASE Queued(n) = <<>>
    BY <1>5, <1>s, <2>1, <2>2 DEF Refill, FinishStream
  <2>3. CASE Queued(n) # <<>>
    BY <1>5, <1>a, <2>1, <2>3 DEF Refill
  <2> QED
    BY <2>2, <2>3
<1>6. CASE EnterGate \/ StartDriver
  BY <1>6, <1>a DEF EnterGate, StartDriver
<1>7. CASE SlabWritten
  <2>1. stage = "write"
    BY <1>7 DEF SlabWritten
  <2>2. CASE eof /\ pending = <<>>
    BY <1>7, <1>s, <2>1, <2>2 DEF SlabWritten, FinishStream
  <2>3. CASE ~(eof /\ pending = <<>>)
    BY <1>7, <1>a, <2>1, <2>3 DEF SlabWritten
  <2> QED
    BY <2>2, <2>3
<1>8. CASE (\E lost \in {0, 1} : ReadTimesOut(lost)) \/ NoMemory
  <2>1. PICK lost \in {0, 1} : Reading /\ FailRead(lost)
    BY <1>8 DEF ReadTimesOut, NoMemory
  <2>2. Stop /\ stage # "listen" /\ (UNCHANGED <<playing, sounding>> \/ stage = "refill")
    BY <2>1 DEF Reading, FailRead, FinishStream, speakerVars
  <2> QED
    BY <1>s, <2>2
<1>9. CASE GateTimesOut \/ DriverFails \/ WriteFails
  BY <1>9, <1>s DEF GateTimesOut, DriverFails, WriteFails, FinishStream, speakerVars
<1> QED
  BY <1>1, <1>2, <1>3, <1>4, <1>5, <1>6, <1>7, <1>8, <1>9 DEF PcmStreamTask, PcmProgress

\* What the loop task does.  A session that a call relies on is played to its end: the
\* loop task takes up no other while it plays.
LEMMA RelianceLoop ==
    ASSUME SpeechInv, StagedHeardInv, LoopTask \/ SpeakerFinishes, UNCHANGED sayVars
    PROVE  StagedHeardInv'
<1>t. /\ requests \in Seq(Requests) /\ (at # "idle" => call \in Callers)
      /\ (loop = "starting" \/ playing \/ sounding => current # <<>>)
      /\ \A r \in Requests : r.kind = "segment" => r.final \in BOOLEAN
  <2>1. \A r \in Requests : r.kind = "segment" => r.final \in BOOLEAN
    BY SegmentRequest
  <2> QED
    BY <2>1, SaySizes DEF SpeechInv, RequestInv, SayInv, SayTypes, SpeakerInv
<1>i. ClientInv /\ FinalInv /\ RelianceInv
  BY DEF StagedHeardInv
<1>s. UNCHANGED <<sock, serving, stage, pending, mishaps>>
  BY LoopKeepsStream DEF streamVars, taskVars, bufferVars
<1>w. UNCHANGED <<call, at, said>>
  BY DEF sayVars
<1>a. awaited' = awaited
  BY DEF LoopTask, SpeakerStarts, SpeakerFails, PlaybackFinishes, SpeakerFinishes, HandlePlay,
     WavDownloaded, WavFails, SegmentOutOfSequence, SegmentRefused, SegmentNoMemory, SegmentStaged,
     FinalSegment, ResumeMic, MicRecords, Answer, requestVars, playRequestVars
<1>c. ClientInv'
  BY <1>i, <1>s, <1>w DEF ClientInv
\* The requests only get fewer, and what newly plays is none, or a session whose final
\* segment was there.
<1>f. ASSUME requests' = requests \/ (requests # <<>> /\ requests' = Tail(requests)),
             \A c \in Callers : PlaysFor(c)' => PlaysFor(c) \/ HasFinal(requests, c),
             at = "posted" /\ awaited[1].final /\ reply' = "staged" => reply = "staged",
             current' # <<>> /\ Head(current').kind = "staged" =>
                 Head(current').request.caller = Head(current').caller
      PROVE  FinalInv'
  <2>1. ASSUME NEW c \in Callers, NoFinal(c) PROVE NoFinal(c)'
    <3>1. HasFinal(requests', c) => HasFinal(requests, c)
      BY <1>f, <1>t, FirstServed
    <3> QED
      BY <1>f, <2>1, <3>1 DEF NoFinal
  <2>2. ASSUME at # "idle", NoFinal(call) PROVE NoFinal(call)'
    <3>1. \A c \in Callers : c = call => NoFinal(c)'
      BY <2>1, <2>2
    <3> QED
      BY <1>t, <1>w, <2>2, <3>1 DEF NoFinal, PlaysFor
  <2>3. \A c \in Callers : c > call' => NoFinal(c)'
    BY <1>i, <1>w, <2>1 DEF FinalInv
  <2>4. at' \in Beginning => NoFinal(call)'
    BY <1>i, <1>w, <2>2 DEF FinalInv, Beginning, Streaming
  <2>5. at' = "posted" => /\ awaited'[1].caller = call'
                          /\ ~awaited'[1].final => NoFinal(call)'
                          /\ awaited'[1].final => reply' # "staged"
    BY <1>a, <1>f, <1>i, <1>w, <2>2 DEF FinalInv
  <2> QED
    BY <1>f, <2>3, <2>4, <2>5 DEF FinalInv
\* The speaker is left alone.
<1>q. ASSUME UNCHANGED <<current, loop, playing, sounding, whole>>,
             requests' = requests \/ (requests # <<>> /\ requests' = Tail(requests)),
             reply' # reply => /\ reply' # "playing"
                               /\ at = "posted" /\ awaited[1].final => reply' # "staged"
      PROVE  StagedHeardInv'
  <2>1. FinalInv'
    <3>1. \A c \in Callers : PlaysFor(c)' => PlaysFor(c)
      BY <1>q DEF PlaysFor
    <3>2. current' # <<>> /\ Head(current').kind = "staged" =>
             Head(current').request.caller = Head(current').caller
      BY <1>q, <1>i DEF FinalInv
    <3> QED
      BY <1>q, <1>f, <3>1, <3>2
  <2>2. \A c \in Callers : (Relied(c)' => Relied(c)) /\ (Undisturbed(c) => Undisturbed(c)')
    BY <1>q, <1>s, <1>w DEF Relied, Undisturbed, PlaysFor
  <2>3. at' = "posted" /\ reply' = "playing" => call' \in whole' \/ (PlaysFor(call)' /\ loop' = "idle")
    BY <1>i, <1>q, <1>w DEF RelianceInv, PlaysFor
  <2> QED
    BY <1>c, <1>i, <1>q, <2>1, <2>2, <2>3 DEF StagedHeardInv, RelianceInv
\* A request is answered.
<1>r. ASSUME UNCHANGED <<current, loop, playing, sounding, whole>>, requests # <<>>,
             requests' = Tail(requests), NEW answer, Answer(Head(requests), answer),
             answer # "playing", answer = "staged" => ~Head(requests).final
      PROVE  StagedHeardInv'
  <2>1. reply' # reply => reply' = answer /\ awaited[1] = Head(requests)
    BY <1>r DEF Answer
  <2> QED
    BY <1>q, <1>r, <2>1
\* Nothing is left to play, or a WAV.
<1>l. ASSUME current' = <<>> \/ Head(current').kind = "wav", requests' = requests,
             reply' \in {reply, "refused"}, whole' = whole,
             \A c \in Callers : said[c] = "staged" => c \in whole,
             at = "posted" /\ reply' = "playing" => call \in whole
      PROVE  StagedHeardInv'
  <2>1. \A c : ~PlaysFor(c)'
    BY <1>l DEF PlaysFor
  <2>2. FinalInv'
    BY <1>l, <1>f, <2>1
  <2>3. RelianceInv'
    BY <1>l, <1>w, <2>1 DEF RelianceInv, Relied
  <2> QED
    BY <1>c, <2>2, <2>3 DEF StagedHeardInv
\* Between playbacks nobody relies on one that is not whole.
<1>v. ASSUME loop = "idle", ~(playing /\ sounding)
      PROVE  /\ \A c \in Callers : Relied(c) => c \in whole
             /\ \A c \in Callers : said[c] = "staged" => c \in whole
             /\ at = "posted" /\ reply = "playing" => call \in whole
  <2>1. \A c \in Callers : Relied(c) => c \in whole
    BY <1>i, <1>v DEF RelianceInv, Undisturbed
  <2> QED
    BY <1>i, <1>t, <2>1 DEF RelianceInv, Relied
<1>1. CASE SpeakerStarts
  <2>1. /\ loop = "starting" /\ loop' = "idle" /\ playing' /\ sounding' /\ current # <<>>
        /\ UNCHANGED <<current, whole, requests>>
        /\ \/ UNCHANGED reply
           \/ Head(current).kind # "wav" /\ awaited = <<Head(current).request>> /\ reply' = "playing"
    BY <1>1, <1>t DEF SpeakerStarts, Answer, requestVars
  <2>2. FinalInv'
    <3>1. \A c \in Callers : PlaysFor(c)' => PlaysFor(c)
      BY <2>1 DEF PlaysFor
    <3>2. current' # <<>> /\ Head(current').kind = "staged" =>
             Head(current').request.caller = Head(current').caller
      BY <2>1, <1>i DEF FinalInv
    <3> QED
      BY <2>1, <1>f, <3>1, <3>2
  <2>3. \A c \in Callers : (Relied(c)' => Relied(c)) /\ (Undisturbed(c) => Undisturbed(c)')
    BY <2>1, <1>s, <1>w DEF Relied, Undisturbed, PlaysFor
  <2>4. ASSUME at = "posted", reply' = "playing" PROVE call \in whole \/ PlaysFor(call)
    <3>1. CASE UNCHANGED reply
      BY <1>i, <2>1, <2>4, <3>1 DEF RelianceInv
    <3>2. CASE Head(current).kind # "wav" /\ awaited = <<Head(current).request>>
      <4>1. Head(current).kind = "staged"
        BY <2>1, <3>2 DEF SpeechInv, SpeakerInv, Playable
      <4>2. Head(current).request.caller = call
        BY <1>i, <2>4, <3>2 DEF FinalInv
      <4> QED
        BY <1>i, <2>1, <4>1, <4>2 DEF FinalInv, PlaysFor
    <3> QED
      BY <2>1, <3>1, <3>2
  <2>5. at' = "posted" /\ reply' = "playing" => call' \in whole' \/ (PlaysFor(call)' /\ loop' = "idle")
    BY <1>w, <2>1, <2>4 DEF PlaysFor
  <2> QED
    BY <1>c, <1>i, <2>1, <2>2, <2>3, <2>5 DEF StagedHeardInv, RelianceInv
<1>2. CASE SpeakerFails
  <2>1. /\ loop = "starting" /\ current' = <<>> /\ UNCHANGED <<whole, requests>>
        /\ reply' \in {reply, "refused"}
    BY <1>2 DEF SpeakerFails, Answer, requestVars
  <2>2. \A c \in Callers : said[c] = "staged" => c \in whole
    BY <1>i, <2>1 DEF RelianceInv, Relied, Undisturbed, ClientInv
  <2>3. at = "posted" /\ reply' = "playing" => call \in whole
    BY <1>i, <2>1 DEF RelianceInv
  <2> QED
    BY <1>l, <2>1, <2>2, <2>3
<1>3. CASE PlaybackFinishes
  <2>1. /\ loop = "idle" /\ ~sounding /\ current' = <<>> /\ UNCHANGED <<whole, requests, reply>>
    BY <1>3 DEF PlaybackFinishes, requestVars
  <2> QED
    BY <1>l, <1>v, <2>1
<1>4. CASE SpeakerFinishes
  <2>1. /\ current # <<>> /\ UNCHANGED <<current, loop, requests, reply>>
        /\ whole' = whole \cup {Head(current).caller}
    BY <1>4, <1>t DEF SpeakerFinishes, requestVars
  <2>2. FinalInv'
    <3>1. \A c \in Callers : PlaysFor(c)' => PlaysFor(c)
      BY <2>1 DEF PlaysFor
    <3>2. current' # <<>> /\ Head(current').kind = "staged" =>
             Head(current').request.caller = Head(current').caller
      BY <2>1, <1>i DEF FinalInv
    <3> QED
      BY <2>1, <1>f, <3>1, <3>2
  <2>3. ASSUME NEW c \in Callers, Relied(c)' PROVE c \in whole'
    <3>1. Relied(c)
      BY <1>w, <2>1, <2>3 DEF Relied, PlaysFor
    <3>2. c \in whole \/ Head(current).caller = c
      BY <1>i, <3>1 DEF RelianceInv, Undisturbed, PlaysFor
    <3> QED
      BY <2>1, <3>2
  <2>4. at' = "posted" /\ reply' = "playing" => call' \in whole' \/ (PlaysFor(call)' /\ loop' = "idle")
    BY <1>i, <1>w, <2>1 DEF RelianceInv, PlaysFor
  <2> QED
    BY <1>c, <2>2, <2>3, <2>4 DEF StagedHeardInv, RelianceInv
<1>5. CASE HandlePlay
  BY <1>5, <1>r DEF HandlePlay, speakerVars
<1>6. CASE WavDownloaded
  <2>1. /\ loop = "idle" /\ ~playing /\ UNCHANGED <<whole, requests, reply>>
        /\ current' = <<[kind |-> "wav", caller |-> inFlight]>>
    BY <1>6 DEF WavDownloaded, BeginPlaying, requestVars
  <2> QED
    BY <1>l, <1>v, <2>1
<1>7. CASE WavFails \/ ResumeMic \/ MicRecords
  BY <1>7, <1>q DEF WavFails, ResumeMic, MicRecords, playRequestVars, requestVars, playVars
<1>8. CASE SegmentOutOfSequence \/ SegmentRefused \/ SegmentNoMemory
  BY <1>8, <1>r DEF SegmentOutOfSequence, SegmentRefused, SegmentNoMemory, SegmentCame, playVars,
     speakerVars
<1>9. CASE SegmentStaged
  BY <1>9, <1>r DEF SegmentStaged, SegmentCame, playVars, speakerVars
<1>10. CASE FinalSegment
  <2> DEFINE s == Head(requests)
  <2>1. PICK taken1 : current' = <<[kind |-> "staged", caller |-> s.caller, request |-> s,
                                    segments |-> taken1.segments]>>
    BY <1>10 DEF FinalSegment, BeginPlaying
  <2>2. /\ loop = "idle" /\ loop' = "starting" /\ ~playing /\ stage \in {"listen", "header"}
        /\ requests # <<>> /\ requests' = Tail(requests) /\ s.kind = "segment" /\ s.final
        /\ UNCHANGED <<whole, reply>>
    BY <1>10 DEF FinalSegment, BeginPlaying, SegmentCame, StagingBusy, isPcmStreamActive
  <2>3. /\ current' # <<>> /\ Head(current').kind = "staged" /\ Head(current').caller = s.caller
        /\ Head(current').request = s
    BY <2>1
  <2> HIDE DEF s
  <2>4. FinalInv'
    <3>1. ASSUME NEW c \in Callers, PlaysFor(c)' PROVE HasFinal(requests, c)
      <4>1. IsFinal(s, c)
        BY <2>2, <2>3, <3>1 DEF PlaysFor, IsFinal
      <4> QED
        BY <1>t, <2>2, <4>1, FirstServed DEF s
    <3> QED
      BY <1>f, <2>2, <2>3, <3>1
  <2>5. ASSUME NEW c \in Callers, Relied(c)' PROVE c \in whole \/ Undisturbed(c)'
    <3>1. said[c] = "staged" => c \in whole
      BY <1>v, <2>2
    <3>2. said[c] # "staged" => c = call /\ at = "posted" /\ PlaysFor(c)'
      BY <1>w, <2>5 DEF Relied
    <3> QED
      BY <1>s, <1>w, <2>2, <3>1, <3>2 DEF Undisturbed
  <2>6. at = "posted" /\ reply' = "playing" => call \in whole
    BY <1>v, <2>2
  <2> QED
    BY <1>c, <1>w, <2>2, <2>4, <2>5, <2>6 DEF StagedHeardInv, RelianceInv
<1> QED
  BY <1>1, <1>2, <1>3, <1>4, <1>5, <1>6, <1>7, <1>8, <1>9, <1>10 DEF LoopTask

LEMMA StagedHeardStep ==
    SpeechInv /\ TcpHeardInv /\ StagedHeardInv /\ [Next]_vars => StagedHeardInv'
<1> SUFFICES ASSUME SpeechInv, TcpHeardInv, StagedHeardInv, [Next]_vars PROVE StagedHeardInv'
  OBVIOUS
<1>1. CASE UNCHANGED vars
  <2>1. UNCHANGED <<playRequestVars, sayVars, sock, serving, stage, pending, playing, sounding>>
    BY <1>1 DEF vars, tcpVars, taskVars, bufferVars, speakerVars
  <2>2. ClientInv'
    BY <2>1 DEF StagedHeardInv, ClientInv, sayVars
  <2>3. ASSUME NEW c \in Callers, Undisturbed(c) PROVE Undisturbed(c)'
    BY <2>1, <2>3 DEF Undisturbed, PlaysFor, playRequestVars, playVars, sayVars
  <2> QED
    BY <2>1, <2>2, <2>3, RelianceKept
<1> QED
  BY <1>1, RelianceSay, RelianceBreaks, ReliancePcm, RelianceLoop DEF Next

\* What a call reported as said over PCM was heard when the device is done with it:
\* every slab of the stream, in order, unless a failure that the client cannot see
\* hurt it, and the staged session to its end (Speech!SaidIsHeard).
THEOREM SaidOverPcmIsHeard == Spec => []SaidIsHeard
<1>1. SpeechInit => StagedHeardInv
  <2> SUFFICES ASSUME SpeechInit PROVE StagedHeardInv
    OBVIOUS
  <2>1. \A c \in Streams : sock[c] = NoSock
    BY DEF SpeechInit, TcpInit
  <2>2. /\ at = "idle" /\ call = 0 /\ requests = <<>> /\ current = <<>>
        /\ \A c \in Callers : said[c] = "none"
    BY DEF SpeechInit, PlayInit
  <2>3. \A c : NoFinal(c)
    BY <2>2 DEF NoFinal, PlaysFor, HasFinal
  <2> QED
    BY <2>1, <2>2, <2>3
    DEF StagedHeardInv, ClientInv, FinalInv, RelianceInv, Relied, NoSock, Beginning, Streaming
<1>2. SpeechInv /\ TcpHeardInv /\ StagedHeardInv => SaidIsHeard
  <2> SUFFICES ASSUME SpeechInv, TcpHeardInv, StagedHeardInv, NEW c \in Callers
               PROVE  /\ said[c] = "tcp" /\ sock[c].stopped =>
                            heard[c] = [k \in 1 .. sock[c].sent |-> k] \/ c \in mishaps.hurt
                      /\ said[c] = "staged" /\ (\A i \in DOMAIN current : current[i].caller # c) =>
                            c \in whole
    BY DEF SaidIsHeard
  <2>1. said[c] = "tcp" /\ sock[c].stopped => heard[c] = Numbers(sock[c].sent) \/ c \in mishaps.hurt
    BY SaySizes DEF TcpHeardInv, SocketInv, AcceptedInv, HeardOut
  <2>2. ASSUME said[c] = "staged", \A i \in DOMAIN current : current[i].caller # c PROVE c \in whole
    <3>1. ~PlaysFor(c)
      <4>1. current = <<>> \/ \E what : current = <<what>>
        BY DEF SpeechInv, SpeakerInv
      <4> QED
        BY <2>2, <4>1 DEF PlaysFor
    <3> QED
      BY <2>2, <3>1 DEF StagedHeardInv, RelianceInv, Relied, Undisturbed
  <2> QED
    BY <2>1, <2>2 DEF Numbers
<1> QED
  BY <1>1, <1>2, StagedHeardStep, TcpHeardHolds, SpeechHolds, PTL DEF Spec

-----------------------------------------------------------------------------
(* The stream implements the abstract session *)

\* What the abstract session sees does not change.
LEMMA SessionKept ==
    ASSUME UNCHANGED <<serving, heard>>, isPcmStreamActive' = isPcmStreamActive,
           StreamStage' = StreamStage, \A c \in Streams : sock'[c].reply = sock[c].reply
    PROVE  UNCHANGED Session!vars
<1>1. Granted' = Granted /\ SlabsHeard' = SlabsHeard /\ SlabsWritten' = SlabsWritten
  BY DEF Granted, SlabsHeard, SlabsWritten
<1> QED
  BY <1>1 DEF Session!vars

\* The slabs heard of the stream that is served are among those it may have, and the
\* one in hand comes after them.
LEMMA HandIsNext ==
    ASSUME SpeechInv, TcpHeardInv, stage = "write"
    PROVE  hand \in 1 .. MaxSlabs /\ \A g \in SlabsHeard : g < hand
<1>1. /\ serving \in Streams /\ hand \in 0 .. MaxSlabs /\ hand # 0
      /\ heard[serving] \in Seq(1 .. MaxSlabs)
  BY DEF SpeechInv, SlabInv, SockTypes, BufferTypes, SlabPlaces
<1>2. Len(heard[serving]) \in Nat /\ DOMAIN heard[serving] = 1 .. Len(heard[serving])
  BY <1>1
<1>3. hand = Len(heard[serving]) + 1 /\ \A k \in 1 .. Len(heard[serving]) : heard[serving][k] = k
  BY <1>1 DEF TcpHeardInv, Served, Pipeline, InOrder
<1>4. \A k \in DOMAIN heard[serving] : heard[serving][k] < hand
  BY <1>2, <1>3
<1>5. \A g \in SlabsHeard : g < hand
  BY <1>4 DEF SlabsHeard, isPcmStreamActive
<1> QED
  BY <1>1, <1>5, StreamSizes

\* However a stream ends, the session is closed.
LEMMA StopCloses ==
    ASSUME SpeechInv, Served, Stop
    PROVE  Session!Close
<1>1. serving \in Streams /\ sock \in [Streams -> Socks] /\ sock[serving] \in Socks
  BY DEF SpeechInv, SlabInv, SockTypes, Served
<1>2. \A c \in Streams : sock'[c].reply = sock[c].reply
  BY <1>1 DEF Stop, HangUp, Socks
<1>3. Granted' = Granted
  BY <1>2 DEF Granted
<1>4. StreamStage # "closed" /\ StreamStage' = "closed" /\ SlabsHeard' = {} /\ SlabsWritten' = 0
  BY DEF Stop, HangUp, Served, StreamStage, SlabsHeard, SlabsWritten, isPcmStreamActive
<1> QED
  BY <1>3, <1>4 DEF Session!Close

\* A connection that is accepted was not accepted before.
LEMMA ServeOpens ==
    ASSUME SpeechInv, TcpHeardInv, ServeClient
    PROVE  Session!Open
<1>1. /\ stage = "header" /\ serving \in Streams /\ sock \in [Streams -> Socks]
      /\ sock[serving] \in Socks
      /\ sock' = [sock EXCEPT ![serving].reply = "OK"] /\ stage' = "prebuffer"
      /\ UNCHANGED <<serving, heard>>
  BY DEF ServeClient, SpeechInv, SlabInv, SockTypes
<1>2. sock[serving].reply = "none" /\ heard[serving] = <<>>
  BY <1>1 DEF TcpHeardInv, QueueInv, SocketInv, Untouched
<1>3. Granted' = Granted \cup {serving} /\ serving \notin Granted
  <2>1. sock'[serving].reply = "OK"
    BY <1>1 DEF Socks
  <2>2. \A c \in Streams : c # serving => sock'[c].reply = sock[c].reply
    BY <1>1
  <2> QED
    BY <1>1, <1>2, <2>1, <2>2 DEF Granted
<1>4. Cardinality(Granted') = Cardinality(Granted) + 1
  <2>1. IsFiniteSet(Granted)
    <3>1. IsFiniteSet(1 .. MaxStreams)
      BY StreamSizes, FS_Interval
    <3> QED
      BY <3>1, FS_Subset DEF Streams, Granted
  <2> QED
    BY <1>3, <2>1, FS_AddElement
<1>5. StreamStage = "closed" /\ StreamStage' = "open" /\ SlabsHeard' = {} /\ SlabsWritten' = 0
  BY <1>1, <1>2 DEF StreamStage, SlabsHeard, SlabsWritten, isPcmStreamActive
<1> QED
  BY <1>4, <1>5 DEF Session!Open

LEMMA PcmSimulates ==
    ASSUME SpeechInv, TcpHeardInv, PcmStreamTask
    PROVE  Session!Next \/ UNCHANGED Session!vars
<1>t. /\ stage # "listen" => serving \in Streams /\ sock[serving] \in Socks
      /\ sock \in [Streams -> Socks] /\ heard \in [Streams -> Seq(1 .. MaxSlabs)]
  BY DEF SpeechInv, SlabInv, SockTypes, BufferTypes
<1> USE DEF isPcmStreamActive
<1>s. ASSUME Served, Stop PROVE Session!Next
  BY <1>s, StopCloses DEF Session!Next
\* Before a connection is accepted, nothing happens.
<1>1. CASE AcceptClient \/ RefuseHeader \/ RefuseBusy
  <2>1. /\ StreamStage = "closed" /\ SlabsHeard = {} /\ SlabsWritten = 0
        /\ StreamStage' = "closed" /\ SlabsHeard' = {} /\ SlabsWritten' = 0
    BY <1>1 DEF AcceptClient, RefuseHeader, RefuseBusy, HangUp, StreamStage, SlabsHeard, SlabsWritten
  <2>2. Granted' = Granted
    <3>1. CASE AcceptClient
      BY <3>1 DEF AcceptClient, Granted
    <3>2. CASE RefuseHeader \/ RefuseBusy
      <4>1. stage = "header" /\ HangUp("ERR")
        BY <3>2 DEF RefuseHeader, RefuseBusy
      <4>2. sock[serving].reply = "none"
        BY <1>t, <4>1 DEF TcpHeardInv, QueueInv, SocketInv, Untouched
      <4>3. sock'[serving].reply = "ERR" /\ \A c \in Streams : c # serving => sock'[c] = sock[c]
        BY <1>t, <4>1 DEF HangUp, Socks
      <4> QED
        BY <4>2, <4>3 DEF Granted
    <3> QED
      BY <1>1, <3>1, <3>2
  <2> QED
    BY <2>1, <2>2 DEF Session!vars
<1>2. CASE ServeClient
  BY <1>2, ServeOpens DEF Session!Next
\* Slabs that are read, and the gate, are not seen.
<1>3. ASSUME NEW n \in {0, 1}, NEW end \in BOOLEAN, ReadPrebuffer(n, end) \/ Refill(n, end)
      PROVE  Session!Next \/ UNCHANGED Session!vars
  <2>1. CASE Stop
    BY <1>3, <1>s, <2>1 DEF ReadPrebuffer, Refill, Served
  <2>2. CASE ~Stop
    <3>1. /\ UNCHANGED <<sock, serving, heard>>
          /\ \/ stage = "prebuffer" /\ stage' \in {"prebuffer", "gate"}
             \/ stage = "refill" /\ stage' = "write"
      BY <1>3, <2>2 DEF ReadPrebuffer, Refill, FinishStream, WriteNext
    <3> QED
      BY <3>1, SessionKept DEF StreamStage
  <2> QED
    BY <2>1, <2>2
<1>4. CASE EnterGate
  BY <1>4, SessionKept DEF EnterGate, bufferVars, StreamStage
<1>5. CASE StartDriver
  <2>1. /\ stage = "settle" /\ stage' = "write" /\ UNCHANGED <<sock, serving, heard>>
    BY <1>5 DEF StartDriver, WriteNext
  <2>2. UNCHANGED <<Granted, SlabsHeard, SlabsWritten>>
    BY <2>1 DEF Granted, SlabsHeard, SlabsWritten
  <2>3. Session!Start
    BY <2>1, <2>2 DEF StreamStage, Session!Start
  <2> QED
    BY <2>3 DEF Session!Next
\* A slab is heard; the last one is heard as the session closes.
<1>6. CASE SlabWritten
  <2>1. CASE Stop
    BY <1>6, <1>s, <2>1 DEF SlabWritten, Served
  <2>2. CASE ~Stop
    <3>1. /\ stage = "write" /\ stage' \in {"write", "refill"} /\ UNCHANGED <<sock, serving>>
          /\ heard' = [heard EXCEPT ![serving] = Append(heard[serving], hand)]
      BY <1>6, <2>2 DEF SlabWritten, FinishStream, WriteNext
    <3>2. heard[serving] \in Seq(1 .. MaxSlabs) /\ heard'[serving] = Append(heard[serving], hand)
      BY <1>t, <3>1
    <3>3. SlabsHeard' = SlabsHeard \cup {hand}
      <4>1. /\ DOMAIN Append(heard[serving], hand) = DOMAIN heard[serving] \cup {Len(heard[serving]) + 1}
            /\ Append(heard[serving], hand)[Len(heard[serving]) + 1] = hand
            /\ \A k \in DOMAIN heard[serving] : Append(heard[serving], hand)[k] = heard[serving][k]
        BY <3>2
      <4>2. /\ SlabsHeard = {heard[serving][k] : k \in DOMAIN heard[serving]}
            /\ SlabsHeard' = {heard'[serving][k] : k \in DOMAIN heard'[serving]}
        BY <3>1 DEF SlabsHeard
      <4> QED
        BY <3>2, <4>1, <4>2
    <3>4. /\ Granted' = Granted /\ StreamStage = "playing" /\ StreamStage' = "playing"
          /\ SlabsWritten' = SlabsWritten + 1
      BY <3>1, <3>2 DEF Granted, StreamStage, SlabsWritten
    <3>5. Session!Hear(hand)
      BY <3>1, <3>3, <3>4, HandIsNext DEF Session!Hear
    <3> QED
      BY <3>1, <3>5, HandIsNext DEF Session!Next
  <2> QED
    BY <2>1, <2>2
<1>7. ASSUME NEW lost \in {0, 1}, Reading, FailRead(lost) PROVE Session!Next
  BY <1>7, <1>s DEF FailRead, Reading, FinishStream, Served
<1>8. CASE (\E lost \in {0, 1} : ReadTimesOut(lost)) \/ NoMemory
  BY <1>7, <1>8 DEF ReadTimesOut, NoMemory
<1>9. CASE GateTimesOut \/ DriverFails \/ WriteFails
  BY <1>9, <1>s DEF GateTimesOut, DriverFails, WriteFails, FinishStream, Served
<1> QED
  BY <1>1, <1>2, <1>3, <1>4, <1>5, <1>6, <1>8, <1>9 DEF PcmStreamTask, PcmProgress

LEMMA StreamSimulates ==
    SpeechInv /\ TcpHeardInv /\ [Next]_vars => [Session!Next]_(Session!vars)
<1> SUFFICES ASSUME SpeechInv, TcpHeardInv, [Next]_vars
             PROVE  Session!Next \/ UNCHANGED Session!vars
  OBVIOUS
<1>1. CASE StackchanSay
  <2>1. UNCHANGED <<serving, heard, stage>> /\ \A c \in Streams : sock'[c].reply = sock[c].reply
    BY <1>1, SayKeepsDevice, SayKeepsAnswers DEF bufferVars
  <2> QED
    BY <2>1, SessionKept DEF StreamStage, isPcmStreamActive
<1>2. CASE PcmStreamTask
  BY <1>2, PcmSimulates
<1>3. CASE Breaks
  <2>1. UNCHANGED <<serving, heard, stage>>
    BY <1>3 DEF Breaks, NetworkBreaks, taskVars, bufferVars
  <2>2. \A c \in Streams : sock'[c].reply = sock[c].reply
    BY <1>3 DEF Breaks, NetworkBreaks, SpeechInv, SlabInv, SockTypes, Socks
  <2> QED
    BY <2>1, <2>2, SessionKept DEF StreamStage, isPcmStreamActive
<1>4. CASE LoopTask \/ SpeakerFinishes \/ UNCHANGED vars
  <2>1. UNCHANGED <<sock, serving, heard, stage>>
    BY <1>4, LoopKeepsStream DEF streamVars, taskVars, bufferVars, vars, tcpVars
  <2> QED
    BY <2>1, SessionKept DEF StreamStage, isPcmStreamActive
<1> QED
  BY <1>1, <1>2, <1>3, <1>4 DEF Next

\* Every run of the tool and the device is, for the connections of the TCP stream, a run
\* of AudioSession: one at a time, each served once, its slabs heard in order and once
\* each, however the client, the network and the loop task behave
\* (TcpStream!StreamIsSession).
THEOREM StreamImplementsSession == Spec => StreamIsSession
<1>1. SpeechInit => Session!Init
  <2> SUFFICES ASSUME SpeechInit PROVE Session!Init
    OBVIOUS
  <2>1. stage = "listen" /\ \A c \in Streams : sock[c].reply = "none"
    BY DEF SpeechInit, TcpInit, NoSock
  <2>2. Granted = {} /\ Cardinality({}) = 0
    BY <2>1, FS_EmptySet DEF Granted
  <2> QED
    BY <2>1, <2>2 DEF Session!Init, StreamStage, SlabsHeard, SlabsWritten, isPcmStreamActive
<1> QED
  BY <1>1, StreamSimulates, TcpHeardHolds, SpeechHolds, PTL DEF Spec, Session!Spec, StreamIsSession

-----------------------------------------------------------------------------
(* Sharing the peripheral *)

\* The microphone stays off while the loop task waits in prepareSpeakerPlayback.
MicEnded == loop = "starting" => ~mic

\* What the contract sees does not change, or only the gate that a stream gives back.
LEMMA GateLeft ==
    ASSUME UNCHANGED <<mic, playing>>, gate'.holder = "pcm" => gate.holder = "pcm"
    PROVE  Use!UseNext \/ UNCHANGED Use!useVars
<1>1. CASE gate.holder = "pcm" /\ gate'.holder # "pcm"
  BY <1>1 DEF Use!UseNext, Use!StreamEnds
<1>2. CASE (gate.holder = "pcm") = (gate'.holder = "pcm")
  BY <1>2 DEF Use!useVars
<1> QED
  BY <1>1, <1>2

\* pcmStreamTask takes the gate as StreamStarts allows and else only gives it back.
LEMMA PcmShares ==
    ASSUME SpeechInv, MicEnded, PcmStreamTask, UNCHANGED loop
    PROVE  (Use!UseNext \/ UNCHANGED Use!useVars) /\ MicEnded'
<1>g. gate \in Gates
  BY DEF SpeechInv, SpeakerInv
<1>1. CASE EnterGate
  BY <1>1 DEF EnterGate, Take, MicEnded, Use!UseNext, Use!StreamStarts
<1>2. CASE ~EnterGate
  <2> DEFINE Leaves == UNCHANGED <<mic, playing>> /\ gate' \in {gate, Give(gate, "pcm")}
  <2>f. ASSUME NEW lost, FinishStream(lost) PROVE Leaves
    BY <2>f DEF FinishStream, EndSpeaker
  <2>r. ASSUME NEW lost, FailRead(lost) PROVE Leaves
    BY <2>r, <2>f DEF FailRead, speakerVars
  <2>1. ASSUME \/ AcceptClient \/ RefuseHeader \/ RefuseBusy \/ ServeClient \/ StartDriver
               \/ \E n \in {0, 1}, end \in BOOLEAN : ReadPrebuffer(n, end)
        PROVE  Leaves
    BY <2>1 DEF AcceptClient, RefuseHeader, RefuseBusy, ServeClient, StartDriver, ReadPrebuffer,
       speakerVars
  <2>2. ASSUME SlabWritten \/ WriteFails \/ \E n \in {0, 1}, end \in BOOLEAN : Refill(n, end)
        PROVE  Leaves
    BY <2>2, <2>f DEF SlabWritten, WriteFails, Refill, speakerVars
  <2>3. ASSUME GateTimesOut \/ DriverFails PROVE Leaves
    BY <2>3 DEF GateTimesOut, DriverFails, speakerVars
  <2>4. ASSUME (\E lost \in {0, 1} : ReadTimesOut(lost)) \/ NoMemory PROVE Leaves
    BY <2>4, <2>r DEF ReadTimesOut, NoMemory
  <2>5. Leaves
    BY <1>2, <2>1, <2>2, <2>3, <2>4 DEF PcmStreamTask, PcmProgress
  <2> QED
    BY <1>g, <2>5, GiveMakesNoHolder, GateLeft DEF MicEnded
<1> QED
  BY <1>1, <1>2

\* The loop task begins a playback under the gate, and the microphone comes back only
\* when no stream is active, or when the loop task can take the gate.
LEMMA LoopShares ==
    ASSUME SpeechInv, MicEnded, LoopTask \/ SpeakerFinishes
    PROVE  (Use!UseNext \/ UNCHANGED Use!useVars) /\ MicEnded'
<1>g. /\ gate \in Gates /\ mic \in BOOLEAN /\ playing \in BOOLEAN
      /\ loop = "starting" => ~playing /\ gate.holder # "pcm"
      /\ gate.holder = "pcm" <=> stage \in Keeping
  BY DEF SpeechInv, SpeakerInv, GateUse
<1>b. ASSUME NEW what, BeginPlaying(what), CanTake(gate, "loop"), ~playing
      PROVE  Use!UseNext /\ MicEnded'
  <2>1. gate.holder # "pcm" /\ gate'.holder # "pcm" /\ mic' = FALSE /\ playing' = playing
    BY <1>b DEF BeginPlaying, CanTake, Take
  <2> QED
    BY <1>g, <1>b, <2>1 DEF Use!UseNext, Use!PlaybackStarts, MicEnded
<1>1. CASE SpeakerStarts
  <2>1. /\ loop = "starting" /\ loop' = "idle" /\ playing' = TRUE /\ UNCHANGED mic
        /\ gate'.holder # "pcm"
    BY <1>1, <1>g, GiveMakesNoHolder DEF SpeakerStarts
  <2> QED
    BY <1>g, <2>1 DEF MicEnded, Use!UseNext, Use!PlaybackStarts
<1>2. CASE SpeakerFails
  BY <1>2, <1>g, GiveMakesNoHolder, GateLeft DEF SpeakerFails, MicEnded
<1>3. CASE PlaybackFinishes
  BY <1>3 DEF PlaybackFinishes, MicEnded, Use!UseNext, Use!PlaybackEnds
<1>4. CASE SpeakerFinishes \/ HandlePlay \/ WavFails
  BY <1>4, GateLeft DEF SpeakerFinishes, HandlePlay, WavFails, speakerVars, MicEnded
<1>5. CASE SegmentOutOfSequence \/ SegmentRefused \/ SegmentNoMemory \/ SegmentStaged
  BY <1>5, GateLeft DEF SegmentOutOfSequence, SegmentRefused, SegmentNoMemory, SegmentStaged,
     speakerVars, playVars, MicEnded
<1>6. CASE WavDownloaded
  BY <1>6, <1>b DEF WavDownloaded
<1>7. CASE FinalSegment
  BY <1>7, <1>b DEF FinalSegment, StagingBusy
<1>8. CASE ResumeMic
  <2>1. stage \notin Keeping /\ loop' = "idle"
    BY <1>8 DEF ResumeMic, hasPendingPlaybackWork, isPcmStreamActive, Keeping, playRequestVars, playVars
  <2> QED
    BY <1>8, <1>g, <2>1 DEF ResumeMic, MicEnded, Use!UseNext, Use!MicStarts
<1>9. CASE MicRecords
  <2>1. gate.holder # "pcm" /\ ~playing /\ loop = "idle" /\ mic' = TRUE
        /\ UNCHANGED <<gate, playing, loop, stage>>
    BY <1>9 DEF MicRecords, CanTake, playRequestVars, playVars, streamVars, taskVars
  <2> QED
    BY <1>g, <2>1 DEF MicEnded, Use!UseNext, Use!MicStarts
<1> QED
  BY <1>1, <1>2, <1>3, <1>4, <1>5, <1>6, <1>7, <1>8, <1>9 DEF LoopTask

LEMMA StepShares ==
    ASSUME SpeechInv, MicEnded, [Next]_vars
    PROVE  [Use!UseNext]_(Use!useVars) /\ MicEnded'
<1>1. CASE PcmStreamTask /\ UNCHANGED <<playRequestVars, sayVars>>
  BY <1>1, PcmShares DEF playRequestVars, playVars
<1>2. CASE LoopTask \/ SpeakerFinishes
  BY <1>2, LoopShares
<1>3. CASE \/ StackchanSay \/ (Breaks /\ UNCHANGED <<playRequestVars, sayVars>>)
           \/ UNCHANGED vars
  <2>1. UNCHANGED <<mic, playing, gate, loop>>
    <3>1. UNCHANGED <<stage, speakerVars, loop>>
      BY <1>3, SayKeepsSpeaker DEF vars, tcpVars, taskVars, playRequestVars, playVars
    <3> QED
      BY <3>1 DEF speakerVars
  <2> QED
    BY <2>1, GateLeft DEF MicEnded
<1> QED
  BY <1>1, <1>2, <1>3 DEF Next

\* The loop task and pcmStreamTask, each of which may wait for the gate while the other
\* has it, share the peripheral as SpeakerUse says (Speech!SharesSpeaker).
THEOREM SpeechSharesSpeaker == Spec => SharesSpeaker
<1>1. SpeechInit => Use!UseInit /\ MicEnded
  BY DEF SpeechInit, TcpInit, PlayInit, FreeGate, Use!UseInit, MicEnded
<1> QED
  BY <1>1, StepShares, SpeechHolds, PTL DEF Spec, Use!UseSpec, SharesSpeaker

=============================================================================
