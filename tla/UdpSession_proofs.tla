--------------------------- MODULE UdpSession_proofs ---------------------------
(***************************************************************************)
(* What holds of the UDP session engine while nobody stops a session with  *)
(* DELETE /audio/session: the gate is always given back.  (With DELETE it  *)
(* is not, and a run shows it.)                                            *)
(* Then the engine under a client and a network: what is heard of a        *)
(* session was sent in it, and a success means that everything was heard.  *)
(***************************************************************************)
EXTENDS UdpStream, UdpAudio_proofs

\* The gate is held by pcmStreamTask exactly from prepareUdpSpeaker to
\* finishUdpSession and by the loop task exactly in initMicrophone, once, under
\* a label; and a pump that is under way has a session that received something.
GateUse ==
    /\ gate.holder = "pcm" <=> (pc = "settle" \/ udp.playing)
    /\ gate.holder = "loop" <=> loop = "micInit"
    /\ gate.depth <= 1
    /\ gate.owner = "none" <=> gate.holder = "none"

PumpUse ==
    /\ loop # "fade"
    /\ udp.playing => udp.active /\ udp.receivedAny
    /\ pc # "idle" => udp.active /\ udp.receivedAny
    /\ pc \in {"play", "write", "fade"} => udp.playing

SessionInv == GateUse /\ PumpUse

-----------------------------------------------------------------------------
(* The gate *)

LEMMA GiveFrees ==
  ASSUME NEW g, GoodGate(g), NEW task \in GateTasks, g.holder = task, g.depth <= 1
  PROVE  Give(g, task) = FreeGate
<1>1. g.depth = 1
  BY DEF GoodGate, Gates, GateTasks
<1> QED
  BY <1>1 DEF Give

LEMMA TakeFree ==
  ASSUME NEW g, GoodGate(g), g.holder = "none", NEW task, NEW owner
  PROVE  Take(g, task, owner) = [holder |-> task, depth |-> 1, owner |-> owner]
BY DEF GoodGate, Gates, Take

LEMMA FreeGateFields == FreeGate.holder = "none" /\ FreeGate.depth = 0 /\ FreeGate.owner = "none"
BY DEF FreeGate

\* What remains of a session that ends: nothing, and a gate that is free unless
\* the loop task has it.
Ended == udp' = NoSession /\ pc' = "idle" /\ loop' = loop
         /\ (IF gate.holder = "pcm" THEN gate' = FreeGate ELSE gate' = gate)

LEMMA EndedInv == DataTypes /\ SessionInv /\ Ended => SessionInv'
<1> SUFFICES ASSUME DataTypes, SessionInv, Ended PROVE SessionInv'
  OBVIOUS
<1>1. /\ ~udp'.playing /\ ~udp'.active /\ udp'.heard = {}
  BY DEF Ended, NoSession
<1>2. GateUse'
  BY <1>1, FreeGateFields DEF Ended, SessionInv, GateUse
<1> QED
  BY <1>1, <1>2 DEF Ended, SessionInv, PumpUse

LEMMA PcmFinishesEnds ==
  ASSUME DataTypes, SpeakerInv, SessionInv, pc # "settle", NEW r, PcmFinishes(r)
  PROVE  \/ MayFade /\ pc' = "fade" /\ UNCHANGED <<udp, gate, loop, issued>>
         \/ Ended /\ UNCHANGED issued
<1>1. CASE MayFade /\ pc' = "fade" /\ UNCHANGED <<udp, last, i2s, gate, micResume>>
  BY <1>1 DEF PcmFinishes
<1>2. CASE EndSession("pcm", r) /\ pc' = "idle"
  <2>1. udp' = NoSession /\ UNCHANGED <<loop, issued>>
    BY <1>2 DEF EndSession, CloseSession, PcmFinishes
  <2>2. CASE udp.playing
    BY <1>2, <2>1, <2>2, GiveFrees
    DEF EndSession, ReleaseSpeaker, Ended, SessionInv, GateUse, DataTypes, GateTasks
  <2>3. CASE ~udp.playing
    BY <1>2, <2>1, <2>3 DEF EndSession, Ended, SessionInv, GateUse
  <2> QED
    BY <2>2, <2>3
<1> QED
  BY <1>1, <1>2 DEF PcmFinishes

\* The steps of pcmStreamTask that end a session.
EndingStep ==
    \/ PrerollTimesOut \/ GateBusy \/ EndReached \/ StreamTimesOut \/ IdleEnds
    \/ WriteFails \/ PcmFadeDone \/ I2sFails

LEMMA EndingStepEnds ==
  ASSUME DataTypes, SpeakerInv, SessionInv, EndingStep
  PROVE  /\ udp.active
         /\ \/ MayFade /\ pc' = "fade" /\ UNCHANGED <<udp, gate, loop, issued>>
            \/ Ended /\ UNCHANGED issued
<1>1. CASE PcmFadeDone
  <2>1. gate.holder = "pcm" /\ gate.depth <= 1 /\ udp.active
    BY <1>1 DEF PcmFadeDone, SessionInv, PumpUse, GateUse
  <2>2. gate' = FreeGate
    BY <1>1, <2>1, GiveFrees DEF PcmFadeDone, ReleaseSpeaker, DataTypes, GateTasks
  <2> QED
    BY <1>1, <2>1, <2>2 DEF PcmFadeDone, CloseSession, Ended
<1>2. CASE I2sFails
  <2>1. gate.holder = "pcm" /\ gate.depth <= 1 /\ udp.active
    BY <1>2 DEF I2sFails, SessionInv, PumpUse, GateUse
  <2>2. gate' = FreeGate
    BY <1>2, <2>1, GiveFrees DEF I2sFails, DataTypes, GateTasks
  <2> QED
    BY <1>2, <2>1, <2>2 DEF I2sFails, CloseSession, Ended
<1>3. CASE PrerollTimesOut \/ GateBusy \/ EndReached \/ StreamTimesOut \/ IdleEnds \/ WriteFails
  <2>1. pc # "settle" /\ udp.active
    BY <1>3 DEF PrerollTimesOut, GateBusy, EndReached, StreamTimesOut, IdleEnds, WriteFails,
       Pumping, SessionInv, PumpUse
  <2> QED
    BY <1>3, <2>1, PcmFinishesEnds DEF PrerollTimesOut, GateBusy, EndReached,
       StreamTimesOut, IdleEnds, WriteFails
<1> QED
  BY <1>1, <1>2, <1>3 DEF EndingStep

-----------------------------------------------------------------------------
(* The steps *)

\* A session that received something has received something.
LEMMA ReceivedSession ==
  ASSUME NEW u \in Sessions, NEW p \in Packets
  PROVE  u.receivedAny => Received(u, p).receivedAny
BY DEF Received, StoreFrame, Sessions

\* Steps that only move the counters of the two tasks or the clock.
QuietStep ==
    PrepareSpeaker \/ WriteDone \/ IdleDrains \/ PrerollElapses \/ SilenceGrows
      \/ ResumeMic \/ MicRecords \/ InitMicrophoneSkipped

LEMMA QuietStepKeeps ==
  ASSUME DataTypes, QuietStep
  PROVE  /\ udp'.active = udp.active /\ udp'.playing = udp.playing
         /\ udp'.receivedAny = udp.receivedAny
         /\ UNCHANGED <<gate, issued>>
BY DEF DataTypes, Sessions, QuietStep, PrepareSpeaker, WriteDone, IdleDrains, PrerollElapses,
   SilenceGrows, ResumeMic, MicRecords, InitMicrophoneSkipped

LEMMA QuietStepInv == DataTypes /\ SessionInv /\ QuietStep => SessionInv'
<1> SUFFICES ASSUME DataTypes, SessionInv, QuietStep PROVE SessionInv'
  OBVIOUS
<1>1. /\ udp'.active = udp.active /\ udp'.playing = udp.playing
      /\ udp'.receivedAny = udp.receivedAny
      /\ gate' = gate
  BY QuietStepKeeps
<1>3. CASE PrepareSpeaker \/ WriteDone \/ IdleDrains
  BY <1>1, <1>3 DEF PrepareSpeaker, WriteDone, IdleDrains, Pumping,
     SessionInv, GateUse, PumpUse
<1>4. CASE PrerollElapses \/ SilenceGrows
  BY <1>1, <1>4 DEF PrerollElapses, SilenceGrows, SessionInv, GateUse, PumpUse
<1>5. CASE ResumeMic \/ MicRecords \/ InitMicrophoneSkipped
  BY <1>1, <1>5 DEF ResumeMic, MicRecords, InitMicrophoneSkipped, SessionInv, GateUse, PumpUse
<1> QED
  BY <1>3, <1>4, <1>5 DEF QuietStep

LEMMA PlayFrameKeeps ==
  ASSUME DataTypes, SessionInv, PlayFrame
  PROVE  /\ udp'.active = udp.active /\ udp'.playing = udp.playing
         /\ udp.receivedAny /\ udp'.receivedAny
         /\ UNCHANGED <<gate, issued, loop>>
<1>1. udp.receivedAny
  BY DEF PlayFrame, Pumping, SessionInv, PumpUse
<1> QED
  BY <1>1 DEF DataTypes, Sessions, PlayFrame

LEMMA SessionStep ==
  ASSUME StopRequests = FALSE
  PROVE  DataTypes /\ SpeakerInv /\ SessionInv /\ [Next]_vars => SessionInv'
<1> SUFFICES ASSUME DataTypes, SpeakerInv, SessionInv, [Next]_vars PROVE SessionInv'
  OBVIOUS
<1>0. udp \in Sessions /\ GoodGate(gate)
  BY DEF DataTypes
<1>1. ASSUME NEW p \in Packets, HandlePacket(p) PROVE SessionInv'
  <2>1. /\ udp'.playing = udp.playing /\ udp'.active = udp.active
        /\ udp.receivedAny => udp'.receivedAny
    BY <1>0, <1>1, ReceivedKeeps, ReceivedSession DEF HandlePacket
  <2> QED
    BY <1>1, <2>1 DEF HandlePacket, SessionInv, GateUse, PumpUse
<1>2. CASE EndingStep
  <2>1. CASE MayFade /\ pc' = "fade" /\ UNCHANGED <<udp, gate, loop, issued>>
    <3>1. udp.playing
      BY <2>1 DEF MayFade
    <3> QED
      BY <2>1, <3>1 DEF SessionInv, GateUse, PumpUse
  <2>2. CASE Ended
    BY <2>2, EndedInv
  <2> QED
    BY <1>2, <2>1, <2>2, EndingStepEnds
<1>3. CASE QuietStep
  BY <1>3, QuietStepInv
<1>4. CASE GateEntered
  <2>1. gate.holder = "none"
    BY <1>4 DEF GateEntered, CanTake, SpeakerInv, SessionInv, GateUse
  <2>2. gate' = [holder |-> "pcm", depth |-> 1, owner |-> "pcm-udp"]
    BY <1>0, <1>4, <2>1, TakeFree DEF GateEntered
  <2> QED
    BY <1>4, <2>1, <2>2 DEF GateEntered, SessionInv, GateUse, PumpUse
<1>5. CASE I2sStarts
  <2>1. /\ udp'.playing /\ udp'.active = udp.active /\ udp'.receivedAny = udp.receivedAny
    BY <1>0, <1>5 DEF I2sStarts, Sessions
  <2> QED
    BY <1>5, <2>1 DEF I2sStarts, SessionInv, GateUse, PumpUse
<1>6. CASE PlayFrame
  <2>1. /\ udp'.active = udp.active /\ udp'.playing = udp.playing
        /\ udp.receivedAny /\ udp'.receivedAny
        /\ UNCHANGED <<gate, issued, loop>>
    BY <1>6, PlayFrameKeeps
  <2>4. pc' = "write" /\ udp.playing
    BY <1>6 DEF PlayFrame, Pumping, SessionInv, PumpUse
  <2>5. pc # "settle" /\ pc # "fade"
    BY <1>6 DEF PlayFrame, Pumping
  <2>6. GateUse'
    BY <2>1, <2>4, <2>5 DEF SessionInv, GateUse
  <2> QED
    BY <2>1, <2>4, <2>6 DEF SessionInv, PumpUse
<1>7. CASE BeginUdpPcmSession
  <2>1. /\ udp'.active /\ ~udp'.playing /\ ~udp'.receivedAny
    BY <1>7 DEF BeginUdpPcmSession, NoSession
  <2>2. pc = "idle" /\ ~udp.playing
    BY <1>7 DEF BeginUdpPcmSession, SessionInv, PumpUse
  <2> QED
    BY <1>7, <2>1, <2>2 DEF BeginUdpPcmSession, SessionInv, GateUse, PumpUse
<1>8. CASE StopUdpPcmSession \/ StopFadeDone
  BY <1>8 DEF StopUdpPcmSession, StopFadeDone, SessionInv, PumpUse
<1>9. CASE InitMicrophone
  <2>1. gate.holder = "none"
    BY <1>9 DEF InitMicrophone, CanTake, SessionInv, GateUse
  <2>2. gate' = [holder |-> "loop", depth |-> 1, owner |-> "mic-init"]
    BY <1>0, <1>9, <2>1, TakeFree DEF InitMicrophone
  <2> QED
    BY <1>9, <2>1, <2>2 DEF InitMicrophone, SessionInv, GateUse, PumpUse
<1>10. CASE MicrophoneBegins
  <2>1. gate.holder = "loop" /\ gate.depth <= 1
    BY <1>10 DEF MicrophoneBegins, SessionInv, GateUse
  <2>2. gate' = FreeGate
    BY <1>0, <1>10, <2>1, GiveFrees DEF MicrophoneBegins, GateTasks
  <2> QED
    BY <1>10, <2>1, <2>2, FreeGateFields
    DEF MicrophoneBegins, SessionInv, GateUse, PumpUse
<1>11. CASE UNCHANGED vars
  BY <1>11 DEF vars, SessionInv, GateUse, PumpUse
<1> QED
  BY <1>1, <1>2, <1>3, <1>4, <1>5, <1>6, <1>7, <1>8, <1>9, <1>10, <1>11
  DEF Next, PcmTask, LoopTask, MicSteps, Time, EndingStep, QuietStep

LEMMA SessionInvariant ==
  ASSUME StopRequests = FALSE
  PROVE  Spec => [](DataTypes /\ SpeakerInv /\ SessionInv)
<1>1. Init => SessionInv
  <2> SUFFICES ASSUME Init PROVE SessionInv
    OBVIOUS
  <2>1. ~udp.playing
    BY DEF Init, NoSession
  <2>2. gate.holder = "none" /\ gate.depth = 0 /\ gate.owner = "none" /\ pc = "idle" /\ loop = "idle"
    BY FreeGateFields DEF Init
  <2>5. GateUse
    BY <2>1, <2>2 DEF GateUse
  <2>3. PumpUse
    BY <2>1 DEF Init, PumpUse
  <2> QED
    BY <2>3, <2>5 DEF SessionInv
<1> QED
  BY <1>1, SessionStep, SpeakerInvariant, TypesCorrect, PTL DEF Spec

-----------------------------------------------------------------------------
(* The theorems *)

\* While nobody uses DELETE, finishUdpSession leaves no gate held: between two
\* sessions pcmStreamTask does not have it, and the owner label of
\* /playback/status tells the truth about the mutex.
THEOREM GateIsReturned ==
  ASSUME StopRequests = FALSE
  PROVE  Spec => []GateReturned
<1>1. SessionInv => GateReturned
  BY DEF SessionInv, GateUse, GateReturned
<1> QED
  BY <1>1, SessionInvariant, PTL

-----------------------------------------------------------------------------
(* The client: what is heard of a session was sent in it *)

StreamTypes ==
    /\ phase \in {"idle", "sending", "polling"}
    /\ stream \in 0 .. MaxSessions
    /\ sent \in [Tokens -> 0 .. MaxFrames]
    /\ verdict \in [Tokens -> {"none", "ok", "error"}]
    /\ net \subseteq Packets
    /\ heardBy \in [Tokens -> SUBSET FrameSeqs]

\* A session that is open is the last one issued, and so is the one that the
\* client streams to; what was heard is recorded.
ClientInv ==
    /\ phase = "idle" <=> stream = 0
    /\ stream \in {0, issued}
    /\ udp.token \in {0, issued}
    /\ udp.active <=> udp.token # 0
    /\ udp.token # 0 => heardBy[udp.token] = udp.heard
    /\ \A t \in Tokens : t > issued => heardBy[t] = {}
    /\ pc = "play" => udp.playing

\* A datagram under way was sent by the client to the session of its token, and
\* it sends no frame after END.
PacketSent(p) ==
    /\ p.tok <= issued
    /\ ~p.end => p.seq < sent[p.tok]
    /\ p.end => p.seq = sent[p.tok] /\ ~(phase = "sending" /\ stream = p.tok)

\* What the device has of a session was sent in it.
OwnFrames ==
    /\ udp.token = 0 => udp.ring = {} /\ udp.heard = {}
    /\ udp.token # 0 =>
          /\ \A s \in udp.ring \cup udp.heard : s < sent[udp.token]
          /\ udp.receivedAny => udp.highest < sent[udp.token]
    /\ \A t \in Tokens : \A s \in heardBy[t] : s < sent[t]

NetInv == ClientInv /\ (\A p \in net : PacketSent(p)) /\ OwnFrames

\* What is known of the engine whoever sends.
EngineInv == DataTypes /\ FlagTypes /\ SpeakerInv /\ LedgerInv

\* A step of the client, the network and the device is one of the engine's or
\* leaves it alone.
LEMMA StreamStepIsStep ==
  ASSUME StreamTypes, ClientInv, [StreamNext]_streamVars
  PROVE  [Next]_vars
<1>1. CASE Device
  BY <1>1 DEF Device, Runs, LoopRuns, LoopSteps, LoopTask, MicSteps, TimePasses, Time, Next
<1>2. CASE Client
  <2>1. CASE BeginUdpPcmSession
    <3>1. pc # "play"
      BY <2>1 DEF BeginUdpPcmSession, ClientInv
    <3> QED
      BY <2>1, <3>1 DEF Next, LoopTask
  <2> QED
    BY <1>2, <2>1 DEF Client, StartAudioSession, StartReplyLost, SendFrame, SendEnd,
       StreamFails, PollStatus, PollGivesUp
<1>3. CASE Network
  <2>1. PICK p \in net : HandlePacket(p) \/ UNCHANGED vars
    BY <1>3 DEF Network, Deliver, DeliverCopy, Lose
  <2> QED
    BY <2>1 DEF StreamTypes, Next
<1>4. CASE UNCHANGED streamVars
  BY <1>4 DEF streamVars
<1> QED
  BY <1>1, <1>2, <1>3, <1>4 DEF StreamNext

\* The fields of a session that say what it received and played.
SameFrames(u, v) ==
    /\ v.token = u.token /\ v.active = u.active /\ v.receivedAny = u.receivedAny
    /\ v.heard = u.heard /\ v.ring = u.ring /\ v.received = u.received /\ v.lost = u.lost
    /\ v.first = u.first /\ v.next = u.next /\ v.highest = u.highest

\* The device's own steps: one plays a frame, one closes the session, and no other
\* changes what it received.
LEMMA DeviceStep ==
  ASSUME DataTypes, Device
  PROVE  /\ UNCHANGED <<issued, clientVars, netVars>> /\ RecordHeard
         /\ udp' = NoSession \/ PlayFrame \/ SameFrames(udp, udp')
<1>0. udp \in Sessions
  BY DEF DataTypes
<1>1. ASSUME NEW r, PcmFinishes(r) PROVE issued' = issued /\ (udp' = NoSession \/ udp' = udp)
  BY <1>1 DEF PcmFinishes, EndSession, CloseSession
<1>2. CASE Runs(PcmTask)
  <2>1. CASE PrerollTimesOut \/ GateBusy \/ EndReached \/ StreamTimesOut \/ IdleEnds \/ WriteFails
    <3>1. issued' = issued /\ (udp' = NoSession \/ udp' = udp)
      BY <1>1, <2>1 DEF PrerollTimesOut, GateBusy, EndReached, StreamTimesOut, IdleEnds, WriteFails
    <3> QED
      BY <1>2, <3>1 DEF Runs, SameFrames
  <2>2. CASE PcmFadeDone \/ I2sFails
    BY <1>2, <2>2 DEF PcmFadeDone, I2sFails, CloseSession, Runs
  <2>3. CASE PrepareSpeaker \/ GateEntered \/ WriteDone
    BY <1>2, <2>3 DEF PrepareSpeaker, GateEntered, WriteDone, Runs, SameFrames
  <2>4. CASE I2sStarts \/ IdleDrains
    <3>1. SameFrames(udp, udp') /\ issued' = issued
      BY <1>0, <2>4 DEF I2sStarts, IdleDrains, SameFrames, Sessions
    <3> QED
      BY <1>2, <3>1 DEF Runs
  <2>5. CASE PlayFrame
    BY <1>2, <2>5 DEF PlayFrame, Runs
  <2> QED
    BY <1>2, <2>1, <2>2, <2>3, <2>4, <2>5 DEF Runs, PcmTask
<1>3. CASE LoopRuns(LoopSteps)
  <2>1. CASE StopUdpPcmSession \/ StopFadeDone
    BY <1>3, <2>1 DEF StopUdpPcmSession, StopFadeDone, EndSession, CloseSession, LoopRuns,
       Runs, SameFrames
  <2>2. CASE MicSteps \/ MicRecords
    BY <1>3, <2>2 DEF MicSteps, ResumeMic, MicRecords, InitMicrophone, InitMicrophoneSkipped,
       MicrophoneBegins, LoopRuns, Runs, SameFrames
  <2> QED
    BY <1>3, <2>1, <2>2 DEF LoopRuns, Runs, LoopSteps
<1>4. CASE Runs(PrerollElapses) \/ Runs(TimePasses)
  <2>1. SameFrames(udp, udp') /\ issued' = issued
    BY <1>0, <1>4 DEF PrerollElapses, TimePasses, SilenceGrows, Runs, SameFrames, Sessions
  <2> QED
    BY <1>4, <2>1 DEF Runs
<1> QED
  BY <1>2, <1>3, <1>4 DEF Device

\* What is recorded as heard of every session.
LEMMA Recorded ==
  ASSUME DataTypes, DataTypes', StreamTypes, ClientInv, RecordHeard
  PROVE  /\ heardBy' \in [Tokens -> SUBSET FrameSeqs]
         /\ udp.token # 0 => udp.token \in Tokens
         /\ \A t \in Tokens : heardBy'[t] = IF t = udp.token /\ udp'.token = t
                                            THEN udp'.heard ELSE heardBy[t]
<1>1. udp.token # 0 => udp.token \in Tokens
  BY UdpAssumption DEF UdpAssumption, ClientInv, DataTypes, Sessions, Tokens
<1>2. udp'.heard \in SUBSET FrameSeqs
  BY DEF DataTypes, Sessions
<1>3. 0 \notin Tokens
  BY DEF Tokens
<1> QED
  BY <1>1, <1>2, <1>3 DEF RecordHeard, StreamTypes

\* What a datagram changes: nothing, or the clock and the end, or a frame that is
\* neither late nor buffered enters the ring.
LEMMA ReceivedCases ==
  ASSUME NEW u \in Sessions, NEW p \in Packets
  PROVE  LET v == Received(u, p)
         IN  /\ v.token = u.token /\ v.active = u.active /\ v.heard = u.heard
             /\ v.playing = u.playing
             /\ \/ v = u
                \/ SameFrames(u, v) /\ v.quiet = "fresh" /\ u.active /\ p.tok = u.token
                   /\ \/ v.ending = u.ending /\ v.endSeq = u.endSeq
                      \/ p.end /\ v.ending /\ v.endSeq = p.seq
                \/ /\ u.active /\ p.tok = u.token /\ ~p.end
                   /\ p.seq \in FrameSeqs /\ p.seq \notin u.ring
                   /\ u.receivedAny => p.seq >= u.next
                   /\ v = StoreFrame(u, p.seq)
<1>1. ~p.end => p.seq \in FrameSeqs
  BY DEF Packets
<1>2. CASE ~u.active \/ p.tok # u.token
  BY <1>2 DEF Received
<1>3. CASE u.active /\ p.tok = u.token /\ p.end
  BY <1>3 DEF Received, Sessions, SameFrames
<1>4. CASE u.active /\ p.tok = u.token /\ ~p.end /\ ((u.receivedAny /\ p.seq < u.next) \/ p.seq \in u.ring)
  BY <1>4 DEF Received, Sessions, SameFrames
<1>5. CASE u.active /\ p.tok = u.token /\ ~p.end /\ ~((u.receivedAny /\ p.seq < u.next) \/ p.seq \in u.ring)
  <2>1. u.receivedAny => p.seq >= u.next
    BY <1>1, <1>5 DEF Sessions, FrameSeqs
  <2>2. Received(u, p) = StoreFrame(u, p.seq)
    BY <1>5 DEF Received
  <2>3. /\ StoreFrame(u, p.seq).token = u.token /\ StoreFrame(u, p.seq).active = u.active
        /\ StoreFrame(u, p.seq).heard = u.heard /\ StoreFrame(u, p.seq).playing = u.playing
    BY DEF StoreFrame, Sessions
  <2> QED
    BY <1>1, <1>5, <2>1, <2>2, <2>3
<1> QED
  BY <1>2, <1>3, <1>4, <1>5

LEMMA StreamTypesStep ==
  ASSUME DataTypes, DataTypes', StreamTypes, ClientInv, [StreamNext]_streamVars
  PROVE  StreamTypes'
<1> USE UdpAssumption DEF UdpAssumption
<1>1. CASE UNCHANGED streamVars
  BY <1>1 DEF streamVars, clientVars, netVars, StreamTypes
<1>2. ASSUME RecordHeard PROVE heardBy' \in [Tokens -> SUBSET FrameSeqs]
  BY <1>2, Recorded
<1>3. phase # "idle" => stream \in Tokens
  BY DEF StreamTypes, ClientInv, Tokens
<1>4. CASE Device
  BY <1>2, <1>4, DeviceStep DEF clientVars, netVars, StreamTypes
<1>5. CASE RecordHeard /\ Network
  BY <1>2, <1>5 DEF Network, Deliver, DeliverCopy, Lose, clientVars, StreamTypes
<1>6. CASE RecordHeard /\ StartAudioSession
  <2>1. issued' \in 0 .. MaxSessions
    BY DEF DataTypes
  <2> QED
    BY <1>2, <1>6, <2>1 DEF StartAudioSession, netVars, StreamTypes
<1>7. CASE RecordHeard /\ (StartReplyLost \/ (PollStatus /\ ~SessionOver))
  BY <1>2, <1>7 DEF StartReplyLost, PollStatus, clientVars, netVars, StreamTypes
<1>8. CASE RecordHeard /\ SendFrame
  <2>1. sent[stream] \in 0 .. MaxFrames /\ sent[stream] < MaxFrames /\ stream \in Tokens
    BY <1>3, <1>8 DEF SendFrame, StreamTypes
  <2>2. [tok |-> stream, end |-> FALSE, seq |-> sent[stream]] \in Packets
    BY <2>1 DEF Packets, FrameSeqs
  <2>3. sent' \in [Tokens -> 0 .. MaxFrames]
    BY <1>8, <2>1 DEF SendFrame, StreamTypes
  <2> QED
    BY <1>2, <1>8, <2>2, <2>3 DEF SendFrame, StreamTypes
<1>9. CASE RecordHeard /\ SendEnd
  <2>1. stream \in Tokens /\ sent[stream] \in 0 .. MaxFrames
    BY <1>3, <1>9 DEF SendEnd, StreamTypes
  <2>2. EndPacket \in Packets
    BY <2>1 DEF EndPacket, Packets
  <2> QED
    BY <1>2, <1>9, <2>2 DEF SendEnd, StreamTypes
<1>10. ASSUME RecordHeard, NEW v \in {"none", "ok", "error"}, Report(v), netVars' = netVars
       PROVE  StreamTypes'
  <2>1. net' = net
    BY <1>10 DEF netVars
  <2>2. verdict' \in [Tokens -> {"none", "ok", "error"}]
    BY <1>10 DEF Report, StreamTypes
  <2> QED
    BY <1>2, <1>10, <2>1, <2>2 DEF Report, StreamTypes
<1>11. CASE RecordHeard /\ StreamFails
  <2>1. Report("error") /\ netVars' = netVars
    BY <1>11 DEF StreamFails
  <2> QED
    BY <1>10, <1>11, <2>1
<1>12. CASE RecordHeard /\ ((PollStatus /\ SessionOver) \/ PollGivesUp)
  <2>1. /\ Judge(last) \in {"none", "ok", "error"} /\ Judge(polled) \in {"none", "ok", "error"}
        /\ netVars' = netVars
    BY <1>12 DEF PollStatus, PollGivesUp, Judge
  <2>2. Report(Judge(last)) \/ Report(Judge(polled))
    BY <1>12 DEF PollStatus, PollGivesUp
  <2> QED
    BY <1>10, <1>12, <2>1, <2>2
<1> QED
  BY <1>1, <1>4, <1>5, <1>6, <1>7, <1>8, <1>9, <1>11, <1>12 DEF StreamNext, Client

LEMMA ClientInvStep ==
  ASSUME DataTypes, DataTypes', SpeakerInv, StreamTypes, ClientInv, [StreamNext]_streamVars
  PROVE  ClientInv'
<1> USE UdpAssumption DEF UdpAssumption
<1>0. udp \in Sessions /\ issued \in 0 .. MaxSessions /\ 0 \notin Tokens
  BY DEF DataTypes, Tokens
<1>1. CASE UNCHANGED streamVars
  BY <1>1 DEF streamVars, vars, clientVars, ClientInv
<1>2. ASSUME RecordHeard
      PROVE  /\ udp.token # 0 => udp.token \in Tokens
             /\ \A t \in Tokens : heardBy'[t] = IF t = udp.token /\ udp'.token = t
                                                THEN udp'.heard ELSE heardBy[t]
  BY <1>2, Recorded
<1>3. ASSUME RecordHeard, udp' = udp \/ SameFrames(udp, udp') \/ udp' = NoSession
                          \/ (udp'.token = udp.token /\ udp'.active = udp.active),
             issued' = issued
      PROVE  /\ udp'.token \in {0, issued'}
             /\ udp'.active <=> udp'.token # 0
             /\ udp'.token # 0 => heardBy'[udp'.token] = udp'.heard
             /\ \A t \in Tokens : t > issued' => heardBy'[t] = {}
  <2>1. NoSession.token = 0 /\ ~NoSession.active
    BY DEF NoSession
  <2>2. /\ udp'.token \in {0, udp.token}
        /\ udp'.active <=> udp'.token # 0
    BY <1>3, <2>1 DEF SameFrames, ClientInv
  <2>3. udp'.token # 0 => heardBy'[udp'.token] = udp'.heard
    BY <1>2, <1>3, <2>2
  <2>4. \A t \in Tokens : t > issued => heardBy'[t] = {}
    BY <1>0, <1>2, <1>3 DEF ClientInv, Tokens
  <2> QED
    BY <1>3, <2>2, <2>3, <2>4 DEF ClientInv
<1>4. CASE Device
  <2>1. (udp'.token = udp.token /\ udp'.active = udp.active) \/ udp' = NoSession
    BY <1>0, <1>4, DeviceStep DEF PlayFrame, Sessions, SameFrames
  <2>2. pc' = "play" => udp'.playing
    <3>1. CASE I2sStarts
      BY <1>0, <3>1 DEF I2sStarts, Sessions
    <3>2. CASE pc' = "play" /\ ~I2sStarts
      <4>1. pc = "play" /\ udp.playing /\ UNCHANGED pc
        BY <1>4, <3>2, <1>0 DEF ClientInv, Device, Runs, LoopRuns, LoopSteps,
           StopUdpPcmSession, StopFadeDone, MicSteps, ResumeMic, MicRecords, InitMicrophone,
           InitMicrophoneSkipped, MicrophoneBegins, PrerollElapses, TimePasses, SilenceGrows,
           PcmTask, PrerollTimesOut, PrepareSpeaker, GateEntered, GateBusy, I2sFails, EndReached,
           StreamTimesOut, IdleEnds, IdleDrains, PlayFrame, WriteDone, WriteFails, PcmFadeDone,
           PcmFinishes
      <4>2. ~Runs(PcmTask)
        BY <3>2 DEF Runs, PcmTask, PrerollTimesOut, PrepareSpeaker, GateEntered, GateBusy,
           I2sFails, EndReached, StreamTimesOut, IdleEnds, IdleDrains, PlayFrame, WriteDone,
           WriteFails, PcmFadeDone, PcmFinishes
      <4>3. Runs(PrerollElapses)
        BY <1>4, <4>1, <4>2 DEF Device, LoopRuns, Runs, TimePasses, SilenceGrows
      <4> QED
        BY <1>0, <4>1, <4>3 DEF Runs, PrerollElapses, Sessions
    <3> QED
      BY <3>1, <3>2
  <2> QED
    BY <1>3, <1>4, <2>1, <2>2, DeviceStep DEF clientVars, ClientInv
<1>5. CASE RecordHeard /\ Network
  <2>1. PICK p \in Packets : HandlePacket(p) \/ UNCHANGED vars
    BY <1>5 DEF Network, Deliver, DeliverCopy, Lose, StreamTypes
  <2>2. /\ udp'.token = udp.token /\ udp'.active = udp.active /\ udp'.playing = udp.playing
        /\ issued' = issued /\ pc' = pc
    BY <1>0, <2>1, ReceivedCases DEF HandlePacket, vars
  <2> QED
    BY <1>3, <1>5, <2>2 DEF Network, Deliver, DeliverCopy, Lose, clientVars, ClientInv
<1>6. CASE RecordHeard /\ (StartAudioSession \/ StartReplyLost)
  <2>1. /\ udp.token = 0 /\ issued' = issued + 1 /\ udp'.token = issued + 1
        /\ udp'.active /\ udp'.heard = {} /\ pc # "play" /\ pc' = pc
    <3>1. ~udp.active /\ ~udp.playing
      BY <1>6 DEF StartAudioSession, StartReplyLost, BeginUdpPcmSession
    <3> QED
      BY <1>6, <3>1 DEF StartAudioSession, StartReplyLost, BeginUdpPcmSession,
         NoSession, ClientInv
  <2>2. \A t \in Tokens : heardBy'[t] = heardBy[t]
    BY <1>0, <1>2, <1>6, <2>1
  <2>3. issued + 1 \in Tokens
    BY <1>0, <2>1 DEF DataTypes, Tokens
  <2>4. \A t \in Tokens : t > issued => heardBy'[t] = {}
    BY <2>2 DEF ClientInv
  <2>5. /\ udp'.token # 0 => heardBy'[udp'.token] = udp'.heard
        /\ \A t \in Tokens : t > issued' => heardBy'[t] = {}
    BY <1>0, <2>1, <2>3, <2>4 DEF Tokens
  <2>6. phase = "idle" /\ stream = 0
    BY <1>6 DEF StartAudioSession, StartReplyLost, ClientInv
  <2>7. (phase' = "idle" <=> stream' = 0) /\ stream' \in {0, issued'}
    BY <1>0, <1>6, <2>1, <2>6 DEF StartAudioSession, StartReplyLost, clientVars
  <2> QED
    BY <1>0, <2>1, <2>5, <2>7 DEF ClientInv
<1>7. CASE RecordHeard /\ Client /\ UNCHANGED vars
  <2>1. phase' = "idle" <=> stream' = 0
    <3>1. phase # "idle" /\ stream # 0
      BY <1>0, <1>7 DEF Client, StartAudioSession, StartReplyLost, BeginUdpPcmSession, SendFrame,
         SendEnd, StreamFails, PollStatus, PollGivesUp, vars, ClientInv
    <3> QED
      BY <1>0, <1>7, <3>1 DEF Client, StartAudioSession, StartReplyLost, BeginUdpPcmSession,
         SendFrame, SendEnd, StreamFails, PollStatus, PollGivesUp, Report, vars
  <2>2. stream' \in {0, stream}
    BY <1>0, <1>7 DEF Client, StartAudioSession, StartReplyLost, BeginUdpPcmSession,
       SendFrame, SendEnd, StreamFails, PollStatus, PollGivesUp, Report, vars
  <2>3. udp' = udp /\ issued' = issued /\ pc' = pc
    BY <1>7 DEF vars
  <2> QED
    BY <1>3, <1>7, <2>1, <2>2, <2>3 DEF ClientInv
<1> QED
  BY <1>1, <1>4, <1>5, <1>6, <1>7 DEF StreamNext, Client, SendFrame, SendEnd, StreamFails,
     PollStatus, PollGivesUp

\* What a step does to the datagrams under way and to the count of frames sent.
LEMMA NetCases ==
  ASSUME DataTypes, StreamTypes, ClientInv, [StreamNext]_streamVars
  PROVE  \/ net' \subseteq net /\ UNCHANGED <<phase, stream, sent, issued>>
         \/ net' = net /\ sent' = sent /\ issued' = issued /\ phase' = "idle"
         \/ /\ net' = net /\ sent' = sent /\ issued' = issued + 1
            /\ phase' # "sending" \/ stream' = issued'
         \/ SendFrame /\ stream \in Tokens /\ stream = issued
         \/ SendEnd /\ stream \in Tokens /\ stream = issued
<1>1. phase # "idle" => stream \in Tokens /\ stream = issued
  BY UdpAssumption DEF UdpAssumption, StreamTypes, ClientInv, Tokens
<1>2. CASE UNCHANGED streamVars
  BY <1>2 DEF streamVars, vars, clientVars, netVars
<1>3. CASE Device
  BY <1>3, DeviceStep DEF clientVars, netVars
<1>4. CASE Network
  BY <1>4 DEF Network, Deliver, DeliverCopy, Lose, HandlePacket, vars, clientVars
<1>5. CASE StartAudioSession \/ StartReplyLost
  BY <1>5 DEF StartAudioSession, StartReplyLost, BeginUdpPcmSession, clientVars, netVars
<1>6. CASE SendFrame \/ SendEnd
  BY <1>1, <1>6 DEF SendFrame, SendEnd
<1>7. CASE StreamFails \/ PollStatus \/ PollGivesUp
  BY <1>7 DEF StreamFails, PollStatus, PollGivesUp, Report, vars, netVars
<1> QED
  BY <1>2, <1>3, <1>4, <1>5, <1>6, <1>7 DEF StreamNext, Client

\* No step takes back what was sent.
LEMMA SentGrows ==
  ASSUME DataTypes, StreamTypes, ClientInv, [StreamNext]_streamVars
  PROVE  \A t \in Tokens : /\ sent'[t] >= sent[t]
                           /\ ~(phase = "sending" /\ stream = t) => sent'[t] = sent[t]
<1>1. \A t \in Tokens : sent[t] \in Nat
  BY UdpAssumption DEF UdpAssumption, StreamTypes
<1> QED
  BY <1>1, NetCases DEF SendFrame, SendEnd, StreamTypes

LEMMA PacketsSentStep ==
  ASSUME DataTypes, StreamTypes, ClientInv, \A p \in net : PacketSent(p), [StreamNext]_streamVars
  PROVE  \A p \in net' : PacketSent(p)'
<1>0. /\ issued \in Nat /\ \A t \in Tokens : sent[t] \in Nat
      /\ \A p \in net : p.tok \in Tokens /\ p.tok \in Nat /\ p.seq \in Nat
  <2>1. \A t \in Tokens : t \in Nat
    BY UdpAssumption DEF UdpAssumption, Tokens
  <2>2. \A p \in Packets : p.tok \in Tokens /\ p.seq \in Nat
    <3>1. \A p \in Packets : p.seq \in FrameSeqs \cup (0 .. MaxFrames)
      BY DEF Packets
    <3>2. \A p \in Packets : p.seq \in Nat
      BY <3>1, UdpAssumption DEF UdpAssumption, FrameSeqs
    <3>3. \A p \in Packets : p.tok \in Tokens
      BY DEF Packets
    <3> QED
      BY <3>2, <3>3
  <2>3. issued \in Nat /\ \A t \in Tokens : sent[t] \in Nat
    BY UdpAssumption DEF UdpAssumption, DataTypes, StreamTypes
  <2> QED
    BY <2>1, <2>2, <2>3 DEF StreamTypes
<1>1. ASSUME NEW p \in net, issued' \in Nat, issued' >= issued,
             ~(phase = "sending" /\ stream = p.tok) => ~(phase' = "sending" /\ stream' = p.tok)
      PROVE  PacketSent(p)'
  <2>1. p.tok <= issued'
    BY <1>0, <1>1 DEF PacketSent
  <2>2. /\ sent'[p.tok] >= sent[p.tok]
        /\ ~(phase = "sending" /\ stream = p.tok) => sent'[p.tok] = sent[p.tok]
    BY <1>0, SentGrows
  <2>3. sent'[p.tok] \in Nat
    BY <1>0, NetCases DEF SendFrame, SendEnd, StreamTypes
  <2> QED
    BY <1>0, <1>1, <2>1, <2>2, <2>3 DEF PacketSent
<1>2. CASE net' \subseteq net /\ UNCHANGED <<phase, stream, sent, issued>>
  BY <1>0, <1>1, <1>2
<1>3. CASE net' = net /\ issued' = issued /\ phase' = "idle"
  BY <1>0, <1>1, <1>3
<1>4. CASE net' = net /\ issued' = issued + 1 /\ (phase' # "sending" \/ stream' = issued')
  <2>1. \A p \in net : p.tok # issued + 1
    BY <1>0 DEF PacketSent
  <2> QED
    BY <1>0, <1>1, <1>4, <2>1
<1>5. CASE SendFrame /\ stream \in Tokens /\ stream = issued
  <2>1. sent'[stream] = sent[stream] + 1 /\ issued' = issued /\ UNCHANGED <<phase, stream>>
    BY <1>5 DEF SendFrame, vars, StreamTypes
  <2>2. ASSUME NEW p, p = [tok |-> stream, end |-> FALSE, seq |-> sent[stream]]
        PROVE  PacketSent(p)'
    BY <1>0, <1>5, <2>1, <2>2 DEF PacketSent
  <2> QED
    BY <1>0, <1>1, <1>5, <2>1, <2>2 DEF SendFrame
<1>6. CASE SendEnd /\ stream \in Tokens /\ stream = issued
  <2>1. sent' = sent /\ issued' = issued /\ phase' = "polling" /\ stream' = stream
    BY <1>6 DEF SendEnd, vars
  <2>2. ASSUME NEW p, p = EndPacket PROVE PacketSent(p)'
    BY <1>0, <1>6, <2>1, <2>2 DEF PacketSent, EndPacket
  <2> QED
    BY <1>0, <1>1, <1>6, <2>1, <2>2 DEF SendEnd
<1> QED
  BY <1>2, <1>3, <1>4, <1>5, <1>6, NetCases

\* The frames of a session that is replaced by an empty one, goes on or plays one frame.
LEMMA OwnFramesStep ==
  ASSUME DataTypes, DataTypes', StreamTypes, ClientInv, NetInv, [StreamNext]_streamVars
  PROVE  OwnFrames'
<1> USE UdpAssumption DEF UdpAssumption
<1>0. udp \in Sessions /\ udp' \in Sessions /\ 0 \notin Tokens
  BY DEF DataTypes, Tokens
<1>1. /\ \A t \in Tokens : sent[t] \in Nat /\ sent'[t] \in Nat /\ sent'[t] >= sent[t]
      /\ \A s \in FrameSeqs : s \in Nat
      /\ udp.ring \subseteq FrameSeqs /\ udp.heard \subseteq FrameSeqs /\ udp.highest \in FrameSeqs
  <2>1. \A t \in Tokens : sent[t] \in Nat
    BY DEF StreamTypes
  <2>2. \A t \in Tokens : sent'[t] \in Nat
    BY <2>1, NetCases DEF SendFrame, SendEnd, StreamTypes
  <2> QED
    BY <1>0, <2>1, <2>2, SentGrows DEF Sessions, FrameSeqs
<1>2. udp.token # 0 => udp.token \in Tokens
  BY <1>0 DEF Sessions, Tokens
<1>3. ASSUME RecordHeard,
             udp'.token # 0 /\ udp'.token # udp.token =>
                udp'.ring = {} /\ udp'.heard = {} /\ ~udp'.receivedAny,
             udp'.token # 0 /\ udp'.token = udp.token =>
                /\ \A s \in udp'.ring \cup udp'.heard : s < sent[udp.token]
                /\ udp'.receivedAny => udp'.highest < sent[udp.token],
             udp'.token = 0 => udp'.ring = {} /\ udp'.heard = {}
      PROVE  OwnFrames'
  <2>1. /\ udp'.ring \subseteq FrameSeqs /\ udp'.heard \subseteq FrameSeqs
        /\ udp'.highest \in FrameSeqs
    BY <1>0 DEF Sessions
  <2>2. udp'.token # 0 /\ udp'.token = udp.token =>
           /\ \A s \in udp'.ring \cup udp'.heard : s < sent'[udp.token]
           /\ udp'.receivedAny => udp'.highest < sent'[udp.token]
    BY <1>1, <1>2, <1>3, <2>1
  <2>3. ASSUME NEW t \in Tokens, NEW s \in heardBy'[t] PROVE s < sent'[t]
    <3>1. CASE t = udp.token /\ udp'.token = t
      <4>1. heardBy'[t] = udp'.heard
        BY <1>3, <3>1, Recorded
      <4> QED
        BY <1>0, <2>2, <2>3, <3>1, <4>1
    <3>2. CASE ~(t = udp.token /\ udp'.token = t)
      <4>1. heardBy'[t] = heardBy[t] /\ heardBy[t] \subseteq FrameSeqs
        BY <1>3, <3>2, Recorded DEF StreamTypes
      <4>2. s < sent[t] /\ s \in Nat
        BY <1>1, <2>3, <4>1 DEF NetInv, OwnFrames
      <4> QED
        BY <1>1, <4>2
    <3> QED
      BY <3>1, <3>2
  <2> QED
    BY <1>3, <2>2, <2>3 DEF OwnFrames
<1>4. ASSUME RecordHeard, SameFrames(udp, udp') PROVE OwnFrames'
  BY <1>0, <1>3, <1>4 DEF SameFrames, NetInv, OwnFrames
<1>5. CASE UNCHANGED streamVars
  BY <1>5 DEF streamVars, vars, clientVars, NetInv, OwnFrames
<1>6. CASE Device
  <2>1. CASE udp' = NoSession
    BY <1>3, <1>6, <2>1, DeviceStep DEF NoSession
  <2>2. CASE PlayFrame
    <3>1. /\ udp'.token = udp.token /\ udp'.ring \subseteq udp.ring
          /\ udp'.heard \subseteq udp.heard \cup udp.ring
          /\ udp'.receivedAny = udp.receivedAny /\ udp'.highest = udp.highest
      BY <1>0, <2>2 DEF PlayFrame, Sessions
    <3> QED
      BY <1>0, <1>3, <1>6, <3>1, DeviceStep DEF NetInv, OwnFrames
  <2> QED
    BY <1>4, <1>6, <2>1, <2>2, DeviceStep
<1>7. CASE RecordHeard /\ Network
  <2>1. PICK p \in net : HandlePacket(p) \/ udp' = udp
    BY <1>7 DEF Network, Deliver, DeliverCopy, Lose, vars
  <2>2. CASE udp' = udp
    BY <1>4, <1>7, <2>2 DEF SameFrames
  <2>3. CASE udp' = StoreFrame(udp, p.seq) /\ udp.active /\ p.tok = udp.token /\ ~p.end
             /\ p.seq \in FrameSeqs
    <3>1. p.seq < sent[udp.token] /\ udp.token \in Tokens /\ udp.token # 0
      BY <1>0, <1>2, <2>1, <2>3 DEF NetInv, PacketSent, ClientInv
    <3>2. /\ udp'.token = udp.token /\ udp'.heard = udp.heard
          /\ udp'.ring \subseteq udp.ring \cup {p.seq}
          /\ udp'.highest = p.seq \/ (udp.receivedAny /\ udp'.highest = udp.highest)
      BY <1>0, <2>3 DEF StoreFrame, Sessions
    <3> QED
      BY <1>0, <1>3, <1>7, <3>1, <3>2 DEF NetInv, OwnFrames
  <2>4. p \in Packets
    BY <2>1 DEF StreamTypes
  <2> QED
    BY <1>0, <1>4, <1>7, <2>1, <2>2, <2>3, <2>4, ReceivedCases DEF HandlePacket, SameFrames
<1>8. CASE RecordHeard /\ (StartAudioSession \/ StartReplyLost)
  <2>1. udp'.token # udp.token /\ udp'.ring = {} /\ udp'.heard = {} /\ ~udp'.receivedAny
    <3>1. udp.token = 0
      BY <1>8 DEF StartAudioSession, StartReplyLost, BeginUdpPcmSession, NetInv, ClientInv
    <3>2. issued + 1 # 0
      BY DEF DataTypes
    <3> QED
      BY <1>8, <3>1, <3>2 DEF StartAudioSession, StartReplyLost, BeginUdpPcmSession, NoSession
  <2> QED
    BY <1>3, <1>8, <2>1
<1>9. CASE RecordHeard /\ UNCHANGED vars
  BY <1>4, <1>9 DEF vars, SameFrames
<1> QED
  BY <1>5, <1>6, <1>7, <1>8, <1>9 DEF StreamNext, Client, SendFrame, SendEnd, StreamFails,
     PollStatus, PollGivesUp

LEMMA StreamInits ==
  StreamInit => Init /\ StreamTypes /\ NetInv
<1> SUFFICES ASSUME StreamInit PROVE StreamTypes /\ NetInv
  BY DEF StreamInit
<1>1. /\ udp.token = 0 /\ ~udp.active /\ udp.ring = {} /\ udp.heard = {} /\ issued = 0 /\ pc = "idle"
  BY DEF StreamInit, Init, NoSession
<1>2. StreamTypes
  BY UdpAssumption DEF UdpAssumption, StreamInit, StreamTypes
<1>3. ClientInv
  BY <1>1 DEF StreamInit, ClientInv
<1>4. OwnFrames
  BY <1>1 DEF StreamInit, OwnFrames
<1> QED
  BY <1>2, <1>3, <1>4 DEF StreamInit, NetInv

LEMMA EngineStep == EngineInv /\ [Next]_vars => EngineInv'
BY DataTypesStep, FlagTypesStep, SpeakerStep, LedgerStep DEF EngineInv

LEMMA NetInvStep ==
  EngineInv /\ StreamTypes /\ NetInv /\ [StreamNext]_streamVars
    => [Next]_vars /\ EngineInv' /\ StreamTypes' /\ NetInv'
<1> SUFFICES ASSUME EngineInv, StreamTypes, NetInv, [StreamNext]_streamVars
             PROVE  [Next]_vars /\ EngineInv' /\ StreamTypes' /\ NetInv'
  OBVIOUS
<1>1. ClientInv /\ DataTypes /\ SpeakerInv /\ \A p \in net : PacketSent(p)
  BY DEF NetInv, EngineInv
<1>2. [Next]_vars
  BY <1>1, StreamStepIsStep
<1>3. EngineInv'
  BY <1>2, EngineStep
<1>4. DataTypes'
  BY <1>3 DEF EngineInv
<1>5. StreamTypes' /\ ClientInv'
  BY <1>1, <1>4, StreamTypesStep, ClientInvStep
<1>6. (\A p \in net' : PacketSent(p)') /\ OwnFrames'
  BY <1>1, <1>4, PacketsSentStep, OwnFramesStep
<1> QED
  BY <1>2, <1>3, <1>5, <1>6 DEF NetInv

LEMMA NetInvariant ==
  StreamSpec => [](EngineInv /\ StreamTypes /\ NetInv) /\ [][Next]_vars
<1>1. StreamInit => EngineInv /\ StreamTypes /\ NetInv
  BY StreamInits, TypesInit, SpeakerInit, LedgerInit DEF EngineInv
<1> QED
  BY <1>1, NetInvStep, PTL DEF StreamSpec

\* The client, the network and the two tasks together only do what the engine does
\* in an environment that sends any datagram at any moment: what is proved of Spec
\* holds of the device in this system too.
THEOREM StreamRunsTheEngine == StreamSpec => Spec
BY StreamInits, NetInvariant, PTL DEF StreamSpec, Spec

\* Whatever the network does to the datagrams, and whoever stops the session, the
\* device plays in a session only frames that its owner sent in it: the token keeps
\* the datagrams of an earlier session out (handleUdpPackets), and no end, timeout
\* or late datagram brings other frames into the ring.
THEOREM OnlyOwnFramesHeard == StreamSpec => []OnlySentIsHeard
<1>1. StreamTypes /\ NetInv => OnlySentIsHeard
  <2> SUFFICES ASSUME StreamTypes, NetInv, NEW t \in Tokens, NEW s \in heardBy[t]
               PROVE  s \in 0 .. sent[t] - 1
    BY DEF OnlySentIsHeard
  <2>1. s \in Nat /\ sent[t] \in Nat
    BY UdpAssumption DEF UdpAssumption, StreamTypes, FrameSeqs
  <2> QED
    BY <2>1 DEF NetInv, OwnFrames
<1> QED
  BY <1>1, NetInvariant, PTL

-----------------------------------------------------------------------------
(* The client: a success means that everything was heard *)

\* Frames of a session under way, and those of them that the session may still take
\* without a new highest frame.
InNet(t) == {s \in FrameSeqs : [tok |-> t, end |-> FALSE, seq |-> s] \in net}

Awaited == {s \in InNet(udp.token) : udp.first <= s /\ s <= udp.highest}

\* The count of frames received is not fooled by duplicates: without them each frame
\* counted is one of first .. highest, taken out of the network; with a ring that never
\* reuses a slot each is still in the ring or was heard.
CountInv ==
    /\ duplicates \in Nat
    /\ ~udp.receivedAny => udp.received = 0
    /\ udp.receivedAny =>
          /\ MaxDuplicates = 0 =>
                udp.received + Cardinality(Awaited) <= udp.highest + 1 - udp.first
          /\ RingFrames >= MaxFrames => udp.received <= Cardinality(udp.ring \cup udp.heard)

\* The end of the session is known from END, which carries the number of frames sent,
\* or from a silence after which nothing more can come.
EndKnown ==
    udp.active /\ udp.ending =>
       /\ ~(phase = "sending" /\ stream = udp.token)
       /\ \/ udp.endSeq = sent[udp.token]
          \/ udp.endSeq = udp.highest + 1 /\ \A p \in net : p.tok # udp.token

EndInv ==
    /\ EndKnown
    /\ udp.active /\ udp.quiet = "grace" => StreamOver
    /\ pc = "fade" => why # "" /\ (why = "end" => AtEnd)

\* What /playback/status says of the last session when none is open: if it ended by END
\* with all frames received and none lost, they were heard.
LastInv ==
    udp.token = 0 /\ issued # 0 =>
       /\ last.reason # ""
       /\ last.reason = "end" =>
             /\ ~(phase = "sending" /\ stream = issued)
             /\ last.lost = 0 /\ last.received > 0 /\ last.received >= sent[issued]
                   => heardBy[issued] = 0 .. sent[issued] - 1

VerdictInv ==
    \A t \in Tokens : verdict[t] = "ok" =>
       /\ heardBy[t] = 0 .. sent[t] - 1
       /\ t # udp.token /\ t # stream /\ t <= issued

\* A step of the device closes the session, for a reason that is "end" only past its end,
\* or keeps it, and then the end is found only in a silence.
LEMMA DeviceEnds ==
  ASSUME StopRequests = FALSE, NetworkStalls = FALSE,
         DataTypes, SpeakerInv, SessionInv, EndInv, Device
  PROVE  \/ \E r \in Reasons : /\ CloseSession(r) /\ udp.active /\ pc' = "idle"
                               /\ r # "" /\ (r = "end" => AtEnd)
         \/ /\ last' = last /\ udp'.token = udp.token /\ udp'.active = udp.active
            /\ udp'.highest = udp.highest
            /\ \/ udp'.ending = udp.ending /\ udp'.endSeq = udp.endSeq
               \/ udp'.ending /\ udp'.endSeq = udp.highest + 1 /\ StreamOver
            /\ udp.active /\ udp'.quiet = "grace" => StreamOver
            /\ pc' = "fade" => why' # "" /\ (why' = "end" => AtEnd')
<1> DEFINE Closes == \E r \in Reasons : /\ CloseSession(r) /\ udp.active /\ pc' = "idle"
                                        /\ r # "" /\ (r = "end" => AtEnd)
           Fades == pc' = "fade" => why' # "" /\ (why' = "end" => AtEnd')
           Keeps == /\ last' = last /\ udp'.token = udp.token /\ udp'.active = udp.active
                    /\ udp'.highest = udp.highest
                    /\ \/ udp'.ending = udp.ending /\ udp'.endSeq = udp.endSeq
                       \/ udp'.ending /\ udp'.endSeq = udp.highest + 1 /\ StreamOver
                    /\ udp.active /\ udp'.quiet = "grace" => StreamOver
                    /\ Fades
<1> SUFFICES Closes \/ Keeps
  OBVIOUS
<1>0. udp \in Sessions
  BY DEF DataTypes
<1>1. ASSUME udp' = udp, last' = last, pc' = "fade" => pc = "fade" /\ why' = why PROVE Keeps
  BY <1>1 DEF EndInv, AtEnd
<1>2. ASSUME NEW r \in Reasons, PcmFinishes(r), udp.active, r # "", r = "end" => AtEnd
      PROVE  Closes \/ Keeps
  <2>1. CASE pc' = "fade" /\ why' = r /\ UNCHANGED <<udp, last, i2s, gate, micResume>>
    BY <1>2, <2>1 DEF EndInv, AtEnd
  <2>2. CASE EndSession("pcm", r) /\ pc' = "idle"
    BY <1>2, <2>2 DEF EndSession
  <2> QED
    BY <1>2, <2>1, <2>2 DEF PcmFinishes
<1>3. CASE Runs(PrerollTimesOut \/ GateBusy \/ EndReached \/ StreamTimesOut \/ IdleEnds \/ WriteFails)
  <2>1. udp.active
    BY <1>3, EndingStepEnds DEF EndingStep, Runs
  <2>2. \E r \in Reasons : PcmFinishes(r) /\ r # "" /\ (r = "end" => AtEnd)
    BY <1>3 DEF Runs, PrerollTimesOut, GateBusy, EndReached, StreamTimesOut, IdleEnds, WriteFails,
       Reasons
  <2> QED
    BY <1>2, <2>1, <2>2
<1>4. CASE Runs(PcmFadeDone \/ I2sFails)
  <2>1. udp.active /\ "speaker-failed" \in Reasons /\ why \in Reasons
    BY <1>4, EndingStepEnds DEF EndingStep, Runs, DataTypes, Reasons
  <2> QED
    BY <1>4, <2>1 DEF Runs, PcmFadeDone, I2sFails, EndInv
<1>5. CASE Runs(PrepareSpeaker \/ GateEntered \/ WriteDone) \/ LoopRuns(LoopSteps)
  <2>1. loop # "fade"
    BY DEF SessionInv, PumpUse
  <2>2. udp' = udp /\ last' = last /\ (pc' = "fade" => pc = "fade" /\ why' = why)
    BY <1>5, <2>1 DEF Runs, LoopRuns, LoopSteps, PrepareSpeaker, GateEntered, WriteDone,
       StopUdpPcmSession, StopFadeDone, MicSteps, ResumeMic, MicRecords, InitMicrophone,
       InitMicrophoneSkipped, MicrophoneBegins
  <2> QED
    BY <1>1, <2>2
<1>6. CASE Runs(I2sStarts \/ PlayFrame)
  <2>1. /\ udp'.token = udp.token /\ udp'.active = udp.active /\ udp'.highest = udp.highest
        /\ udp'.ending = udp.ending /\ udp'.endSeq = udp.endSeq /\ udp'.quiet = udp.quiet
    BY <1>0, <1>6 DEF Runs, I2sStarts, PlayFrame, Sessions
  <2>2. last' = last /\ pc' # "fade"
    BY <1>6 DEF Runs, I2sStarts, PlayFrame
  <2> QED
    BY <2>1, <2>2 DEF EndInv
<1>7. CASE Runs(IdleDrains)
  <2>1. /\ udp'.token = udp.token /\ udp'.active = udp.active /\ udp'.highest = udp.highest
        /\ udp'.ending /\ udp'.endSeq = udp.highest + 1 /\ udp'.quiet = udp.quiet
    BY <1>0, <1>7 DEF Runs, IdleDrains, Sessions
  <2>2. last' = last /\ pc' # "fade" /\ udp.quiet = "grace" /\ udp.active
    BY <1>7 DEF Runs, IdleDrains, Pumping, SessionInv, PumpUse
  <2> QED
    BY <2>1, <2>2 DEF EndInv
<1>8. CASE Runs(PrerollElapses) \/ Runs(TimePasses)
  <2>1. /\ udp'.token = udp.token /\ udp'.active = udp.active /\ udp'.highest = udp.highest
        /\ udp'.ending = udp.ending /\ udp'.endSeq = udp.endSeq /\ udp'.next = udp.next
        /\ udp'.quiet = udp.quiet \/ StreamOver
    BY <1>0, <1>8 DEF Runs, PrerollElapses, TimePasses, SilenceGrows, Sessions
  <2>2. last' = last /\ pc' = pc /\ why' = why
    BY <1>8 DEF Runs, PrerollElapses, TimePasses, SilenceGrows
  <2> QED
    BY <2>1, <2>2 DEF EndInv, AtEnd
<1> QED
  BY <1>3, <1>4, <1>5, <1>6, <1>7, <1>8 DEF Device, Runs, PcmTask

LEMMA SlotsDistinct ==
  ASSUME RingFrames >= MaxFrames
  PROVE  \A a, b \in FrameSeqs : SameSlot(a, b) => a = b
<1>1. \A a \in FrameSeqs : a % RingFrames = a
  BY UdpAssumption DEF UdpAssumption, FrameSeqs
<1> QED
  BY <1>1 DEF SameSlot

LEMMA FrameSets ==
  \A S : S \subseteq FrameSeqs => IsFiniteSet(S) /\ Cardinality(S) \in Nat
<1>1. IsFiniteSet(FrameSeqs)
  BY FS_Interval, UdpAssumption DEF UdpAssumption, FrameSeqs
<1> QED
  BY <1>1, FS_Subset, FS_CardinalityType

\* One more frame is received.
LEMMA ReceiveCount ==
  ASSUME DataTypes, DataTypes', ClientInv, StreamTypes, CountInv, Ledger(udp),
         NEW p \in net, p \in Packets, ~p.end, p.tok = udp.token, p.seq \in FrameSeqs, udp.active,
         p.seq \notin udp.ring, udp.receivedAny => p.seq >= udp.next,
         udp' = StoreFrame(udp, p.seq),
         net' = net \ {p} \/ (net' = net /\ MaxDuplicates # 0)
  PROVE  /\ udp'.receivedAny
         /\ MaxDuplicates = 0 => udp'.received + Cardinality(Awaited') <= udp'.highest + 1 - udp'.first
         /\ RingFrames >= MaxFrames => udp'.received <= Cardinality(udp'.ring \cup udp'.heard)
<1> DEFINE s == p.seq
           H == udp.heard
           R == udp.ring
<1>0. udp \in Sessions /\ udp' \in Sessions
  BY DEF DataTypes
<1>1. /\ udp'.token = udp.token /\ udp'.heard = H /\ udp'.receivedAny
      /\ udp'.received = udp.received + 1
      /\ udp'.ring = {q \in R : ~SameSlot(q, s)} \cup {s}
      /\ udp'.first = IF udp.receivedAny THEN udp.first ELSE s
      /\ udp'.highest = IF udp.receivedAny /\ udp.highest >= s THEN udp.highest ELSE s
  BY <1>0 DEF StoreFrame, Sessions
<1>2. /\ s \in Nat /\ \A q \in FrameSeqs : q \in Nat
      /\ udp.received \in Nat /\ udp.first \in FrameSeqs /\ udp.highest \in FrameSeqs
      /\ R \subseteq FrameSeqs /\ H \subseteq FrameSeqs /\ udp.next \in Nat
  BY <1>0, UdpAssumption DEF UdpAssumption, Sessions, FrameSeqs
<1>3. s \notin H
  BY <1>2 DEF Ledger
<1>4. ASSUME RingFrames >= MaxFrames
      PROVE  udp'.received <= Cardinality(udp'.ring \cup udp'.heard)
  <2>1. udp'.ring \cup udp'.heard = (R \cup H) \cup {s}
    BY <1>1, <1>2, <1>4, SlotsDistinct
  <2>2. s \notin R \cup H /\ IsFiniteSet(R \cup H) /\ Cardinality(R \cup H) \in Nat
    BY <1>2, <1>3, FrameSets
  <2>3. Cardinality((R \cup H) \cup {s}) = Cardinality(R \cup H) + 1
    BY <2>2, FS_AddElement
  <2>4. udp.received <= Cardinality(R \cup H)
    BY <1>2, <1>4, <2>2 DEF CountInv
  <2>5. Cardinality(udp'.ring \cup udp'.heard) = Cardinality(R \cup H) + 1
    BY <2>1, <2>3
  <2> HIDE DEF R, H
  <2> QED
    BY <1>1, <1>2, <2>2, <2>4, <2>5
<1>5. ASSUME MaxDuplicates = 0
      PROVE  udp'.received + Cardinality(Awaited') <= udp'.highest + 1 - udp'.first
  <2>1. net' = net \ {p}
    BY <1>5
  <2>2. p = [tok |-> udp.token, end |-> FALSE, seq |-> s]
    BY DEF Packets
  <2>3. Awaited' = {q \in InNet(udp.token) \ {s} : udp'.first <= q /\ q <= udp'.highest}
    BY <1>1, <2>1, <2>2 DEF Awaited, InNet
  <2>4. s \in InNet(udp.token) /\ InNet(udp.token) \subseteq FrameSeqs
    BY <2>2 DEF InNet
  <2>5. CASE ~udp.receivedAny
    <3>1. udp'.first = s /\ udp'.highest = s /\ udp'.received = 1
      BY <1>1, <1>2, <2>5 DEF CountInv
    <3>2. Awaited' = {}
      BY <1>2, <2>3, <2>4, <3>1
    <3> QED
      BY <1>2, <3>1, <3>2, FS_EmptySet
  <2>6. CASE udp.receivedAny
    <3>1. /\ udp.first <= udp.next /\ s >= udp.next /\ s >= udp.first
          /\ udp.received + Cardinality(Awaited) <= udp.highest + 1 - udp.first
          /\ Awaited \subseteq FrameSeqs /\ IsFiniteSet(Awaited) /\ Cardinality(Awaited) \in Nat
      <4>1. Awaited \subseteq FrameSeqs
        BY <2>4 DEF Awaited
      <4>2. IsFiniteSet(Awaited) /\ Cardinality(Awaited) \in Nat
        BY <4>1, FrameSets
      <4>3. Cardinality(H) \in Nat /\ udp.lost \in Nat
        BY <1>0, <1>2, FrameSets DEF Sessions
      <4>4. udp.first <= udp.next
        BY <1>2, <2>6, <4>3 DEF Ledger
      <4> QED
        BY <1>2, <1>5, <2>6, <4>1, <4>2, <4>4 DEF CountInv
    <3>2. CASE s <= udp.highest
      <4>1. udp'.first = udp.first /\ udp'.highest = udp.highest
        BY <1>1, <1>2, <2>6, <3>2
      <4>2. s \in Awaited /\ Awaited' = Awaited \ {s}
        BY <1>2, <2>3, <2>4, <3>1, <3>2, <4>1 DEF Awaited
      <4>3. Cardinality(Awaited \ {s}) = Cardinality(Awaited) - 1
        BY <3>1, <4>2, FS_RemoveElement
      <4> QED
        BY <1>1, <1>2, <3>1, <4>1, <4>2, <4>3
    <3>3. CASE s > udp.highest
      <4>1. udp'.first = udp.first /\ udp'.highest = s
        BY <1>1, <1>2, <2>6, <3>3
      <4> DEFINE G == udp.highest + 1 .. s - 1
      <4>2. Awaited' \subseteq Awaited \cup G
        BY <1>2, <2>3, <2>4, <4>1 DEF Awaited
      <4>3. IsFiniteSet(G) /\ Cardinality(G) = s - 1 - udp.highest
        <5>1. udp.highest + 1 \in Int /\ s - 1 \in Int
          BY <1>2
        <5>2. Cardinality(G) = IF udp.highest + 1 > s - 1 THEN 0 ELSE (s - 1) - (udp.highest + 1) + 1
          BY <5>1, FS_Interval
        <5>3. IsFiniteSet(G)
          BY <5>1, FS_Interval
        <5>4. s - 1 >= udp.highest
          BY <1>2, <3>3
        <5> HIDE DEF G
        <5> QED
          BY <1>2, <5>2, <5>3, <5>4
      <4>4. IsFiniteSet(Awaited \cup G) /\ Cardinality(Awaited \cup G) <= Cardinality(Awaited) + Cardinality(G)
            /\ Cardinality(Awaited \cup G) \in Nat
        <5>1. IsFiniteSet(Awaited \cup G)
          BY <3>1, <4>3, FS_Union
        <5>2. Cardinality(Awaited \cup G)
                = Cardinality(Awaited) + Cardinality(G) - Cardinality(Awaited \cap G)
          BY <3>1, <4>3, FS_Union
        <5>3. Cardinality(Awaited \cap G) \in Nat
          BY <3>1, FS_Intersection, FS_CardinalityType
        <5>4. Cardinality(Awaited \cup G) \in Nat
          BY <5>1, FS_CardinalityType
        <5> QED
          BY <1>2, <3>1, <3>3, <4>3, <5>1, <5>2, <5>3, <5>4
      <4>5. Cardinality(Awaited') <= Cardinality(Awaited \cup G) /\ Cardinality(Awaited') \in Nat
        BY <4>2, <4>4, FS_Subset, FS_CardinalityType
      <4>6. udp.highest \in Nat /\ udp.first \in Nat /\ udp.received \in Nat
        BY <1>2
      <4> HIDE DEF G
      <4> QED
        BY <1>1, <1>2, <3>1, <4>1, <4>3, <4>4, <4>5, <4>6
    <3> QED
      BY <1>2, <3>2, <3>3
  <2> QED
    BY <2>5, <2>6
<1> QED
  BY <1>1, <1>4, <1>5

LEMMA CountInvStep ==
  ASSUME EngineInv, DataTypes', StreamTypes, NetInv, CountInv, [StreamNext]_streamVars
  PROVE  CountInv'
<1>0. /\ udp \in Sessions /\ udp' \in Sessions /\ ClientInv /\ Ledger(udp) /\ DataTypes
      /\ duplicates \in Nat
  BY DEF EngineInv, LedgerInv, DataTypes, NetInv, CountInv
<1>1. ASSUME ~udp'.receivedAny, udp'.received = 0, duplicates' \in Nat PROVE CountInv'
  BY <1>1 DEF CountInv
<1>2. ASSUME SameFrames(udp, udp'), Awaited' \subseteq Awaited, duplicates' \in Nat
      PROVE  CountInv'
  <2>1. Awaited \subseteq FrameSeqs
    BY DEF Awaited, InNet
  <2>2. IsFiniteSet(Awaited) /\ Cardinality(Awaited) \in Nat
    BY <2>1, FrameSets
  <2>3. Cardinality(Awaited') <= Cardinality(Awaited) /\ Cardinality(Awaited') \in Nat
    BY <1>2, <2>2, FS_Subset, FS_CardinalityType
  <2>4. udp.received \in Nat /\ udp.highest + 1 - udp.first \in Int
    BY <1>0 DEF Sessions, FrameSeqs
  <2>5. /\ udp'.receivedAny = udp.receivedAny /\ udp'.received = udp.received
        /\ udp'.highest + 1 - udp'.first = udp.highest + 1 - udp.first
        /\ Cardinality(udp'.ring \cup udp'.heard) = Cardinality(udp.ring \cup udp.heard)
    BY <1>2 DEF SameFrames
  <2> QED
    BY <1>2, <2>2, <2>3, <2>4, <2>5 DEF CountInv
<1>3. ASSUME SameFrames(udp, udp'), net' \subseteq net PROVE Awaited' \subseteq Awaited
  BY <1>3 DEF SameFrames, Awaited, InNet
<1>4. SameFrames(udp, udp)
  BY DEF SameFrames
<1>5. CASE UNCHANGED streamVars
  BY <1>0, <1>2, <1>3, <1>4, <1>5 DEF streamVars, vars, netVars
<1>6. CASE Device
  <2>1. net' = net /\ duplicates' = duplicates
    BY <1>0, <1>6, DeviceStep DEF netVars
  <2>2. CASE udp' = NoSession
    BY <1>0, <1>1, <2>1, <2>2 DEF NoSession
  <2>3. CASE PlayFrame
    <3>1. /\ udp'.receivedAny = udp.receivedAny /\ udp'.received = udp.received
          /\ udp'.highest = udp.highest /\ udp'.first = udp.first /\ udp'.token = udp.token
          /\ udp'.ring \cup udp'.heard = udp.ring \cup udp.heard
      BY <1>0, <2>3 DEF PlayFrame, Sessions
    <3>2. Awaited' = Awaited
      BY <2>1, <3>1 DEF Awaited, InNet
    <3> QED
      BY <1>0, <2>1, <3>1, <3>2 DEF CountInv
  <2> QED
    BY <1>0, <1>2, <1>3, <1>6, <2>1, <2>2, <2>3, DeviceStep
<1>7. CASE Network
  <2>1. PICK p \in net : Deliver(p) \/ DeliverCopy(p) \/ Lose(p)
    BY <1>7 DEF Network
  <2>2. net' \subseteq net /\ duplicates' \in Nat
    BY <1>0, <2>1 DEF Deliver, DeliverCopy, Lose
  <2>3. CASE Lose(p)
    BY <1>2, <1>3, <1>4, <2>2, <2>3 DEF Lose, vars
  <2>4. CASE Deliver(p) \/ DeliverCopy(p)
    <3>1. p \in Packets /\ udp' = Received(udp, p)
      BY <2>1, <2>4 DEF Deliver, DeliverCopy, HandlePacket, StreamTypes
    <3>2. CASE SameFrames(udp, udp')
      BY <1>2, <1>3, <2>2, <3>2
    <3>3. CASE /\ udp.active /\ p.tok = udp.token /\ ~p.end
               /\ p.seq \in FrameSeqs /\ p.seq \notin udp.ring
               /\ udp.receivedAny => p.seq >= udp.next
               /\ udp' = StoreFrame(udp, p.seq)
      <4>1. net' = net \ {p} \/ (net' = net /\ MaxDuplicates # 0)
        BY <1>0, <2>4, <3>3 DEF Deliver, DeliverCopy
      <4>2. /\ udp'.receivedAny
            /\ MaxDuplicates = 0 =>
                  udp'.received + Cardinality(Awaited') <= udp'.highest + 1 - udp'.first
            /\ RingFrames >= MaxFrames => udp'.received <= Cardinality(udp'.ring \cup udp'.heard)
        BY <1>0, <2>1, <3>1, <3>3, <4>1, ReceiveCount
      <4> QED
        BY <2>2, <4>2 DEF CountInv
    <3> QED
      BY <1>0, <1>4, <3>1, <3>2, <3>3, ReceivedCases
  <2> QED
    BY <2>1, <2>3, <2>4
<1>8. CASE StartAudioSession \/ StartReplyLost
  <2>1. duplicates' = duplicates /\ udp' = [NoSession EXCEPT !.active = TRUE, !.token = issued + 1]
    BY <1>8 DEF StartAudioSession, StartReplyLost, BeginUdpPcmSession, netVars
  <2> QED
    BY <1>0, <1>1, <2>1 DEF NoSession
<1>9. CASE SendFrame \/ SendEnd
  <2>1. udp' = udp /\ duplicates' = duplicates
    BY <1>9 DEF SendFrame, SendEnd, vars
  <2>2. CASE udp.receivedAny
    <3>1. ASSUME NEW s \in Awaited' PROVE s \in Awaited
      <4>1. /\ s \in FrameSeqs /\ udp.first <= s /\ s <= udp.highest
            /\ [tok |-> udp.token, end |-> FALSE, seq |-> s] \in net'
        BY <2>1, <3>1 DEF Awaited, InNet
      <4>2. stream = udp.token /\ SendFrame => s # sent[stream]
        <5>1. phase # "idle" => stream \in Tokens /\ stream # 0
          BY UdpAssumption DEF UdpAssumption, StreamTypes, ClientInv, NetInv, Tokens
        <5>2. stream = udp.token /\ SendFrame => udp.highest < sent[stream] /\ sent[stream] \in Nat
          BY <2>2, <5>1, UdpAssumption DEF UdpAssumption, NetInv, OwnFrames, SendFrame, StreamTypes
        <5>3. s \in Nat /\ udp.highest \in Nat
          BY <1>0, <4>1, UdpAssumption DEF UdpAssumption, Sessions, FrameSeqs
        <5> QED
          BY <4>1, <5>2, <5>3
      <4>3. [tok |-> udp.token, end |-> FALSE, seq |-> s] \in net
        BY <1>9, <4>1, <4>2 DEF SendFrame, SendEnd, EndPacket
      <4> QED
        BY <4>1, <4>3 DEF Awaited, InNet
    <3> QED
      BY <1>0, <1>2, <1>4, <2>1, <3>1
  <2>3. CASE ~udp.receivedAny
    BY <1>0, <1>1, <2>1, <2>3 DEF CountInv
  <2> QED
    BY <2>2, <2>3
<1>10. CASE StreamFails \/ PollStatus \/ PollGivesUp
  BY <1>0, <1>2, <1>3, <1>4, <1>10 DEF StreamFails, PollStatus, PollGivesUp, vars, netVars
<1> QED
  BY <1>5, <1>6, <1>7, <1>8, <1>9, <1>10 DEF StreamNext, Client

LEMMA EndInvStep ==
  ASSUME StopRequests = FALSE, NetworkStalls = FALSE, EngineInv, DataTypes', StreamTypes,
         NetInv, SessionInv, EndInv, [StreamNext]_streamVars
  PROVE  EndInv'
<1>0. /\ udp \in Sessions /\ udp' \in Sessions /\ ClientInv /\ DataTypes /\ SpeakerInv
      /\ udp.active => udp.token \in Tokens /\ udp.token = issued /\ issued \in Nat
  <2>1. udp \in Sessions /\ udp' \in Sessions /\ ClientInv /\ DataTypes /\ SpeakerInv
    BY DEF EngineInv, DataTypes, NetInv
  <2>2. udp.token \in 0 .. MaxSessions /\ issued \in 0 .. MaxSessions
    BY <2>1 DEF DataTypes, Sessions
  <2> QED
    BY <2>1, <2>2, UdpAssumption DEF UdpAssumption, ClientInv, Tokens
<1>1. ASSUME udp.active, ~(phase = "sending" /\ stream = udp.token)
      PROVE  ~(phase' = "sending" /\ stream' = udp.token) /\ sent'[udp.token] = sent[udp.token]
  <2>1. sent'[udp.token] = sent[udp.token]
    BY <1>0, <1>1, SentGrows
  <2>2. issued + 1 # udp.token
    BY <1>0, <1>1
  <2> QED
    BY <1>0, <1>1, <2>1, <2>2, NetCases DEF SendFrame, SendEnd
<1>2. ASSUME udp.active, ~(phase = "sending" /\ stream = udp.token),
             \A p \in net : p.tok # udp.token
      PROVE  \A p \in net' : p.tok # udp.token
  BY <1>0, <1>2, NetCases DEF SendFrame, SendEnd
<1>3. ASSUME udp.active, udp'.token = udp.token, StreamOver PROVE StreamOver'
  BY <1>1, <1>2, <1>3 DEF StreamOver
<1>4. ASSUME udp'.token = udp.token, udp'.active = udp.active, udp'.highest = udp.highest,
             \/ udp'.ending = udp.ending /\ udp'.endSeq = udp.endSeq
             \/ udp'.ending /\ udp'.endSeq = udp.highest + 1 /\ StreamOver,
             udp.active /\ udp'.quiet = "grace" => StreamOver,
             pc' = "fade" => why' # "" /\ (why' = "end" => AtEnd')
      PROVE  EndInv'
  <2>1. EndKnown'
    <3>1. CASE udp'.ending = udp.ending /\ udp'.endSeq = udp.endSeq
      BY <1>1, <1>2, <1>4, <3>1 DEF EndInv, EndKnown
    <3>2. CASE udp'.ending /\ udp'.endSeq = udp.highest + 1 /\ StreamOver
      BY <1>1, <1>2, <1>4, <3>2 DEF StreamOver, EndKnown
    <3> QED
      BY <1>4, <3>1, <3>2
  <2> QED
    BY <1>3, <1>4, <2>1 DEF EndInv
<1>5. CASE Device
  <2>1. ASSUME NEW r, CloseSession(r), pc' = "idle" PROVE EndInv'
    <3>1. ~udp'.active
      BY <2>1 DEF CloseSession, NoSession
    <3> QED
      BY <2>1, <3>1 DEF EndInv, EndKnown
  <2> QED
    BY <1>0, <1>4, <1>5, <2>1, DeviceEnds
<1>6. CASE UNCHANGED vars
  <2>1. udp' = udp /\ pc' = pc /\ why' = why
    BY <1>6 DEF vars
  <2> QED
    BY <1>4, <2>1 DEF EndInv, AtEnd
<1>7. CASE Network
  <2>1. PICK p \in net : HandlePacket(p) \/ UNCHANGED vars
    BY <1>7 DEF Network, Deliver, DeliverCopy, Lose
  <2>2. /\ p \in Packets
        /\ p.tok = udp.token /\ p.end =>
              p.seq = sent[udp.token] /\ ~(phase = "sending" /\ stream = udp.token)
    BY <2>1 DEF StreamTypes, NetInv, PacketSent
  <2>3. SUFFICES ASSUME udp' = Received(udp, p), pc' = pc, why' = why PROVE EndInv'
    BY <1>6, <2>1 DEF HandlePacket
  <2>4. pc = "fade" => udp.receivedAny /\ udp.active /\ why # "" /\ (why = "end" => AtEnd)
    BY DEF SessionInv, PumpUse, EndInv
  <2>5. udp'.token = udp.token /\ udp'.active = udp.active
    BY <1>0, <2>2, <2>3, ReceivedCases
  <2>6. CASE udp' = udp
    BY <1>4, <2>3, <2>6 DEF EndInv, AtEnd
  <2>7. CASE /\ SameFrames(udp, udp') /\ udp'.quiet = "fresh" /\ udp.active
             /\ udp'.ending = udp.ending /\ udp'.endSeq = udp.endSeq
    BY <1>4, <2>3, <2>4, <2>7 DEF SameFrames, AtEnd
  <2>8. CASE /\ SameFrames(udp, udp') /\ udp'.quiet = "fresh" /\ udp.active /\ p.tok = udp.token
             /\ p.end /\ udp'.ending /\ udp'.endSeq = p.seq
    <3>1. udp'.endSeq = sent'[udp'.token] /\ ~(phase' = "sending" /\ stream' = udp'.token)
      BY <1>1, <2>2, <2>5, <2>8
    <3>2. udp.ending => udp'.endSeq = udp.endSeq
      BY <2>1, <2>2, <2>8 DEF EndInv, EndKnown
    <3> QED
      BY <2>3, <2>4, <2>8, <3>1, <3>2 DEF EndInv, EndKnown, AtEnd, SameFrames
  <2>9. CASE udp.active /\ p.tok = udp.token /\ udp' = StoreFrame(udp, p.seq)
    <3>1. /\ udp'.quiet = "fresh" /\ udp'.ending = udp.ending /\ udp'.endSeq = udp.endSeq
          /\ udp.receivedAny => udp'.next = udp.next
      BY <1>0, <2>9 DEF StoreFrame, Sessions
    <3>2. udp.ending => udp.endSeq = sent[udp.token] /\ ~(phase = "sending" /\ stream = udp.token)
      BY <2>1, <2>9 DEF EndInv, EndKnown
    <3>3. EndKnown'
      BY <1>1, <2>5, <2>9, <3>1, <3>2 DEF EndKnown
    <3> QED
      BY <2>3, <2>4, <3>1, <3>3 DEF EndInv, AtEnd
  <2> QED
    BY <1>0, <2>2, <2>3, <2>6, <2>7, <2>8, <2>9, ReceivedCases
<1>8. CASE StartAudioSession \/ StartReplyLost
  <2>1. /\ ~udp.active /\ pc' = pc
        /\ udp' = [NoSession EXCEPT !.active = TRUE, !.token = issued + 1]
    BY <1>8 DEF StartAudioSession, StartReplyLost, BeginUdpPcmSession
  <2>2. ~udp'.ending /\ udp'.quiet = "timeout" /\ pc' # "fade"
    BY <2>1 DEF NoSession, SessionInv, PumpUse
  <2> QED
    BY <2>2 DEF EndInv, EndKnown
<1> QED
  BY <1>5, <1>6, <1>7, <1>8 DEF StreamNext, Client, SendFrame, SendEnd, StreamFails, PollStatus,
     PollGivesUp, streamVars

\* At the end of a session of which everything was received and nothing lost, everything
\* was heard.
LEMMA EndHeard ==
  ASSUME EngineInv, StreamTypes, NetInv, CountInv, EndInv,
         MaxDuplicates = 0 \/ RingFrames >= MaxFrames,
         udp.active, AtEnd, udp.lost = 0, udp.received > 0, udp.received >= sent[udp.token]
  PROVE  udp.heard = 0 .. sent[udp.token] - 1
<1> DEFINE n == sent[udp.token]
           H == udp.heard
<1>0. udp \in Sessions /\ Ledger(udp) /\ udp.token # 0 /\ udp.token \in Tokens
  <2>1. udp \in Sessions /\ Ledger(udp) /\ udp.token # 0
    BY DEF EngineInv, DataTypes, LedgerInv, NetInv, ClientInv
  <2> QED
    BY <2>1, UdpAssumption DEF UdpAssumption, Sessions, Tokens
<1>1. /\ n \in Nat /\ udp.received \in Nat /\ udp.next \in Nat /\ udp.first \in Nat
      /\ udp.highest \in Nat /\ udp.endSeq \in Nat
      /\ H \subseteq FrameSeqs /\ udp.ring \subseteq FrameSeqs /\ \A s \in FrameSeqs : s \in Nat
  BY <1>0, UdpAssumption DEF UdpAssumption, StreamTypes, Sessions, FrameSeqs
<1>2. udp.receivedAny
  BY <1>1 DEF CountInv
<1>3. udp.highest < n /\ \A s \in H : s < n
  BY <1>0, <1>2 DEF NetInv, OwnFrames
<1>4. /\ H \subseteq 0 .. n - 1 /\ IsFiniteSet(0 .. n - 1) /\ Cardinality(0 .. n - 1) = n
  <2>1. n - 1 \in Int /\ n - 1 >= -1
    BY <1>1
  <2>2. IsFiniteSet(0 .. n - 1) /\ Cardinality(0 .. n - 1) = n
    <3>1. ASSUME NEW m \in Int, m >= -1 PROVE IsFiniteSet(0 .. m) /\ Cardinality(0 .. m) = m + 1
      <4>1. 0 \in Int
        OBVIOUS
      <4>2. IsFiniteSet(0 .. m) /\ Cardinality(0 .. m) = IF 0 > m THEN 0 ELSE m - 0 + 1
        BY <4>1, FS_Interval
      <4> QED
        BY <3>1, <4>2
    <3>2. (n - 1) + 1 = n
      BY <1>1
    <3> QED
      BY <2>1, <3>1, <3>2
  <2> QED
    BY <1>1, <1>3, <2>2
<1>5. SUFFICES Cardinality(H) >= n
  <2>1. Cardinality(H) <= n /\ (Cardinality(H) = n => H = 0 .. n - 1) /\ Cardinality(H) \in Nat
    BY <1>4, FS_Subset, FS_CardinalityType
  <2> QED
    BY <1>1, <1>5, <2>1
<1>6. udp.next >= n \/ udp.next > udp.highest
  <2>1. udp.next >= udp.endSeq /\ (udp.endSeq = n \/ udp.endSeq = udp.highest + 1)
    BY DEF AtEnd, EndInv, EndKnown
  <2> HIDE DEF n
  <2> QED
    BY <1>1, <2>1
<1>7. CASE RingFrames >= MaxFrames
  <2>1. udp.next > udp.highest
    BY <1>1, <1>3, <1>6
  <2>2. udp.ring \subseteq udp.next .. udp.highest
    BY <1>0, <1>2 DEF Ledger
  <2>3. udp.ring \cup H = H
    BY <1>1, <2>1, <2>2
  <2> QED
    BY <1>1, <1>2, <1>7, <2>3, FrameSets DEF CountInv
<1>8. CASE MaxDuplicates = 0
  <2>1. Cardinality(Awaited) \in Nat
    BY FrameSets DEF Awaited, InNet
  <2>2. udp.received + Cardinality(Awaited) <= udp.highest + 1 - udp.first
    BY <1>2, <1>8 DEF CountInv
  <2>3. udp.first = 0 /\ udp.highest = n - 1
    BY <1>1, <1>3, <2>1, <2>2
  <2>4. Cardinality(H) = udp.next
    <3>1. Cardinality(H) + udp.lost = udp.next - udp.first /\ Cardinality(H) \in Nat
      BY <1>0, <1>1, <1>2, FrameSets DEF Ledger
    <3> HIDE DEF H
    <3> QED
      BY <1>1, <2>3, <3>1
  <2> QED
    BY <1>1, <1>6, <2>3, <2>4
<1> QED
  BY <1>7, <1>8

\* Only BeginUdpPcmSession opens a session or gives the client one to stream to.
LEMMA TokenCases ==
  ASSUME DataTypes, StreamTypes, ClientInv, [StreamNext]_streamVars
  PROVE  \/ issued' = issued /\ udp'.token \in {0, udp.token} /\ stream' \in {0, stream}
         \/ /\ issued' = issued + 1 /\ udp'.token = issued + 1 /\ verdict' = verdict
            /\ stream' \in {0, issued + 1} /\ udp.token = 0
<1>0. udp \in Sessions
  BY DEF DataTypes
<1>1. CASE Device
  <2>1. udp' = NoSession \/ PlayFrame \/ SameFrames(udp, udp')
    BY <1>1, DeviceStep
  <2>2. udp'.token \in {0, udp.token}
    <3>1. NoSession.token = 0
      BY DEF NoSession
    <3>2. PlayFrame \/ SameFrames(udp, udp') => udp'.token = udp.token
      BY <1>0 DEF PlayFrame, Sessions, SameFrames
    <3> QED
      BY <2>1, <3>1, <3>2
  <2> QED
    BY <1>1, <2>2, DeviceStep DEF clientVars
<1>2. CASE Network
  <2>1. PICK p \in Packets : HandlePacket(p) \/ UNCHANGED vars
    BY <1>2 DEF Network, Deliver, DeliverCopy, Lose, StreamTypes
  <2>2. udp'.token = udp.token /\ issued' = issued
    BY <1>0, <2>1, ReceivedCases DEF HandlePacket, vars
  <2> QED
    BY <1>2, <2>2 DEF Network, Deliver, DeliverCopy, Lose, clientVars
<1>3. CASE StartAudioSession \/ StartReplyLost
  <2>1. udp'.token = issued + 1 /\ udp.token = 0 /\ stream = 0
    BY <1>3 DEF StartAudioSession, StartReplyLost, BeginUdpPcmSession, NoSession, ClientInv
  <2> QED
    BY <1>3, <2>1 DEF StartAudioSession, StartReplyLost, BeginUdpPcmSession, clientVars
<1>4. CASE SendFrame \/ SendEnd \/ StreamFails \/ PollStatus \/ PollGivesUp
  BY <1>4 DEF SendFrame, SendEnd, StreamFails, PollStatus, PollGivesUp, Report, vars
<1>5. CASE UNCHANGED streamVars
  BY <1>5 DEF streamVars, vars, clientVars
<1> QED
  BY <1>1, <1>2, <1>3, <1>4, <1>5 DEF StreamNext, Client

LEMMA LastInvStep ==
  ASSUME StopRequests = FALSE, NetworkStalls = FALSE, MaxDuplicates = 0 \/ RingFrames >= MaxFrames,
         EngineInv, DataTypes', StreamTypes, NetInv, SessionInv, CountInv, EndInv, LastInv,
         [StreamNext]_streamVars
  PROVE  LastInv'
<1>0. /\ DataTypes /\ SpeakerInv /\ ClientInv /\ issued \in Nat
      /\ issued # 0 => issued \in Tokens
  BY UdpAssumption DEF UdpAssumption, EngineInv, DataTypes, NetInv, Tokens
<1>1. ASSUME RecordHeard \/ heardBy' = heardBy, udp'.token = udp.token, last' = last,
             issued' = issued
      PROVE  LastInv'
  <2> SUFFICES ASSUME udp.token = 0, issued # 0, last.reason = "end"
               PROVE  /\ ~(phase' = "sending" /\ stream' = issued)
                      /\ heardBy'[issued] = heardBy[issued] /\ sent'[issued] = sent[issued]
    BY <1>1 DEF LastInv
  <2>1. ~(phase = "sending" /\ stream = issued)
    BY DEF LastInv
  <2>2. sent'[issued] = sent[issued]
    BY <1>0, <2>1, SentGrows
  <2>3. heardBy'[issued] = heardBy[issued]
    BY <1>0, <1>1, Recorded
  <2>4. ~(phase' = "sending" /\ stream' = issued)
    <3>1. (~SendFrame /\ ~SendEnd) \/ stream # issued
      BY <2>1 DEF SendFrame, SendEnd
    <3>2. issued' # issued + 1
      BY <1>0, <1>1
    <3> QED
      BY <1>0, <1>1, <2>1, <3>1, <3>2, NetCases
  <2> QED
    BY <2>2, <2>3, <2>4
<1>2. CASE Device
  <2>1. UNCHANGED <<issued, clientVars>> /\ RecordHeard
    BY <1>0, <1>2, DeviceStep
  <2>2. CASE \E r \in Reasons : /\ CloseSession(r) /\ udp.active /\ pc' = "idle"
                                /\ r # "" /\ (r = "end" => AtEnd)
    <3>1. PICK r \in Reasons : CloseSession(r) /\ udp.active /\ r # "" /\ (r = "end" => AtEnd)
      BY <2>2
    <3>2. /\ last' = [reason |-> r, received |-> udp.received, lost |-> udp.lost]
          /\ udp'.token = 0 /\ udp.token = issued /\ issued \in Tokens
      BY <1>0, <3>1 DEF CloseSession, NoSession, ClientInv
    <3>3. heardBy' = heardBy /\ heardBy[issued] = udp.heard
      BY <1>0, <2>1, <3>2 DEF RecordHeard, ClientInv, Tokens
    <3>4. r = "end" => ~(phase = "sending" /\ stream = issued)
      BY <3>1, <3>2 DEF AtEnd, EndInv, EndKnown
    <3>5. r = "end" /\ udp.lost = 0 /\ udp.received > 0 /\ udp.received >= sent[issued]
            => udp.heard = 0 .. sent[issued] - 1
      BY <3>1, <3>2, EndHeard
    <3> QED
      BY <2>1, <3>1, <3>2, <3>3, <3>4, <3>5 DEF LastInv, clientVars
  <2> QED
    BY <1>0, <1>1, <1>2, <2>1, <2>2, DeviceEnds
<1>3. CASE RecordHeard /\ Network
  <2>1. PICK p \in Packets : HandlePacket(p) \/ UNCHANGED vars
    BY <1>3 DEF Network, Deliver, DeliverCopy, Lose, StreamTypes
  <2>2. udp'.token = udp.token /\ issued' = issued /\ last' = last
    BY <1>0, <2>1, ReceivedCases DEF HandlePacket, vars, DataTypes
  <2> QED
    BY <1>1, <1>3, <2>2
<1>4. CASE StartAudioSession \/ StartReplyLost
  <2>1. udp'.token = issued + 1
    BY <1>4 DEF StartAudioSession, StartReplyLost, BeginUdpPcmSession, NoSession
  <2>2. udp'.token # 0
    BY <1>0, <2>1
  <2> QED
    BY <2>2 DEF LastInv
<1>5. CASE (RecordHeard \/ heardBy' = heardBy) /\ UNCHANGED vars
  BY <1>1, <1>5 DEF vars
<1> QED
  BY <1>2, <1>3, <1>4, <1>5 DEF StreamNext, Client, SendFrame, SendEnd, StreamFails, PollStatus,
     PollGivesUp, streamVars

LEMMA VerdictInvStep ==
  ASSUME PollMayGiveUp = FALSE, EngineInv, DataTypes', StreamTypes, NetInv, LastInv, VerdictInv,
         [StreamNext]_streamVars
  PROVE  VerdictInv'
<1>0. /\ DataTypes /\ ClientInv /\ issued \in Nat /\ \A t \in Tokens : t \in Nat /\ t # 0
      /\ phase # "idle" => stream \in Tokens /\ stream = issued
  BY UdpAssumption DEF UdpAssumption, EngineInv, DataTypes, NetInv, StreamTypes, ClientInv, Tokens
<1>1. ASSUME NEW t \in Tokens, verdict[t] = "ok"
      PROVE  /\ heardBy'[t] = 0 .. sent'[t] - 1
             /\ t # udp'.token /\ t # stream' /\ t <= issued'
  <2>1. heardBy[t] = 0 .. sent[t] - 1 /\ t # udp.token /\ t # stream /\ t <= issued
    BY <1>1 DEF VerdictInv
  <2>2. sent'[t] = sent[t]
    BY <1>0, <2>1, SentGrows
  <2>3. heardBy'[t] = heardBy[t]
    <3>1. RecordHeard \/ heardBy' = heardBy
      BY <1>0, DeviceStep DEF StreamNext, streamVars
    <3> QED
      BY <1>0, <2>1, <3>1, Recorded
  <2>4. t # udp'.token /\ t # stream' /\ t <= issued'
    BY <1>0, <2>1, TokenCases
  <2> QED
    BY <2>1, <2>2, <2>3, <2>4
<1>2. CASE verdict' = verdict
  BY <1>1, <1>2 DEF VerdictInv
<1>3. CASE RecordHeard /\ StreamFails
  <2>1. \A t \in Tokens : verdict'[t] = "ok" => verdict[t] = "ok"
    BY <1>3 DEF StreamFails, Report, StreamTypes
  <2> QED
    BY <1>1, <2>1 DEF VerdictInv
<1>4. CASE RecordHeard /\ PollStatus /\ SessionOver
  <2>1. /\ stream \in Tokens /\ stream = issued /\ udp.token = 0 /\ udp' = udp /\ issued' = issued
        /\ verdict' = [verdict EXCEPT ![stream] = Judge(last)] /\ stream' = 0 /\ sent' = sent
    BY <1>0, <1>4 DEF PollStatus, SessionOver, Report, vars, ClientInv
  <2>2. Judge(last) = "ok" => heardBy'[stream] = 0 .. sent'[stream] - 1
    <3>1. heardBy' = heardBy
      BY <1>0, <1>4, <2>1 DEF RecordHeard
    <3>2. Judge(last) = "ok" => /\ last.received > 0 /\ last.received >= sent[stream]
                                /\ last.lost = 0 /\ last.reason \in {"", "end"}
      BY DEF Judge
    <3> QED
      BY <1>0, <2>1, <3>1, <3>2 DEF LastInv
  <2>3. ASSUME NEW t \in Tokens, verdict'[t] = "ok"
        PROVE  /\ heardBy'[t] = 0 .. sent'[t] - 1
               /\ t # udp'.token /\ t # stream' /\ t <= issued'
    <3>1. CASE t = stream
      BY <1>0, <2>1, <2>2, <2>3, <3>1 DEF StreamTypes
    <3>2. CASE t # stream
      <4>1. verdict[t] = "ok"
        BY <2>1, <2>3, <3>2 DEF StreamTypes
      <4> QED
        BY <1>1, <4>1
    <3> QED
      BY <3>1, <3>2
  <2> QED
    BY <2>3 DEF VerdictInv
<1> QED
  <2>1. CASE Device
    BY <1>0, <1>2, <2>1, DeviceStep DEF clientVars
  <2>2. CASE Network \/ UNCHANGED streamVars
    BY <1>2, <2>2 DEF Network, Deliver, DeliverCopy, Lose, clientVars, streamVars
  <2>3. CASE StartAudioSession \/ StartReplyLost \/ SendFrame \/ SendEnd
             \/ (PollStatus /\ ~SessionOver)
    BY <1>2, <2>3 DEF StartAudioSession, StartReplyLost, SendFrame, SendEnd, PollStatus, clientVars
  <2>4. ~PollGivesUp
    BY DEF PollGivesUp
  <2> QED
    BY <1>3, <1>4, <2>1, <2>2, <2>3, <2>4 DEF StreamNext, Client

SuccessInv == CountInv /\ EndInv /\ LastInv /\ VerdictInv

\* What the client may rely on: nobody else stops its session, it sees the final status,
\* no gap of the stream outlasts the idle grace, and no duplicate comes after its slot of
\* the ring has been used again.  When the conditions hold, a success that
\* post_pcm_udp_stream reports is true: every frame that was sent was heard.
THEOREM SuccessIsHeard ==
  ASSUME StopRequests = FALSE, PollMayGiveUp = FALSE, NetworkStalls = FALSE,
         MaxDuplicates = 0 \/ RingFrames >= MaxFrames
  PROVE  StreamSpec => []SuccessMeansHeard
<1>1. StreamInit => SuccessInv
  <2> SUFFICES ASSUME StreamInit PROVE SuccessInv
    OBVIOUS
  <2>1. ~udp.active /\ ~udp.receivedAny /\ udp.received = 0 /\ issued = 0 /\ pc = "idle"
    BY DEF StreamInit, Init, NoSession
  <2>2. \A t \in Tokens : verdict[t] = "none"
    BY DEF StreamInit
  <2>3. duplicates = 0
    BY DEF StreamInit
  <2> QED
    BY <2>1, <2>2, <2>3 DEF SuccessInv, CountInv, EndInv, EndKnown, LastInv, VerdictInv
<1>2. EngineInv /\ StreamTypes /\ NetInv /\ SessionInv /\ SuccessInv /\ EngineInv'
        /\ [StreamNext]_streamVars
        => SuccessInv'
  BY CountInvStep, EndInvStep, LastInvStep, VerdictInvStep DEF SuccessInv, EngineInv
<1>3. StreamSpec => [](DataTypes /\ SpeakerInv /\ SessionInv)
  BY StreamRunsTheEngine, SessionInvariant, PTL
<1>4. OnlySentIsHeard /\ SuccessInv => SuccessMeansHeard
  BY DEF SuccessInv, VerdictInv, SuccessMeansHeard
<1>5. StreamSpec => []OnlySentIsHeard
  BY OnlyOwnFramesHeard
<1> QED
  BY <1>1, <1>2, <1>3, <1>4, <1>5, NetInvariant, PTL DEF StreamSpec

=============================================================================
