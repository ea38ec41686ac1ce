--------------------------- MODULE UdpAudio_proofs ---------------------------
(***************************************************************************)
(* Theorems about the UDP session engine, for any number of frames, any    *)
(* start threshold, any size of the jitter buffer and any number of        *)
(* sessions, with and without faults: its types, who owns the speaker, the *)
(* ledger of the frames (PlaybackLedger), and that the engine implements   *)
(* AudioSession whoever stops a session in the middle.                     *)
(***************************************************************************)
EXTENDS UdpAudio, AudioGate_proofs, FiniteSetTheorems

-----------------------------------------------------------------------------
(* Types *)

\* A datagram leaves a session a session.
LEMMA ReceivedTypes ==
  ASSUME NEW u \in Sessions, NEW p \in Packets
  PROVE  Received(u, p) \in Sessions
<1> USE UdpAssumption DEF UdpAssumption
<1>1. p.seq \in 0 .. MaxFrames /\ (p.end \/ p.seq \in FrameSeqs)
  <2>1. CASE p \in [tok : Tokens, end : {FALSE}, seq : FrameSeqs]
    BY <2>1 DEF FrameSeqs
  <2>2. CASE p \in [tok : Tokens, end : {TRUE}, seq : 0 .. MaxFrames]
    BY <2>2
  <2> QED
    BY <2>1, <2>2 DEF Packets
<1>2. [u EXCEPT !.quiet = "fresh"] \in Sessions
  BY DEF Sessions, Ages
<1>3. [u EXCEPT !.quiet = "fresh", !.ending = TRUE, !.endSeq = p.seq] \in Sessions
  BY <1>1 DEF Sessions, Ages
<1>4. ASSUME p.seq \in FrameSeqs PROVE StoreFrame(u, p.seq) \in Sessions
  <2> DEFINE ring == {s \in u.ring : ~SameSlot(s, p.seq)} \cup {p.seq}
             first == IF u.receivedAny THEN u.first ELSE p.seq
             next == IF u.receivedAny THEN u.next ELSE p.seq
             highest == IF u.receivedAny /\ u.highest >= p.seq THEN u.highest ELSE p.seq
  <2>1. /\ ring \in SUBSET FrameSeqs /\ u.received + 1 \in Nat
        /\ first \in FrameSeqs /\ next \in 0 .. MaxFrames /\ highest \in FrameSeqs
    BY <1>4 DEF Sessions, FrameSeqs
  <2>2. ASSUME NEW r \in SUBSET FrameSeqs, NEW c \in Nat, NEW f \in FrameSeqs,
               NEW n \in 0 .. MaxFrames, NEW h \in FrameSeqs
        PROVE  [u EXCEPT !.quiet = "fresh", !.ring = r, !.received = c, !.receivedAny = TRUE,
                         !.first = f, !.next = n, !.highest = h] \in Sessions
    BY DEF Sessions, Ages
  <2> QED
    BY <2>1, <2>2 DEF StoreFrame
<1> QED
  BY <1>1, <1>2, <1>3, <1>4 DEF Received

LEMMA NoSessionTypes == NoSession \in Sessions
BY UdpAssumption DEF UdpAssumption, NoSession, Sessions, FrameSeqs, Ages

\* The gate is well formed, the other data has its type.
DataTypes ==
    /\ udp \in Sessions
    /\ last \in [reason : Reasons, received : Nat, lost : Nat]
    /\ issued \in 0 .. MaxSessions
    /\ GoodGate(gate)
    /\ pc \in {"idle", "gate", "settle", "play", "write", "fade"}
    /\ why \in Reasons
    /\ loop \in {"idle", "fade", "micGate", "micInit"}

FlagTypes == i2s \in BOOLEAN /\ mic \in BOOLEAN /\ micResume \in BOOLEAN

\* finishUdpSession, by either task, keeps the types.
LEMMA CloseTypes ==
  ASSUME DataTypes, NEW r \in Reasons, CloseSession(r)
  PROVE  udp' \in Sessions /\ last' \in [reason : Reasons, received : Nat, lost : Nat]
<1>1. udp.received \in Nat /\ udp.lost \in Nat
  BY DEF DataTypes, Sessions
<1> QED
  BY <1>1, NoSessionTypes DEF CloseSession

LEMMA PcmFinishesTypes ==
  ASSUME DataTypes, NEW r \in Reasons, PcmFinishes(r)
  PROVE  DataTypes'
<1>1. CASE MayFade /\ pc' = "fade" /\ why' = r /\ UNCHANGED <<udp, last, i2s, gate, micResume>>
  BY <1>1 DEF PcmFinishes, DataTypes
<1>2. CASE EndSession("pcm", r) /\ pc' = "idle" /\ why' = ""
  <2>1. udp' \in Sessions /\ last' \in [reason : Reasons, received : Nat, lost : Nat]
    BY <1>2, CloseTypes DEF EndSession
  <2>2. GoodGate(gate')
    BY <1>2, GiveGood DEF EndSession, ReleaseSpeaker, DataTypes, GateTasks
  <2> QED
    BY <1>2, <2>1, <2>2 DEF PcmFinishes, DataTypes, Reasons
<1> QED
  BY <1>1, <1>2 DEF PcmFinishes

LEMMA DataTypesStep == DataTypes /\ [Next]_vars => DataTypes'
<1> SUFFICES ASSUME DataTypes, [Next]_vars PROVE DataTypes'
  OBVIOUS
<1> USE UdpAssumption DEF UdpAssumption
<1>0. NoSession \in Sessions
  BY NoSessionTypes
<1>1. ASSUME NEW p \in Packets, HandlePacket(p) PROVE DataTypes'
  BY <1>1, ReceivedTypes DEF HandlePacket, DataTypes
<1>2. CASE PrerollTimesOut \/ GateBusy \/ EndReached \/ StreamTimesOut \/ IdleEnds \/ WriteFails
  BY <1>2, PcmFinishesTypes DEF PrerollTimesOut, GateBusy, EndReached, StreamTimesOut, IdleEnds,
     WriteFails, Reasons
<1>3. CASE PcmFadeDone
  <2>1. udp' \in Sessions /\ last' \in [reason : Reasons, received : Nat, lost : Nat]
    BY <1>3, CloseTypes DEF PcmFadeDone, DataTypes
  <2>2. GoodGate(gate')
    BY <1>3, GiveGood DEF PcmFadeDone, ReleaseSpeaker, DataTypes, GateTasks
  <2> QED
    BY <1>3, <2>1, <2>2 DEF PcmFadeDone, DataTypes, Reasons
<1>4. CASE PrepareSpeaker \/ WriteDone
  BY <1>4 DEF PrepareSpeaker, WriteDone, DataTypes
<1>5. CASE GateEntered
  <2>1. GoodGate(gate')
    BY <1>5, TakeGood DEF GateEntered, DataTypes, GateTasks, GateOwners
  <2> QED
    BY <1>5, <2>1 DEF GateEntered, DataTypes
<1>6. CASE I2sFails
  <2>1. udp' \in Sessions /\ last' \in [reason : Reasons, received : Nat, lost : Nat]
    BY <1>6, CloseTypes DEF I2sFails, Reasons
  <2>2. GoodGate(gate')
    BY <1>6, GiveGood DEF I2sFails, DataTypes, GateTasks
  <2> QED
    BY <1>6, <2>1, <2>2 DEF I2sFails, DataTypes
<1>7. CASE I2sStarts
  BY <1>7 DEF I2sStarts, DataTypes, Sessions
<1>8. CASE IdleDrains
  <2>1. udp.highest + 1 \in 0 .. MaxFrames
    BY DEF DataTypes, Sessions, FrameSeqs
  <2>2. udp' \in Sessions
    BY <1>8, <2>1 DEF IdleDrains, DataTypes, Sessions
  <2> QED
    BY <1>8, <2>2 DEF IdleDrains, DataTypes
<1>9. CASE PlayFrame
  <2>1. udp' \in Sessions
    <3>1. udp.next + 1 \in 0 .. MaxFrames
      BY <1>9 DEF PlayFrame, Flowing, AtEnd, DataTypes, Sessions, FrameSeqs
    <3>2. CASE udp.next \in udp.ring
      BY <1>9, <3>1, <3>2 DEF PlayFrame, DataTypes, Sessions
    <3>3. CASE udp.next \notin udp.ring
      <4>1. udp.lost + 1 \in Nat
        BY DEF DataTypes, Sessions
      <4>2. udp' = [udp EXCEPT !.lost = udp.lost + 1, !.next = udp.next + 1]
        BY <1>9, <3>3 DEF PlayFrame
      <4> QED
        BY <3>1, <4>1, <4>2 DEF DataTypes, Sessions
    <3> QED
      BY <3>2, <3>3
  <2> QED
    BY <1>9, <2>1 DEF PlayFrame, DataTypes
<1>10. CASE BeginUdpPcmSession
  <2>0. issued + 1 \in 0 .. MaxSessions
    BY <1>10 DEF BeginUdpPcmSession, DataTypes
  <2>1. udp' \in Sessions /\ issued' \in 0 .. MaxSessions
    BY <1>0, <1>10, <2>0 DEF BeginUdpPcmSession, Sessions
  <2> QED
    BY <1>10, <2>1 DEF BeginUdpPcmSession, DataTypes
<1>11. CASE StopUdpPcmSession
  <2>1. CASE UNCHANGED <<udp, last, i2s, gate, micResume>> /\ loop' = "fade"
    BY <1>11, <2>1 DEF StopUdpPcmSession, DataTypes
  <2>2. CASE EndSession("loop", "stopped") /\ UNCHANGED loop
    <3>1. udp' \in Sessions /\ last' \in [reason : Reasons, received : Nat, lost : Nat]
      BY <2>2, CloseTypes DEF EndSession, Reasons
    <3>2. GoodGate(gate')
      BY <2>2, GiveGood DEF EndSession, ReleaseSpeaker, DataTypes, GateTasks
    <3> QED
      BY <1>11, <2>2, <3>1, <3>2 DEF StopUdpPcmSession, DataTypes
  <2> QED
    BY <1>11, <2>1, <2>2 DEF StopUdpPcmSession
<1>12. CASE StopFadeDone
  <2>1. udp' \in Sessions /\ last' \in [reason : Reasons, received : Nat, lost : Nat]
    BY <1>12, CloseTypes DEF StopFadeDone, Reasons
  <2>2. GoodGate(gate')
    BY <1>12, GiveGood DEF StopFadeDone, ReleaseSpeaker, DataTypes, GateTasks
  <2> QED
    BY <1>12, <2>1, <2>2 DEF StopFadeDone, DataTypes
<1>13. CASE ResumeMic \/ MicRecords \/ InitMicrophoneSkipped
  BY <1>13 DEF ResumeMic, MicRecords, InitMicrophoneSkipped, DataTypes
<1>14. CASE InitMicrophone
  <2>1. GoodGate(gate')
    BY <1>14, TakeGood DEF InitMicrophone, DataTypes, GateTasks, GateOwners
  <2> QED
    BY <1>14, <2>1 DEF InitMicrophone, DataTypes
<1>15. CASE MicrophoneBegins
  <2>1. GoodGate(gate')
    BY <1>15, GiveGood DEF MicrophoneBegins, DataTypes, GateTasks
  <2> QED
    BY <1>15, <2>1 DEF MicrophoneBegins, DataTypes
<1>16. CASE PrerollElapses
  BY <1>16 DEF PrerollElapses, DataTypes, Sessions
<1>17. CASE SilenceGrows
  <2>1. udp' \in Sessions
    BY <1>17 DEF SilenceGrows, DataTypes, Sessions, Ages
  <2> QED
    BY <1>17, <2>1 DEF SilenceGrows, DataTypes
<1>18. CASE UNCHANGED vars
  BY <1>18 DEF vars, DataTypes
<1> QED
  BY <1>1, <1>2, <1>3, <1>4, <1>5, <1>6, <1>7, <1>8, <1>9, <1>10, <1>11, <1>12, <1>13, <1>14,
     <1>15, <1>16, <1>17, <1>18
  DEF Next, PcmTask, LoopTask, MicSteps, Time

LEMMA FlagTypesStep == FlagTypes /\ [Next]_vars => FlagTypes'
<1> SUFFICES ASSUME FlagTypes, [Next]_vars PROVE FlagTypes'
  OBVIOUS
<1> USE DEF FlagTypes, PcmFinishes, EndSession, ReleaseSpeaker
<1>1. CASE PcmTask
  BY <1>1, ZenonT(60) DEF PcmTask, PrerollTimesOut, PrepareSpeaker, GateEntered, GateBusy, I2sFails,
     I2sStarts, EndReached, StreamTimesOut, IdleEnds, IdleDrains, PlayFrame, WriteDone,
     WriteFails, PcmFadeDone
<1>2. CASE LoopTask
  BY <1>2, Zenon DEF LoopTask, BeginUdpPcmSession, StopUdpPcmSession, StopFadeDone, MicSteps,
     ResumeMic, MicRecords, InitMicrophone, InitMicrophoneSkipped, MicrophoneBegins
<1>3. CASE Time \/ (\E p \in Packets : HandlePacket(p)) \/ UNCHANGED vars
  BY <1>3, Zenon DEF Time, PrerollElapses, SilenceGrows, HandlePacket, vars
<1> QED
  BY <1>1, <1>2, <1>3 DEF Next

LEMMA TypesInit == Init => DataTypes /\ FlagTypes
<1>1. GoodGate(FreeGate)
  BY DEF GoodGate, Gates, FreeGate, GateOwners
<1>2. [reason |-> "", received |-> 0, lost |-> 0] \in [reason : Reasons, received : Nat, lost : Nat]
  BY DEF Reasons
<1>3. "" \in Reasons /\ 0 \in 0 .. MaxSessions
  BY UdpAssumption DEF UdpAssumption, Reasons
<1>4. Init => DataTypes
  BY <1>1, <1>2, <1>3, NoSessionTypes DEF Init, DataTypes
<1>5. Init => FlagTypes
  BY Zenon DEF Init, FlagTypes
<1> QED
  BY <1>4, <1>5

LEMMA TypesCorrect == Spec => [](DataTypes /\ FlagTypes)
BY TypesInit, DataTypesStep, FlagTypesStep, PTL DEF Spec

\* Every variable keeps its type; in particular the nesting count of the gate
\* never goes below zero.
THEOREM TypeCorrect == Spec => []TypeOK
<1>1. DataTypes /\ FlagTypes => TypeOK
  BY DEF DataTypes, FlagTypes, TypeOK, GoodGate
<1> QED
  BY <1>1, TypesCorrect, PTL

-----------------------------------------------------------------------------
(* The speaker and the microphone *)

\* The I2S driver runs exactly while a session plays, and then pcmStreamTask
\* holds the gate and the microphone is off.  It holds the gate, the microphone
\* off, from the moment it entered; and the loop task starts the microphone
\* only while it holds the gate itself.  A gate that is never given back, as
\* after DELETE, does not break this.
SpeakerInv ==
    /\ i2s <=> udp.playing
    /\ i2s => gate.holder = "pcm" /\ ~mic
    /\ pc \in {"gate", "settle"} => ~udp.playing
    /\ pc = "settle" => gate.holder = "pcm" /\ ~mic
    /\ loop = "micInit" => gate.holder = "loop"

\* A session that is closed does not play.
LEMMA NoSessionSilent == NoSession.playing = FALSE /\ NoSession.active = FALSE
BY DEF NoSession

\* A datagram neither starts nor stops a session.
LEMMA ReceivedKeeps ==
  ASSUME NEW u \in Sessions, NEW p
  PROVE  /\ Received(u, p).playing = u.playing
         /\ Received(u, p).active = u.active
         /\ Received(u, p).heard = u.heard
BY DEF Received, StoreFrame, Sessions

\* When a task ends a session, the driver is off and nothing plays; the loop
\* task cannot give back a gate that pcmStreamTask holds.
LEMMA EndSessionSilent ==
  ASSUME DataTypes, SpeakerInv, NEW task \in GateTasks, NEW r, EndSession(task, r)
  PROVE  /\ ~i2s' /\ udp' = NoSession
         /\ ~udp.playing => UNCHANGED gate
         /\ gate.holder # task => gate'.holder = gate.holder
<1>1. CASE udp.playing
  BY <1>1, GiveKeepsHolder DEF EndSession, CloseSession, ReleaseSpeaker, DataTypes, GoodGate
<1>2. CASE ~udp.playing
  BY <1>2 DEF EndSession, CloseSession, SpeakerInv
<1> QED
  BY <1>1, <1>2

LEMMA PcmFinishesSpeaker ==
  ASSUME DataTypes, SpeakerInv, pc # "settle", NEW r, PcmFinishes(r)
  PROVE  SpeakerInv'
<1>1. CASE MayFade /\ pc' = "fade" /\ UNCHANGED <<udp, last, i2s, gate, micResume>>
  BY <1>1 DEF PcmFinishes, SpeakerInv
<1>2. CASE EndSession("pcm", r) /\ pc' = "idle"
  <2>1. /\ ~i2s' /\ udp' = NoSession
        /\ ~udp.playing => UNCHANGED gate
        /\ gate.holder # "pcm" => gate'.holder = gate.holder
    BY <1>2, EndSessionSilent DEF GateTasks
  <2> QED
    BY <1>2, <2>1, NoSessionSilent DEF PcmFinishes, SpeakerInv
<1> QED
  BY <1>1, <1>2 DEF PcmFinishes

LEMMA SpeakerStep == DataTypes /\ SpeakerInv /\ [Next]_vars => SpeakerInv'
<1> SUFFICES ASSUME DataTypes, SpeakerInv, [Next]_vars PROVE SpeakerInv'
  OBVIOUS
<1>0. udp \in Sessions /\ gate \in Gates /\ GoodGate(gate)
  BY DEF DataTypes, GoodGate
<1>1. ASSUME NEW p \in Packets, HandlePacket(p) PROVE SpeakerInv'
  BY <1>0, <1>1, ReceivedKeeps DEF HandlePacket, SpeakerInv
<1>2. CASE PrerollTimesOut \/ GateBusy \/ EndReached \/ StreamTimesOut \/ IdleEnds \/ WriteFails
  <2>1. pc # "settle"
    BY <1>2 DEF PrerollTimesOut, GateBusy, EndReached, StreamTimesOut, IdleEnds, WriteFails, Pumping
  <2> QED
    BY <1>2, <2>1, PcmFinishesSpeaker DEF PrerollTimesOut, GateBusy, EndReached,
       StreamTimesOut, IdleEnds, WriteFails
<1>3. CASE PcmFadeDone
  <2>1. ~i2s' /\ udp' = NoSession /\ (gate.holder # "pcm" => gate'.holder = gate.holder)
    BY <1>0, <1>3, GiveKeepsHolder DEF PcmFadeDone, ReleaseSpeaker, CloseSession
  <2> QED
    BY <1>3, <2>1, NoSessionSilent DEF PcmFadeDone, SpeakerInv
<1>4. CASE PrepareSpeaker \/ WriteDone
  BY <1>4 DEF PrepareSpeaker, WriteDone, SpeakerInv
<1>5. CASE GateEntered
  <2>1. gate'.holder = "pcm"
    BY <1>0, <1>5, TakeGood DEF GateEntered, GateTasks, GateOwners
  <2>2. loop # "micInit"
    BY <1>5 DEF GateEntered, CanTake, SpeakerInv
  <2> QED
    BY <1>5, <2>1, <2>2 DEF GateEntered, SpeakerInv
<1>6. CASE I2sFails
  <2>1. udp' = NoSession /\ (gate.holder # "pcm" => gate'.holder = gate.holder)
    BY <1>0, <1>6, GiveKeepsHolder DEF I2sFails, CloseSession
  <2> QED
    BY <1>6, <2>1, NoSessionSilent DEF I2sFails, SpeakerInv
<1>7. CASE I2sStarts
  <2>1. udp'.playing
    BY <1>0, <1>7 DEF I2sStarts, Sessions
  <2> QED
    BY <1>7, <2>1 DEF I2sStarts, SpeakerInv
<1>8. CASE IdleDrains \/ PlayFrame \/ PrerollElapses \/ SilenceGrows
  <2>1. udp'.playing = udp.playing
    BY <1>0, <1>8 DEF IdleDrains, PlayFrame, PrerollElapses, SilenceGrows, Sessions
  <2>2. pc' \in {pc, "idle", "write"} /\ UNCHANGED <<gate, i2s, mic, loop>>
    BY <1>8 DEF IdleDrains, PlayFrame, PrerollElapses, SilenceGrows
  <2> QED
    BY <2>1, <2>2 DEF SpeakerInv
<1>9. CASE BeginUdpPcmSession
  <2>1. ~udp.playing /\ ~udp'.playing
    BY <1>9 DEF BeginUdpPcmSession, NoSession
  <2> QED
    BY <1>9, <2>1 DEF BeginUdpPcmSession, SpeakerInv
<1>10. CASE StopUdpPcmSession
  <2>1. CASE UNCHANGED <<udp, last, i2s, gate, micResume>> /\ loop' = "fade"
    BY <1>10, <2>1 DEF StopUdpPcmSession, SpeakerInv
  <2>2. CASE EndSession("loop", "stopped") /\ UNCHANGED loop
    <3>1. /\ ~i2s' /\ udp' = NoSession
          /\ gate.holder # "loop" => gate'.holder = gate.holder
      BY <2>2, EndSessionSilent DEF GateTasks
    <3> QED
      BY <1>10, <2>2, <3>1, NoSessionSilent DEF StopUdpPcmSession, SpeakerInv
  <2> QED
    BY <1>10, <2>1, <2>2 DEF StopUdpPcmSession
<1>11. CASE StopFadeDone
  <2>1. ~i2s' /\ udp' = NoSession /\ (gate.holder # "loop" => gate'.holder = gate.holder)
    BY <1>0, <1>11, GiveKeepsHolder DEF StopFadeDone, ReleaseSpeaker, CloseSession
  <2> QED
    BY <1>11, <2>1, NoSessionSilent DEF StopFadeDone, SpeakerInv
<1>12. CASE ResumeMic \/ MicRecords \/ InitMicrophoneSkipped
  BY <1>12 DEF ResumeMic, MicRecords, CanTake, InitMicrophoneSkipped, SpeakerInv
<1>13. CASE InitMicrophone
  <2>1. gate'.holder = "loop" /\ gate.holder # "pcm"
    BY <1>0, <1>13, TakeGood DEF InitMicrophone, CanTake, GateTasks, GateOwners
  <2> QED
    BY <1>13, <2>1 DEF InitMicrophone, SpeakerInv
<1>14. CASE MicrophoneBegins
  <2>1. gate.holder = "loop"
    BY <1>14 DEF MicrophoneBegins, SpeakerInv
  <2> QED
    BY <1>14, <2>1 DEF MicrophoneBegins, SpeakerInv
<1>15. CASE UNCHANGED vars
  BY <1>15 DEF vars, SpeakerInv
<1> QED
  BY <1>1, <1>2, <1>3, <1>4, <1>5, <1>6, <1>7, <1>8, <1>9, <1>10, <1>11, <1>12, <1>13, <1>14, <1>15
  DEF Next, PcmTask, LoopTask, MicSteps, Time

LEMMA SpeakerInit == Init => SpeakerInv
BY NoSessionSilent DEF Init, SpeakerInv

LEMMA SpeakerInvariant == Spec => []SpeakerInv
BY SpeakerInit, SpeakerStep, TypesCorrect, PTL DEF Spec

\* The microphone never records while the I2S driver of a stream runs, whatever
\* the network sends and whenever the session is stopped.
THEOREM MicSpeakerNeverTogether == Spec => []MicSpeakerExclusive
<1>1. SpeakerInv => MicSpeakerExclusive
  BY DEF SpeakerInv, MicSpeakerExclusive
<1> QED
  BY <1>1, SpeakerInvariant, PTL

\* A session that plays owns the speaker: its task holds the gate and the
\* driver runs.
THEOREM PlayingOwns == Spec => []PlayingOwnsSpeaker
<1>1. SpeakerInv => PlayingOwnsSpeaker
  BY DEF SpeakerInv, PlayingOwnsSpeaker
<1> QED
  BY <1>1, SpeakerInvariant, PTL

-----------------------------------------------------------------------------
(* The playback ledger *)

\* The ledger of a session: nothing is entered before the first frame.
Ledger(u) ==
    /\ ~u.receivedAny => u.heard = {} /\ u.ring = {} /\ u.lost = 0
    /\ u.receivedAny =>
          /\ u.heard \subseteq u.first .. u.next - 1
          /\ Cardinality(u.heard) + u.lost = u.next - u.first
          /\ u.ring \subseteq u.next .. u.highest
          /\ \A a, b \in u.ring : SameSlot(a, b) => a = b

\* A pump that took its decision for a session that the loop task has replaced
\* meanwhile finds one that received nothing, and must time out: nothing may be
\* played before the first frame, or the positions passed then would be counted
\* in a ledger that begins at that frame.  The loop task fades out only a session
\* that plays or is closed.
PumpGuard ==
    /\ pc \in {"gate", "settle", "play"} /\ ~udp.receivedAny
          => udp.quiet = "timeout" /\ ~udp.ending
    /\ loop = "fade" => pc \notin {"gate", "settle", "play"} /\ (udp.playing \/ ~udp.active)

LedgerInv == Ledger(udp) /\ PumpGuard

\* Only these fields of a session are in its ledger.
LEMMA SameLedger ==
  ASSUME NEW u, NEW v, Ledger(u),
         v.receivedAny = u.receivedAny, v.heard = u.heard, v.ring = u.ring,
         v.lost = u.lost, v.first = u.first, v.next = u.next, v.highest = u.highest
  PROVE  Ledger(v)
BY DEF Ledger

LEMMA NoSessionLedger == Ledger(NoSession)
BY DEF Ledger, NoSession

\* A frame enters the ring in a slot of its own; the first one opens the ledger.
LEMMA StoreFrameLedger ==
  ASSUME NEW u \in Sessions, Ledger(u), NEW seq \in FrameSeqs,
         u.receivedAny => seq >= u.next
  PROVE  Ledger(StoreFrame(u, seq))
<1> DEFINE v == StoreFrame(u, seq)
           ring == {s \in u.ring : ~SameSlot(s, seq)} \cup {seq}
<1> SUFFICES Ledger(v)
  OBVIOUS
<1>1. /\ v.receivedAny /\ v.heard = u.heard /\ v.ring = ring /\ v.lost = u.lost
      /\ v.first = IF u.receivedAny THEN u.first ELSE seq
      /\ v.next = IF u.receivedAny THEN u.next ELSE seq
      /\ v.highest = IF u.receivedAny /\ u.highest >= seq THEN u.highest ELSE seq
  BY DEF StoreFrame, Sessions
<1>2. /\ seq \in Int /\ u.next \in Int /\ u.highest \in Int
      /\ \A s \in u.ring : s \in Int
  BY DEF Sessions, FrameSeqs
<1>3. \A a, b \in ring : SameSlot(a, b) => a = b
  BY DEF Ledger, SameSlot
<1> HIDE DEF v
<1>4. CASE u.receivedAny
  <2>1. /\ v.next = u.next /\ v.first = u.first
        /\ v.highest >= u.highest /\ v.highest >= seq /\ v.highest \in Int
    BY <1>1, <1>2, <1>4
  <2>2. ring \subseteq v.next .. v.highest
    BY <1>2, <1>4, <2>1 DEF Ledger
  <2>3. /\ v.heard \subseteq v.first .. v.next - 1
        /\ Cardinality(v.heard) + v.lost = v.next - v.first
    BY <1>1, <1>4, <2>1 DEF Ledger
  <2> HIDE DEF ring
  <2> QED
    BY <1>1, <1>3, <2>2, <2>3 DEF Ledger
<1>5. CASE ~u.receivedAny
  <2>1. u.heard = {} /\ u.ring = {} /\ u.lost = 0
    BY <1>5 DEF Ledger
  <2>2. ring \subseteq v.next .. v.highest
    BY <1>1, <1>2, <1>5, <2>1
  <2>3. Cardinality(v.heard) + v.lost = v.next - v.first
    BY <1>1, <1>2, <1>5, <2>1, FS_EmptySet
  <2>4. v.heard \subseteq v.first .. v.next - 1
    BY <1>1, <2>1
  <2> HIDE DEF ring
  <2> QED
    BY <1>1, <1>3, <2>2, <2>3, <2>4 DEF Ledger
<1> QED
  BY <1>4, <1>5

LEMMA ReceivedLedger ==
  ASSUME NEW u \in Sessions, Ledger(u), NEW p \in Packets
  PROVE  Ledger(Received(u, p))
<1>1. Ledger([u EXCEPT !.quiet = "fresh"])
  BY SameLedger DEF Sessions
<1>2. Ledger([u EXCEPT !.quiet = "fresh", !.ending = TRUE, !.endSeq = p.seq])
  BY SameLedger DEF Sessions
<1>3. ASSUME ~p.end, ~(u.receivedAny /\ p.seq < u.next)
      PROVE  Ledger(StoreFrame(u, p.seq))
  <2>1. p.seq \in FrameSeqs
    BY <1>3 DEF Packets
  <2>2. u.receivedAny => p.seq >= u.next
    BY <1>3, <2>1 DEF Sessions, FrameSeqs
  <2> QED
    BY <2>1, <2>2, StoreFrameLedger
<1> QED
  BY <1>1, <1>2, <1>3 DEF Received

\* The cursor passes one position: it is heard, or it is lost.
LEMMA PlayFrameLedger ==
  ASSUME DataTypes, Ledger(udp), udp.receivedAny, PlayFrame
  PROVE  Ledger(udp')
<1>1. /\ udp \in Sessions /\ udp.next \in Int /\ udp.first \in Int /\ udp.highest \in Int
      /\ udp.lost \in Int /\ \A s \in udp.ring \cup udp.heard : s \in Int
  BY DEF DataTypes, Sessions, FrameSeqs
<1>2. /\ udp.heard \subseteq udp.first .. udp.next - 1
      /\ Cardinality(udp.heard) + udp.lost = udp.next - udp.first
      /\ udp.ring \subseteq udp.next .. udp.highest
      /\ \A a, b \in udp.ring : SameSlot(a, b) => a = b
  BY DEF Ledger
<1>3. IsFiniteSet(udp.heard) /\ Cardinality(udp.heard) \in Nat
  <2>1. IsFiniteSet(udp.first .. udp.next - 1)
    BY <1>1, FS_Interval
  <2> QED
    BY <1>2, <2>1, FS_Subset, FS_CardinalityType
<1>4. CASE udp.next \in udp.ring
  <2>1. /\ udp'.receivedAny /\ udp'.heard = udp.heard \cup {udp.next}
        /\ udp'.ring = udp.ring \ {udp.next} /\ udp'.lost = udp.lost
        /\ udp'.first = udp.first /\ udp'.next = udp.next + 1 /\ udp'.highest = udp.highest
    BY <1>1, <1>4 DEF PlayFrame, Sessions
  <2>2. Cardinality(udp'.heard) = Cardinality(udp.heard) + 1
    <3>1. udp.next \notin udp.heard
      BY <1>1, <1>2
    <3>2. Cardinality(udp.heard \cup {udp.next})
             = IF udp.next \in udp.heard THEN Cardinality(udp.heard) ELSE Cardinality(udp.heard) + 1
      BY <1>3, FS_AddElement
    <3> QED
      BY <2>1, <3>1, <3>2
  <2>3. udp.first <= udp.next
    BY <1>1, <1>2, <1>3 DEF DataTypes, Sessions
  <2>4. udp'.heard \subseteq udp'.first .. udp'.next - 1
    BY <1>1, <1>2, <2>1, <2>3
  <2>5. udp'.ring \subseteq udp'.next .. udp'.highest
    BY <1>1, <1>2, <2>1
  <2>6. Cardinality(udp'.heard) + udp'.lost = udp'.next - udp'.first
    BY <1>1, <1>2, <1>3, <2>1, <2>2
  <2> QED
    BY <1>2, <2>1, <2>4, <2>5, <2>6 DEF Ledger
<1>5. CASE udp.next \notin udp.ring
  <2>1. /\ udp'.receivedAny /\ udp'.heard = udp.heard
        /\ udp'.ring = udp.ring /\ udp'.lost = udp.lost + 1
        /\ udp'.first = udp.first /\ udp'.next = udp.next + 1 /\ udp'.highest = udp.highest
    BY <1>1, <1>5 DEF PlayFrame, Sessions
  <2>2. udp'.heard \subseteq udp'.first .. udp'.next - 1
    BY <1>1, <1>2, <2>1
  <2>3. udp'.ring \subseteq udp'.next .. udp'.highest
    BY <1>1, <1>2, <1>5, <2>1
  <2>4. Cardinality(udp'.heard) + udp'.lost = udp'.next - udp'.first
    BY <1>1, <1>2, <1>3, <2>1
  <2> QED
    BY <1>2, <2>1, <2>2, <2>3, <2>4 DEF Ledger
<1> QED
  BY <1>4, <1>5

\* A session that ended has nothing in its ledger, whoever ended it.
LEMMA ClosedLedger ==
  ASSUME udp' = NoSession, loop' # "fade" \/ loop' = loop,
         pc' \in {pc, "idle"}, PumpGuard
  PROVE  Ledger(udp') /\ PumpGuard'
<1>1. NoSession.quiet = "timeout" /\ ~NoSession.ending /\ ~NoSession.active
  BY DEF NoSession
<1> QED
  BY <1>1, NoSessionLedger DEF PumpGuard

LEMMA PcmFinishesLedger ==
  ASSUME DataTypes, Ledger(udp), PumpGuard, NEW r, PcmFinishes(r)
  PROVE  Ledger(udp') /\ PumpGuard'
<1>1. CASE pc' = "fade" /\ UNCHANGED <<udp, last, i2s, gate, micResume>>
  BY <1>1 DEF PcmFinishes, PumpGuard
<1>2. CASE EndSession("pcm", r) /\ pc' = "idle"
  BY <1>2, ClosedLedger DEF PcmFinishes, EndSession, CloseSession
<1> QED
  BY <1>1, <1>2 DEF PcmFinishes

LEMMA LedgerStep ==
  DataTypes /\ SpeakerInv /\ LedgerInv /\ [Next]_vars => LedgerInv'
<1> USE DEF LedgerInv
<1> SUFFICES ASSUME DataTypes, SpeakerInv, Ledger(udp), PumpGuard, [Next]_vars
             PROVE  Ledger(udp') /\ PumpGuard'
  OBVIOUS
<1>0. udp \in Sessions
  BY DEF DataTypes
<1>1. ASSUME NEW p \in Packets, HandlePacket(p) PROVE Ledger(udp') /\ PumpGuard'
  <2>1. Ledger(udp')
    BY <1>0, <1>1, ReceivedLedger DEF HandlePacket
  <2>2. udp'.playing = udp.playing /\ udp'.active = udp.active
    BY <1>0, <1>1, ReceivedKeeps DEF HandlePacket
  <2>3. pc \notin {"gate", "settle", "play"}
    BY <1>1 DEF HandlePacket, DrainsSocket, PumpGuard
  <2> QED
    BY <1>1, <2>1, <2>2, <2>3 DEF HandlePacket, PumpGuard
<1>2. CASE PrerollTimesOut \/ GateBusy \/ EndReached \/ StreamTimesOut \/ IdleEnds \/ WriteFails
  BY <1>2, PcmFinishesLedger DEF PrerollTimesOut, GateBusy, EndReached, StreamTimesOut,
     IdleEnds, WriteFails
<1>3. CASE PcmFadeDone \/ I2sFails
  BY <1>3, ClosedLedger DEF PcmFadeDone, I2sFails, CloseSession
<1>4. CASE PrepareSpeaker
  BY <1>4 DEF PrepareSpeaker, PumpGuard
<1>5. CASE GateEntered \/ WriteDone
  BY <1>5 DEF GateEntered, WriteDone, PumpGuard
<1>6. CASE I2sStarts
  <2>1. /\ udp'.receivedAny = udp.receivedAny /\ udp'.quiet = udp.quiet
        /\ udp'.ending = udp.ending /\ udp'.heard = udp.heard /\ udp'.ring = udp.ring
        /\ udp'.lost = udp.lost /\ udp'.first = udp.first /\ udp'.next = udp.next
        /\ udp'.highest = udp.highest
    BY <1>0, <1>6 DEF I2sStarts, Sessions
  <2>2. Ledger(udp')
    BY <2>1, SameLedger
  <2> QED
    BY <1>6, <2>1, <2>2 DEF I2sStarts, PumpGuard
<1>7. CASE IdleDrains
  <2>1. /\ udp'.receivedAny = udp.receivedAny /\ udp'.heard = udp.heard
        /\ udp'.ring = udp.ring /\ udp'.lost = udp.lost /\ udp'.first = udp.first
        /\ udp'.next = udp.next /\ udp'.highest = udp.highest
        /\ udp'.playing = udp.playing /\ udp'.active = udp.active
    BY <1>0, <1>7 DEF IdleDrains, Sessions
  <2>2. Ledger(udp')
    BY <2>1, SameLedger
  <2> QED
    BY <1>7, <2>1, <2>2 DEF IdleDrains, PumpGuard
<1>8. CASE PlayFrame
  <2>1. udp.receivedAny
    BY <1>8 DEF PlayFrame, Pumping, Flowing, PumpGuard
  <2>2. udp'.playing = udp.playing /\ udp'.active = udp.active
    BY <1>0, <1>8 DEF PlayFrame, Sessions
  <2>3. Ledger(udp')
    BY <1>8, <2>1, PlayFrameLedger
  <2> QED
    BY <1>8, <2>2, <2>3 DEF PlayFrame, PumpGuard
<1>9. CASE BeginUdpPcmSession
  <2>1. /\ udp'.quiet = "timeout" /\ ~udp'.ending
        /\ udp'.receivedAny = NoSession.receivedAny /\ udp'.heard = NoSession.heard
        /\ udp'.ring = NoSession.ring /\ udp'.lost = NoSession.lost
        /\ udp'.first = NoSession.first /\ udp'.next = NoSession.next
        /\ udp'.highest = NoSession.highest
    BY <1>9 DEF BeginUdpPcmSession, NoSession
  <2>2. Ledger(udp')
    BY <2>1, NoSessionLedger, SameLedger
  <2> QED
    BY <1>9, <2>1, <2>2 DEF BeginUdpPcmSession, PumpGuard
<1>10. CASE StopUdpPcmSession /\ pc # "play"
  <2>1. CASE MayFade /\ loop' = "fade" /\ UNCHANGED udp
    <3>1. pc \notin {"gate", "settle"} /\ udp.playing
      BY <2>1 DEF MayFade, SpeakerInv
    <3> QED
      BY <1>10, <2>1, <3>1 DEF StopUdpPcmSession, PumpGuard
  <2>2. CASE EndSession("loop", "stopped") /\ UNCHANGED loop
    BY <1>10, <2>2, ClosedLedger DEF StopUdpPcmSession, EndSession, CloseSession
  <2> QED
    BY <1>10, <2>1, <2>2 DEF StopUdpPcmSession
<1>11. CASE StopFadeDone
  BY <1>11, ClosedLedger DEF StopFadeDone, CloseSession
<1>12. CASE MicSteps \/ MicRecords
  BY <1>12 DEF MicSteps, ResumeMic, MicRecords, InitMicrophone, InitMicrophoneSkipped,
     MicrophoneBegins, PumpGuard
<1>13. CASE PrerollElapses
  <2>1. /\ udp'.receivedAny = udp.receivedAny /\ udp'.quiet = udp.quiet
        /\ udp'.ending = udp.ending /\ udp'.heard = udp.heard /\ udp'.ring = udp.ring
        /\ udp'.lost = udp.lost /\ udp'.first = udp.first /\ udp'.next = udp.next
        /\ udp'.highest = udp.highest
        /\ udp'.playing = udp.playing /\ udp'.active = udp.active
    BY <1>0, <1>13 DEF PrerollElapses, Sessions
  <2>2. Ledger(udp')
    BY <2>1, SameLedger
  <2> QED
    BY <1>13, <2>1, <2>2 DEF PrerollElapses, PumpGuard
<1>14. CASE SilenceGrows
  <2>1. /\ udp'.receivedAny = udp.receivedAny /\ udp'.heard = udp.heard
        /\ udp'.ring = udp.ring /\ udp'.lost = udp.lost /\ udp'.first = udp.first
        /\ udp'.next = udp.next /\ udp'.highest = udp.highest
        /\ udp'.playing = udp.playing /\ udp'.active = udp.active
    BY <1>0, <1>14 DEF SilenceGrows, Sessions
  <2>2. Ledger(udp')
    BY <2>1, SameLedger
  <2> QED
    BY <1>14, <2>1, <2>2 DEF SilenceGrows, PumpGuard
<1>15. CASE UNCHANGED vars
  BY <1>15 DEF vars, PumpGuard
<1> QED
  BY <1>1, <1>2, <1>3, <1>4, <1>5, <1>6, <1>7, <1>8, <1>9, <1>10, <1>11, <1>12, <1>13,
     <1>14, <1>15
  DEF Next, PcmTask, LoopTask, Time

LEMMA LedgerInit == Init => LedgerInv
BY NoSessionLedger DEF Init, LedgerInv, PumpGuard

LEMMA LedgerInvariant == Spec => []LedgerInv
BY LedgerInit, LedgerStep, SpeakerInvariant, TypesCorrect, PTL DEF Spec

\* Every position that the play cursor passed was heard once or counted lost, and
\* what is buffered lies ahead of it, each frame in its own slot: for datagrams in
\* any order and number, and whenever the loop task stops or replaces a session
\* (handleUdpPackets, pumpUdpPlayback).
THEOREM LedgerBalances == Spec => []PlaybackLedger
<1>1. LedgerInv => PlaybackLedger
  BY DEF LedgerInv, Ledger, PlaybackLedger, HeardOrLost, BufferAhead
<1> QED
  BY <1>1, LedgerInvariant, PTL

-----------------------------------------------------------------------------
(* The engine implements the abstract session *)

\* A step closes the session, plays a frame, opens a session, or leaves it open or
\* closed with what was heard of it; then it may begin to play, but does not cease.
LEMMA SessionMoves ==
  ASSUME DataTypes, [Next]_vars
  PROVE  \/ udp' = NoSession /\ pc' # "play" /\ UNCHANGED issued
         \/ /\ udp'.active = udp.active /\ udp'.heard = udp.heard /\ UNCHANGED issued
            /\ udp.playing => udp'.playing
            /\ udp'.receivedAny => udp.receivedAny \/ udp.active
            /\ pc' = "play" => pc = "play" \/ udp'.playing
         \/ PlayFrame
         \/ BeginUdpPcmSession /\ pc # "play"
<1> DEFINE Closes == udp' = NoSession /\ pc' # "play" /\ UNCHANGED issued
           GoesOn == /\ udp'.active = udp.active /\ udp'.heard = udp.heard /\ UNCHANGED issued
                     /\ udp.playing => udp'.playing
                     /\ udp'.receivedAny => udp.receivedAny \/ udp.active
                     /\ pc' = "play" => pc = "play" \/ udp'.playing
<1> SUFFICES Closes \/ GoesOn \/ PlayFrame \/ (BeginUdpPcmSession /\ pc # "play")
  OBVIOUS
<1>0. udp \in Sessions
  BY DEF DataTypes
<1>1. ASSUME NEW p \in Packets, HandlePacket(p) PROVE GoesOn
  <2>1. Received(udp, p).receivedAny => udp.receivedAny \/ udp.active
    BY DEF Received
  <2> QED
    BY <1>0, <1>1, <2>1, ReceivedKeeps DEF HandlePacket
<1>f. ASSUME NEW r, PcmFinishes(r) PROVE Closes \/ GoesOn
  BY <1>f DEF PcmFinishes, EndSession, CloseSession
<1>2. CASE PrerollTimesOut \/ GateBusy \/ EndReached \/ StreamTimesOut \/ IdleEnds \/ WriteFails
  BY <1>2, <1>f DEF PrerollTimesOut, GateBusy, EndReached, StreamTimesOut, IdleEnds, WriteFails
<1>3. CASE PcmFadeDone \/ I2sFails
  BY <1>3 DEF PcmFadeDone, I2sFails, CloseSession
<1>4. CASE (StopUdpPcmSession \/ StopFadeDone) /\ pc # "play"
  BY <1>4 DEF StopUdpPcmSession, StopFadeDone, EndSession, CloseSession
<1>5. CASE PrepareSpeaker \/ GateEntered \/ WriteDone \/ MicSteps \/ MicRecords \/ UNCHANGED vars
  BY <1>5 DEF PrepareSpeaker, GateEntered, WriteDone, MicSteps, ResumeMic, MicRecords, InitMicrophone,
     InitMicrophoneSkipped, MicrophoneBegins, vars
<1>6. CASE I2sStarts \/ IdleDrains \/ PrerollElapses \/ SilenceGrows
  BY <1>0, <1>6 DEF I2sStarts, IdleDrains, PrerollElapses, SilenceGrows, Sessions
<1> QED
  BY <1>1, <1>2, <1>3, <1>4, <1>5, <1>6 DEF Next, PcmTask, LoopTask, Time

\* Nothing was received in a session that is closed; a pump that goes on at once
\* has started to play.
ClosedInv ==
    /\ ~udp.active => ~udp.receivedAny
    /\ pc = "play" => udp.playing

\* A frame is played only in a session that is open and plays, and it is the next.
LEMMA PlayFrameSession ==
  ASSUME DataTypes, LedgerInv, ClosedInv, PlayFrame
  PROVE  /\ udp.active /\ udp.playing /\ udp.receivedAny
         /\ udp'.active /\ udp'.playing /\ udp'.receivedAny /\ pc' # "play" /\ UNCHANGED issued
         /\ \/ udp'.heard = udp.heard
            \/ udp.next \in udp.ring /\ udp'.heard = udp.heard \cup {udp.next}
<1>1. udp.receivedAny /\ udp.playing
  BY DEF PlayFrame, Pumping, Flowing, LedgerInv, PumpGuard, ClosedInv
<1> QED
  BY <1>1 DEF PlayFrame, DataTypes, Sessions, ClosedInv

LEMMA ClosedStep == DataTypes /\ LedgerInv /\ ClosedInv /\ [Next]_vars => ClosedInv'
<1> SUFFICES ASSUME DataTypes, LedgerInv, ClosedInv, [Next]_vars PROVE ClosedInv'
  OBVIOUS
<1>1. CASE udp' = NoSession /\ pc' # "play"
  BY <1>1 DEF ClosedInv, NoSession
<1>2. CASE PlayFrame
  BY <1>2, PlayFrameSession DEF ClosedInv
<1>3. CASE BeginUdpPcmSession /\ pc # "play"
  BY <1>3 DEF ClosedInv, BeginUdpPcmSession, NoSession
<1> QED
  BY <1>1, <1>2, <1>3, SessionMoves DEF ClosedInv

\* Every frame that was written to the speaker is another one.
EachOnce == Written = Cardinality(udp.heard)

LEMMA WrittenOnce == DataTypes /\ LedgerInv => EachOnce
<1> SUFFICES ASSUME DataTypes, LedgerInv PROVE Written = Cardinality(udp.heard)
  BY DEF EachOnce
<1>1. CASE udp.receivedAny
  <2>1. udp.heard \subseteq udp.first .. udp.next - 1 /\ udp.first \in Int /\ udp.next \in Int
    BY <1>1 DEF LedgerInv, Ledger, DataTypes, Sessions, FrameSeqs
  <2>2. Cardinality(udp.heard) \in Nat
    <3>1. IsFiniteSet(udp.first .. udp.next - 1)
      BY <2>1, FS_Interval
    <3>2. IsFiniteSet(udp.heard)
      BY <2>1, <3>1, FS_Subset
    <3> QED
      BY <3>2, FS_CardinalityType
  <2> QED
    BY <1>1, <2>1, <2>2 DEF Written, LedgerInv, Ledger, DataTypes, Sessions
<1>2. CASE ~udp.receivedAny
  BY <1>2, FS_EmptySet DEF Written, LedgerInv, Ledger
<1> QED
  BY <1>1, <1>2

LEMMA StepSimulates ==
  /\ DataTypes /\ LedgerInv /\ ClosedInv /\ [Next]_vars
  /\ DataTypes' /\ LedgerInv'
  => [Session!Next]_(Session!vars)
<1> SUFFICES ASSUME DataTypes, LedgerInv, ClosedInv, [Next]_vars, DataTypes', LedgerInv'
             PROVE  Session!Next \/ UNCHANGED Session!vars
  OBVIOUS
<1>w. Written = Cardinality(udp.heard) /\ Written' = Cardinality(udp'.heard)
  <2>1. EachOnce /\ EachOnce'
    BY WrittenOnce, PTL
  <2> QED
    BY <2>1 DEF EachOnce
<1>1. CASE udp' = NoSession /\ UNCHANGED issued
  <2>1. Stage' = "closed" /\ udp'.heard = {}
    BY <1>1 DEF Stage, NoSession
  <2>2. CASE udp.active
    <3>1. Stage # "closed"
      BY <2>2 DEF Stage
    <3> QED
      BY <1>1, <1>w, <2>1, <3>1, FS_EmptySet DEF Session!Close, Session!Next
  <2>3. CASE ~udp.active
    <3>1. Stage = "closed" /\ udp.heard = {}
      BY <2>3 DEF Stage, ClosedInv, LedgerInv, Ledger
    <3> QED
      BY <1>1, <1>w, <2>1, <3>1 DEF Session!vars
  <2> QED
    BY <2>2, <2>3
<1>2. CASE /\ udp'.active = udp.active /\ udp'.heard = udp.heard /\ UNCHANGED issued
           /\ udp.playing => udp'.playing
  <2>1. CASE udp.active /\ ~udp.playing /\ udp'.playing
    BY <1>2, <1>w, <2>1 DEF Session!Start, Session!Next, Stage
  <2>2. CASE ~(udp.active /\ ~udp.playing /\ udp'.playing)
    BY <1>2, <1>w, <2>2 DEF Session!vars, Stage
  <2> QED
    BY <2>1, <2>2
<1>3. CASE PlayFrame
  <2>1. Stage = "playing" /\ Stage' = "playing" /\ UNCHANGED issued /\ udp.receivedAny
    BY <1>3, PlayFrameSession DEF Stage
  <2>2. CASE udp'.heard = udp.heard
    BY <1>w, <2>1, <2>2 DEF Session!vars
  <2>3. CASE udp.next \in udp.ring /\ udp'.heard = udp.heard \cup {udp.next}
    <3>1. udp.next \in FrameSeqs /\ udp.heard \subseteq FrameSeqs /\ udp.first \in FrameSeqs
      BY <2>3 DEF DataTypes, Sessions
    <3>2. \A g \in udp.heard : g < udp.next
      BY <2>1, <3>1 DEF LedgerInv, Ledger, FrameSeqs
    <3>3. Cardinality(udp'.heard) = Cardinality(udp.heard) + 1
      <4>1. udp.next \notin udp.heard
        BY <3>1, <3>2 DEF FrameSeqs
      <4>2. IsFiniteSet(udp.heard)
        <5>1. IsFiniteSet(FrameSeqs)
          BY FS_Interval, UdpAssumption DEF UdpAssumption, FrameSeqs
        <5> QED
          BY <3>1, <5>1, FS_Subset
      <4> QED
        BY <2>3, <4>1, <4>2, FS_AddElement
    <3>4. Session!Hear(udp.next)
      BY <1>w, <2>1, <2>3, <3>2, <3>3 DEF Session!Hear
    <3> QED
      BY <3>1, <3>4 DEF Session!Next
  <2> QED
    BY <1>3, <2>2, <2>3, PlayFrameSession
<1>4. CASE BeginUdpPcmSession
  <2>1. ~udp.active /\ issued' = issued + 1 /\ udp'.active /\ ~udp'.playing /\ udp'.heard = {}
    BY <1>4 DEF BeginUdpPcmSession, NoSession
  <2> QED
    BY <1>w, <2>1, FS_EmptySet DEF Session!Open, Session!Next, Stage
<1> QED
  BY <1>1, <1>2, <1>3, <1>4, SessionMoves

\* Every run of the engine is a run of AudioSession, whoever stops its sessions: a
\* session plays at most once, its frames are heard in order and once each, and none
\* of a session is heard in another, though pcmStreamTask may end a pump in a session
\* that the loop task has opened meanwhile (UdpAudio!ImplementsSession).
THEOREM EngineImplementsSession == Spec => ImplementsSession
<1>1. Init => Session!Init /\ ClosedInv
  <2> SUFFICES ASSUME Init PROVE Session!Init /\ ClosedInv
    OBVIOUS
  <2>1. /\ ~udp.playing /\ ~udp.active /\ udp.heard = {} /\ issued = 0 /\ ~udp.receivedAny
        /\ pc = "idle"
    BY DEF Init, NoSession
  <2> QED
    BY <2>1 DEF Session!Init, Stage, Written, ClosedInv
<1> QED
  BY <1>1, StepSimulates, ClosedStep, LedgerInvariant, TypesCorrect, PTL
  DEF Spec, Session!Spec, ImplementsSession

-----------------------------------------------------------------------------
(* The engine shares the peripheral *)

\* A step that leaves the microphone alone, and makes pcmStreamTask no holder of the
\* gate, ends the use of the peripheral or does not change it.
LEMMA GateLeft ==
  ASSUME UNCHANGED mic, gate'.holder = "pcm" => gate.holder = "pcm"
  PROVE  Use!UseNext \/ UNCHANGED Use!useVars
<1>1. CASE gate.holder = "pcm" /\ gate'.holder # "pcm"
  BY <1>1 DEF Use!UseNext, Use!StreamEnds
<1>2. CASE (gate.holder = "pcm") = (gate'.holder = "pcm")
  BY <1>2 DEF Use!useVars
<1> QED
  BY <1>1, <1>2

LEMMA StepShares == DataTypes /\ SpeakerInv /\ [Next]_vars => [Use!UseNext]_(Use!useVars)
<1> SUFFICES ASSUME DataTypes, SpeakerInv, [Next]_vars
             PROVE  Use!UseNext \/ UNCHANGED Use!useVars
  OBVIOUS
<1>0. gate \in Gates
  BY DEF DataTypes, GoodGate
\* The gate is taken for a session.
<1>1. CASE GateEntered
  BY <1>1 DEF GateEntered, Take, Use!UseNext, Use!StreamStarts
\* The microphone starts, while the loop task holds the gate; if it fails to, that is to
\* the others what a playback that fails to start is.
<1>2. CASE MicrophoneBegins
  <2>1. gate.holder = "loop" /\ gate'.holder # "pcm"
    BY <1>0, <1>2, GiveMakesNoHolder DEF MicrophoneBegins, SpeakerInv
  <2>2. CASE mic' = TRUE
    BY <2>1, <2>2 DEF Use!UseNext, Use!MicStarts
  <2>3. CASE mic' = FALSE
    BY <2>1, <2>3 DEF Use!UseNext, Use!PlaybackStarts
  <2> QED
    BY <1>2, <2>2, <2>3 DEF MicrophoneBegins
\* The gate is given back, or the loop task takes it.
<1>f. ASSUME NEW r, PcmFinishes(r) PROVE UNCHANGED mic /\ (gate'.holder = "pcm" => gate.holder = "pcm")
  <2>1. gate' = gate \/ gate' = Give(gate, "pcm")
    BY <1>f DEF PcmFinishes, EndSession, ReleaseSpeaker
  <2> QED
    BY <1>0, <1>f, <2>1, GiveMakesNoHolder DEF PcmFinishes
<1>3. CASE PrerollTimesOut \/ GateBusy \/ EndReached \/ StreamTimesOut \/ IdleEnds \/ WriteFails
  BY <1>3, <1>f, GateLeft DEF PrerollTimesOut, GateBusy, EndReached, StreamTimesOut, IdleEnds, WriteFails
<1>4. CASE PcmFadeDone \/ I2sFails
  <2>1. UNCHANGED mic /\ gate' = Give(gate, "pcm")
    BY <1>4 DEF PcmFadeDone, I2sFails, ReleaseSpeaker
  <2> QED
    BY <1>0, <2>1, GiveMakesNoHolder, GateLeft
<1>5. CASE StopUdpPcmSession \/ StopFadeDone
  <2>1. UNCHANGED mic /\ (gate' = gate \/ gate' = Give(gate, "loop"))
    BY <1>5 DEF StopUdpPcmSession, StopFadeDone, EndSession, ReleaseSpeaker
  <2> QED
    BY <1>0, <2>1, GiveMakesNoHolder, GateLeft
<1>6. CASE InitMicrophone
  BY <1>6, GateLeft DEF InitMicrophone, Take
<1>7. CASE \/ PrepareSpeaker \/ I2sStarts \/ IdleDrains \/ PlayFrame \/ WriteDone
           \/ ResumeMic \/ InitMicrophoneSkipped \/ BeginUdpPcmSession
           \/ Time \/ (\E p \in Packets : HandlePacket(p)) \/ UNCHANGED vars
  <2>1. UNCHANGED <<gate, mic>>
    BY <1>7 DEF PrepareSpeaker, I2sStarts, IdleDrains, PlayFrame, WriteDone, ResumeMic,
       InitMicrophoneSkipped, BeginUdpPcmSession, Time, PrerollElapses, SilenceGrows,
       HandlePacket, vars
  <2> QED
    BY <2>1, GateLeft
<1>8. CASE MicRecords
  <2>1. gate.holder # "pcm" /\ mic' = TRUE /\ UNCHANGED gate
    BY <1>8 DEF MicRecords, CanTake
  <2> QED
    BY <2>1 DEF Use!UseNext, Use!MicStarts
<1> QED
  BY <1>1, <1>2, <1>3, <1>4, <1>5, <1>6, <1>7, <1>8 DEF Next, PcmTask, LoopTask, MicSteps

\* The engine shares the peripheral as SpeakerUse says: whoever ends a session, the gate
\* is not taken for one with the microphone on, and the microphone does not start while
\* pcmStreamTask holds the gate (UdpAudio!SharesSpeaker).
THEOREM EngineSharesSpeaker == Spec => SharesSpeaker
<1>1. Init => Use!UseInit
  <2> SUFFICES ASSUME Init PROVE Use!UseInit
    OBVIOUS
  <2>1. mic = TRUE /\ gate = FreeGate
    BY Zenon DEF Init
  <2>2. gate.holder # "pcm"
    BY <2>1 DEF FreeGate
  <2> QED
    BY <2>1, <2>2 DEF Use!UseInit
<1> QED
  BY <1>1, StepShares, SpeakerInvariant, TypesCorrect, PTL DEF Spec, Use!UseSpec, SharesSpeaker

=============================================================================
