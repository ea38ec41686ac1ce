--------------------------- MODULE Playback_proofs ---------------------------
(***************************************************************************)
(* Theorems about the playback service, for any number of plays, segments, *)
(* sessions and streams, any capacity of the queues and any faults.        *)
(***************************************************************************)
EXTENDS Playback, TLAPS

-----------------------------------------------------------------------------
(* Types *)

\* The flags stay flags.
LEMMA FlagTypesCorrect == Spec => []FlagTypes
<1>1. Init => FlagTypes
  BY Zenon DEF Init, FlagTypes
<1>2. FlagTypes /\ [Next]_vars => FlagTypes'
  <2> SUFFICES ASSUME FlagTypes, [Next]_vars PROVE FlagTypes'
    OBVIOUS
  <2> USE DEF FlagTypes, vars, queueVars, downloadVars, speakerVars, pcmVars, micVars,
              streamVars, control
  <2>1. CASE PlayQueued \/ PlayRefused \/ PlayDownloads
    BY <2>1, Zenon DEF PlayQueued, PlayRefused, PlayDownloads, RequestDownload
  <2>s. ASSUME NEW s, StartPcm(s) \/ StartPcmFails
        PROVE  /\ playing' \in BOOLEAN /\ buffer' \in {"none", "owned", "freed"}
               /\ sounding' \in BOOLEAN /\ overdue' \in BOOLEAN
               /\ mic' \in BOOLEAN /\ micResume' \in BOOLEAN
    <3>1. (IF s.freed THEN "freed" ELSE "owned") \in {"none", "owned", "freed"}
      OBVIOUS
    <3> QED
      BY <2>s, <3>1, Zenon DEF StartPcm, StartPcmFails, SpeakerStarts
  <2>5. ASSUME NEW s \in Segments, PcmPlays(s) \/ PcmQueued(s) \/ PcmOutOfSequence(s)
        PROVE  FlagTypes'
    <3>1. UNCHANGED inFlight /\ pcmUsed' \in BOOLEAN /\ requeued' \in BOOLEAN
      BY <2>5, Zenon DEF PcmPlays, PcmQueued, PcmOutOfSequence, UsesPcm
    <3>2. CASE PcmPlays(s)
      BY <2>s, <3>1, <3>2, Zenon DEF PcmPlays
    <3>3. CASE PcmQueued(s) \/ PcmOutOfSequence(s)
      BY <3>1, <3>3, Zenon DEF PcmQueued, PcmOutOfSequence
    <3> QED
      BY <2>5, <3>2, <3>3
  <2>6. CASE ProcessPcm
    BY <2>6, <2>s, Zenon DEF ProcessPcm
  <2>7. CASE WavStarts
    <3>1. inFlight' = FALSE /\ UNCHANGED <<micResume, pcmUsed, requeued>>
      BY <2>7, Zenon DEF WavStarts, Resolve
    <3>2. /\ playing' = TRUE /\ buffer' = "owned" /\ sounding' = TRUE /\ overdue' = FALSE
          /\ mic' = FALSE
      BY <2>7, Zenon DEF WavStarts, SpeakerStarts
    <3> QED
      BY <3>1, <3>2
  <2>11. CASE WavFails
    <3>1. /\ inFlight' = FALSE
          /\ UNCHANGED <<playing, sounding, overdue, micResume, pcmUsed, requeued>>
      BY <2>11, Zenon DEF WavFails, Resolve
    <3>2. buffer' \in {buffer, "none"} /\ mic' \in {mic, FALSE}
      BY <2>11 DEF WavFails
    <3> QED
      BY <3>1, <3>2
  <2>12. CASE PlaybackFinishes
    BY <2>12 DEF PlaybackFinishes, EndPlayback
  <2>8. CASE ProcessPcmBusy
    <3>1. requeued' \in BOOLEAN
      BY <2>8 DEF ProcessPcmBusy
    <3>2. UNCHANGED <<inFlight, playing, buffer, sounding, overdue, mic, micResume, pcmUsed>>
      BY <2>8, Zenon DEF ProcessPcmBusy
    <3> QED
      BY <3>1, <3>2
  <2>9. CASE NothingDownloaded \/ FinishSkipped \/ ProcessNoPcm \/ NothingWaits \/ Return
    <3>1. /\ UNCHANGED <<inFlight, playing, buffer, sounding, overdue, mic, pcmUsed, requeued>>
          /\ micResume' \in {micResume, TRUE}
      BY <2>9 DEF NothingDownloaded, FinishSkipped, ProcessNoPcm, NothingWaits, Return, AskForMic
    <3> QED
      BY <3>1
  <2>10. ASSUME NEW p \in Plays, NextDownloads(p) \/ NextDropped(p) PROVE FlagTypes'
    BY <2>10, Zenon DEF NextDownloads, RequestDownload, NextDropped
  <2>3. ASSUME ResumeMic \/ MicRecords \/ DownloadTask \/ SpeakerFinishes \/ DeadlinePasses \/ Stream
        PROVE  FlagTypes'
    <3>1. /\ UNCHANGED <<inFlight, playing, buffer, pcmUsed, requeued>>
          /\ sounding' \in {sounding, FALSE} /\ overdue' \in {overdue, TRUE}
          /\ mic' \in {mic, TRUE, FALSE} /\ micResume' \in {micResume, TRUE, FALSE}
      BY <2>3 DEF ResumeMic, MicRecords, DownloadTask, TakeUrl, Downloaded, SpeakerFinishes,
         DeadlinePasses, Stream, StreamOpens, StreamPlays, StreamCloses
    <3> QED
      BY <3>1
  <2>4. CASE UNCHANGED vars
    BY <2>4, Zenon
  <2> QED
    BY <2>1, <2>3, <2>4, <2>5, <2>6, <2>7, <2>8, <2>9, <2>10, <2>11, <2>12
    DEF Next, Requests, UpdatePlayback
<1> QED
  BY <1>1, <1>2, PTL DEF Spec

\* A segment that starts is of a session, and the PCM queue is emptied.
LEMMA PcmStartTypes ==
  ASSUME DataTypes, NEW s \in QueuedSegments, StartPcm(s) \/ StartPcmFails
  PROVE  session' \in 0 .. MaxPcmSessions /\ pcmQueue' \in Seq(QueuedSegments)
<1> USE PlaybackAssumption DEF PlaybackAssumption, DataTypes
<1>1. CASE StartPcm(s)
  BY <1>1 DEF StartPcm, QueuedSegments, PcmSessions
<1>2. CASE StartPcmFails
  BY <1>2 DEF StartPcmFails
<1> QED
  BY <1>1, <1>2

\* A segment of a request, or of the queue, is one that can be queued.
LEMMA QueuedTypes ==
  ASSUME NEW s \in Segments \cup QueuedSegments, NEW freed \in BOOLEAN
  PROVE  /\ Queued(s, freed) \in QueuedSegments
         /\ Queued(s, freed).freed = freed /\ Queued(s, freed).session = s.session
         /\ Queued(s, freed).seq = s.seq
BY DEF Queued, Segments, QueuedSegments

\* The sequence number expected next stays within the session.
LEMMA AdvanceTypes ==
  ASSUME DataTypes, NEW s \in Segments, Advance(s) \/ UNCHANGED expected
  PROVE  expected' \in [session : 0 .. MaxPcmSessions, next : 0 .. MaxSegments]
BY PlaybackAssumption DEF PlaybackAssumption, DataTypes, Advance, Segments, PcmSessions

\* Resolving a download keeps the queues and the history typed.
LEMMA ResolveTypes ==
  ASSUME DataTypes, completeQueue # <<>>, NEW f \in Fates, Resolve(f)
  PROVE  /\ completeQueue' \in Seq(Downloads)
         /\ fate' \in [Plays -> Fates]
<1>1. NextDownload \in Downloads /\ Tail(completeQueue) \in Seq(Downloads)
  BY DEF NextDownload, DataTypes
<1>2. NextDownload.play \in Plays
  BY <1>1 DEF Downloads
<1> QED
  BY <1>1, <1>2 DEF Resolve, DataTypes

\* So do the queues, the history and the control points.
LEMMA DataTypesCorrect == Spec => []DataTypes
<1> USE PlaybackAssumption DEF PlaybackAssumption
<1>1. Init => DataTypes
  BY DEF Init, DataTypes, Fates
<1>2. DataTypes /\ [Next]_vars => DataTypes'
  <2> SUFFICES ASSUME DataTypes, [Next]_vars PROVE DataTypes'
    OBVIOUS
  <2> USE DEF queueVars, downloadVars, speakerVars, pcmVars, micVars, streamVars, control
  <2>1. CASE PlayQueued
    BY <2>1 DEF PlayQueued, MayAsk, Accept, Plays, Fates, DataTypes
  <2>2. CASE PlayRefused
    BY <2>2 DEF PlayRefused, MayAsk, Accept, Plays, Fates, DataTypes
  <2>3. CASE PlayDownloads
    BY <2>3 DEF PlayDownloads, MayAsk, Accept, RequestDownload, Plays, Fates, DataTypes
  <2>4. ASSUME NEW s \in Segments, PcmPlays(s) PROVE DataTypes'
    <3>1. StartPcm(Queued(s, FALSE)) \/ StartPcmFails
      BY <2>4 DEF PcmPlays
    <3>2. session' \in 0 .. MaxPcmSessions /\ pcmQueue' \in Seq(QueuedSegments)
      BY <3>1, QueuedTypes, PcmStartTypes
    <3>3. Advance(s) \/ UNCHANGED expected
      BY <2>4 DEF PcmPlays
    <3>4. expected' \in [session : 0 .. MaxPcmSessions, next : 0 .. MaxSegments]
      BY <3>3, AdvanceTypes
    <3> QED
      BY <2>4, <3>2, <3>4 DEF PcmPlays, UsesPcm, DataTypes
  <2>5. ASSUME NEW s \in Segments, PcmQueued(s) PROVE DataTypes'
    <3>1. expected' \in [session : 0 .. MaxPcmSessions, next : 0 .. MaxSegments]
      BY <2>5, AdvanceTypes DEF PcmQueued
    <3>2. pcmQueue' \in Seq(QueuedSegments)
      <4> DEFINE q == Queued(s, FALSE)
      <4>1. q \in QueuedSegments
        BY QueuedTypes
      <4>2. pcmQueue' = Append(pcmQueue, q)
        BY <2>5 DEF PcmQueued
      <4> HIDE DEF q
      <4> QED
        BY <4>1, <4>2 DEF DataTypes
    <3> QED
      BY <2>5, <3>1, <3>2 DEF PcmQueued, UsesPcm, DataTypes
  <2>6. ASSUME NEW s \in Segments, PcmOutOfSequence(s) PROVE DataTypes'
    BY <2>6 DEF PcmOutOfSequence, UsesPcm, DataTypes
  <2>7. CASE WavStarts
    <3>1. completeQueue' \in Seq(Downloads) /\ fate' \in [Plays -> Fates]
      BY <2>7, ResolveTypes DEF WavStarts, Fates
    <3> QED
      BY <2>7, <3>1 DEF WavStarts, Resolve, DataTypes
  <2>8. CASE WavFails
    <3>1. completeQueue' \in Seq(Downloads) /\ fate' \in [Plays -> Fates]
      BY <2>8, ResolveTypes DEF WavFails, Fates
    <3>2. loop' = "process" /\ depth' \in Nat
      BY <2>8 DEF WavFails, DataTypes
    <3> QED
      BY <2>8, <3>1, <3>2 DEF WavFails, Resolve, DataTypes
  <2>9. CASE NothingDownloaded
    BY <2>9 DEF NothingDownloaded, DataTypes
  <2>10. CASE PlaybackFinishes
    BY <2>10 DEF PlaybackFinishes, DataTypes
  <2>11. CASE FinishSkipped
    BY <2>11 DEF FinishSkipped, DataTypes
  <2>12. CASE ProcessPcm
    <3>1. Head(pcmQueue) \in QueuedSegments
      BY <2>12 DEF ProcessPcm, DataTypes
    <3>2. StartPcm(Head(pcmQueue)) \/ StartPcmFails
      BY <2>12 DEF ProcessPcm
    <3>3. session' \in 0 .. MaxPcmSessions /\ pcmQueue' \in Seq(QueuedSegments)
      BY <3>1, <3>2, PcmStartTypes
    <3> QED
      BY <2>12, <3>3 DEF ProcessPcm, DataTypes
  <2>13. CASE ProcessPcmBusy
    <3>1. Head(pcmQueue) \in QueuedSegments /\ Tail(pcmQueue) \in Seq(QueuedSegments)
      BY <2>13 DEF ProcessPcmBusy, DataTypes
    <3>2. Append(Tail(pcmQueue), Queued(Head(pcmQueue), TRUE)) \in Seq(QueuedSegments)
      <4> DEFINE q == Queued(Head(pcmQueue), TRUE)
      <4>1. q \in QueuedSegments
        BY <3>1, QueuedTypes
      <4> HIDE DEF q
      <4>2. Append(Tail(pcmQueue), q) \in Seq(QueuedSegments)
        BY <3>1, <4>1
      <4> QED
        BY <4>2 DEF q
    <3>3. pcmQueue' \in Seq(QueuedSegments)
      BY <2>13, <3>1, <3>2 DEF ProcessPcmBusy, DataTypes
    <3> QED
      BY <2>13, <3>3 DEF ProcessPcmBusy, DataTypes
  <2>14. CASE ProcessNoPcm
    BY <2>14 DEF ProcessNoPcm, DataTypes
  <2>15. CASE NothingWaits
    BY <2>15 DEF NothingWaits, DataTypes
  <2>16. CASE Return
    BY <2>16 DEF Return, DataTypes
  <2>17. ASSUME NEW p \in Plays, NextDownloads(p) PROVE DataTypes'
    BY <2>17 DEF NextDownloads, RequestDownload, DataTypes
  <2>18. ASSUME NEW p \in Plays, NextDropped(p) PROVE DataTypes'
    BY <2>18 DEF NextDropped, Fates, DataTypes
  <2>19. CASE ResumeMic \/ MicRecords
    BY <2>19 DEF ResumeMic, MicRecords, DataTypes
  <2>20. CASE TakeUrl
    BY <2>20 DEF TakeUrl, DataTypes
  <2>21. ASSUME NEW ok \in BOOLEAN, Downloaded(ok) PROVE DataTypes'
    <3>1. [play |-> worker[1], success |-> ok] \in Downloads
      BY <2>21 DEF Downloaded, Downloads, DataTypes
    <3>2. completeQueue' \in Seq(Downloads)
      BY <2>21, <3>1 DEF Downloaded, DataTypes
    <3>3. worker' \in Seq(Plays) /\ Len(worker') <= 1
      BY <2>21 DEF Downloaded
    <3> QED
      BY <2>21, <3>2, <3>3 DEF Downloaded, DataTypes
  <2>22. CASE SpeakerFinishes \/ DeadlinePasses
    BY <2>22 DEF SpeakerFinishes, DeadlinePasses, DataTypes
  <2>23. CASE StreamOpens
    BY <2>23 DEF StreamOpens, DataTypes
  <2>24. CASE StreamPlays
    BY <2>24 DEF StreamPlays, DataTypes
  <2>25. CASE StreamCloses
    BY <2>25 DEF StreamCloses, DataTypes
  <2>26. CASE UNCHANGED vars
    BY <2>26 DEF vars, DataTypes
  <2> QED
    BY <2>1, <2>2, <2>3, <2>4, <2>5, <2>6, <2>7, <2>8, <2>9, <2>10, <2>11, <2>12, <2>13,
       <2>14, <2>15, <2>16, <2>17, <2>18, <2>19, <2>20, <2>21, <2>22, <2>23, <2>24, <2>25, <2>26
    DEF Next, Requests, UpdatePlayback, DownloadTask, Stream
<1> QED
  BY <1>1, <1>2, PTL DEF Spec

\* Every variable keeps its type.
THEOREM TypeCorrect == Spec => []TypeOK
  BY FlagTypesCorrect, DataTypesCorrect, PTL DEF TypeOK

-----------------------------------------------------------------------------
(* The download token *)

\* The flag s_downloadInFlight stands for the one play that is being downloaded:
\* neither FreeRTOS queue can overflow, and no result can be lost.
THEOREM DownloadTokenCorrect == Spec => []DownloadToken
<1>1. Init => DownloadToken
  BY DEF Init, DownloadToken, Downloading
<1>2. TypeOK /\ DownloadToken /\ [Next]_vars => DownloadToken'
  <2> SUFFICES ASSUME DataTypes, DownloadToken, [Next]_vars PROVE DownloadToken'
    BY DEF TypeOK
  <2>0. /\ Len(downloadQueue) \in Nat /\ Len(worker) \in Nat /\ Len(completeQueue) \in Nat
        /\ downloadQueue \in Seq(Plays) /\ completeQueue \in Seq(Downloads)
    BY DEF DataTypes
  <2>1. CASE UNCHANGED downloadVars
    BY <2>1 DEF downloadVars, DownloadToken, Downloading
  <2>2. ASSUME NEW play \in Plays, CanDownload, RequestDownload(play) PROVE DownloadToken'
    <3>1. Len(downloadQueue') = Len(downloadQueue) + 1
      BY <2>0, <2>2 DEF RequestDownload
    <3> QED
      BY <2>0, <2>2, <3>1 DEF CanDownload, RequestDownload, DownloadToken, Downloading
  <2>3. ASSUME NEW f, completeQueue # <<>>, Resolve(f) PROVE DownloadToken'
    <3>1. Len(completeQueue') = Len(completeQueue) - 1 /\ Len(completeQueue) >= 1
      BY <2>0, <2>3 DEF Resolve
    <3> QED
      BY <2>0, <2>3, <3>1 DEF Resolve, DownloadToken, Downloading
  <2>4. CASE TakeUrl
    <3>1. Len(downloadQueue') = Len(downloadQueue) - 1 /\ Len(downloadQueue) >= 1
      BY <2>0, <2>4 DEF TakeUrl
    <3>2. Len(worker) = 0 /\ Len(worker') = 1
      BY <2>4 DEF TakeUrl
    <3> QED
      BY <2>0, <2>4, <3>1, <3>2 DEF TakeUrl, DownloadToken, Downloading
  <2>5. ASSUME NEW ok \in BOOLEAN, Downloaded(ok) PROVE DownloadToken'
    <3>0. worker # <<>> /\ worker' = <<>> /\ worker \in Seq(Plays) /\ Len(worker) <= 1
      BY <2>5, Zenon DEF Downloaded, DataTypes
    <3>1. Len(worker) = 1 /\ Len(worker') = 0
      BY <3>0
    <3>2. Len(completeQueue) < CompleteQueueSize
      BY <2>0, <3>1 DEF DownloadToken, Downloading, CompleteQueueSize
    <3>3. PICK d : completeQueue' = Append(completeQueue, d)
      BY <2>5, <3>2 DEF Downloaded
    <3>4. Len(completeQueue') = Len(completeQueue) + 1
      BY <2>0, <3>3
    <3> QED
      BY <2>0, <2>5, <3>1, <3>4 DEF Downloaded, DownloadToken, Downloading
  <2>6. CASE PlayDownloads
    BY <2>2, <2>6, PlaybackAssumption DEF PlaybackAssumption, PlayDownloads, MayAsk, DataTypes, Plays
  <2>7. ASSUME NEW play \in Plays, NextDownloads(play) PROVE DownloadToken'
    BY <2>2, <2>7 DEF NextDownloads
  <2>8. CASE WavStarts \/ WavFails
    BY <2>3, <2>8 DEF WavStarts, WavFails
  <2>9. ASSUME PlayQueued \/ PlayRefused
               \/ \E s \in Segments : PcmPlays(s) \/ PcmQueued(s) \/ PcmOutOfSequence(s)
        PROVE  UNCHANGED downloadVars
    BY <2>9 DEF PlayQueued, PlayRefused, PcmPlays, PcmQueued, PcmOutOfSequence
  <2>10. ASSUME NothingDownloaded \/ PlaybackFinishes \/ FinishSkipped \/ ProcessPcm
                \/ ProcessPcmBusy \/ ProcessNoPcm \/ NothingWaits \/ Return
                \/ \E play \in Plays : NextDropped(play)
         PROVE  UNCHANGED downloadVars
    BY <2>10 DEF NothingDownloaded, PlaybackFinishes, FinishSkipped, ProcessPcm,
       ProcessPcmBusy, ProcessNoPcm, NothingWaits, Return, NextDropped
  <2>11. ASSUME ResumeMic \/ MicRecords \/ SpeakerFinishes \/ DeadlinePasses \/ Stream \/ UNCHANGED vars
         PROVE  UNCHANGED downloadVars
    BY <2>11 DEF ResumeMic, MicRecords, SpeakerFinishes, DeadlinePasses, Stream, StreamOpens,
       StreamPlays, StreamCloses, vars
  <2> QED
    BY <2>1, <2>4, <2>5, <2>6, <2>7, <2>8, <2>9, <2>10, <2>11
    DEF Next, Requests, UpdatePlayback, DownloadTask
<1> QED
  BY <1>1, <1>2, TypeCorrect, PTL DEF Spec

-----------------------------------------------------------------------------
(* The buffer under the speaker *)

\* processAudioQueue runs only when nothing plays, the speaker never sounds without a
\* buffer, and until a segment is put back nothing that waits is freed: with
\* that, the property is inductive.
BufferInv ==
    /\ sounding => buffer # "none"
    /\ ~playing => buffer = "none"
    /\ loop \in {"process", "pending", "next"} => ~playing
    /\ ~requeued => buffer # "freed" /\ \A i \in DOMAIN pcmQueue : ~pcmQueue[i].freed

LEMMA BufferInvariant == Spec => []BufferInv
<1> USE DEF BufferInv
<1>1. Init => BufferInv
  BY DEF Init
<1>2. TypeOK /\ BufferInv /\ [Next]_vars => BufferInv'
  <2> SUFFICES ASSUME DataTypes, BufferInv, [Next]_vars PROVE BufferInv'
    BY DEF TypeOK
  <2> USE DEF speakerVars, pcmVars, streamVars, control
  <2>0. pcmQueue \in Seq(QueuedSegments)
    BY DEF DataTypes
  <2>h. pcmQueue # <<>> => 1 \in DOMAIN pcmQueue /\ Head(pcmQueue) = pcmQueue[1]
    BY <2>0
  \* What starts ends the old buffer and clears the queue.
  <2>s. ASSUME NEW s \in QueuedSegments, StartPcm(s), ~requeued => ~s.freed,
               loop' \in {"idle", "return"}, UNCHANGED requeued
        PROVE  BufferInv'
    BY <2>s DEF StartPcm, SpeakerStarts
  <2>f. ASSUME StartPcmFails, ~playing, ~sounding, UNCHANGED requeued PROVE BufferInv'
    BY <2>f DEF StartPcmFails
  <2>1. CASE PlayQueued \/ PlayRefused \/ PlayDownloads
    BY <2>1 DEF PlayQueued, PlayRefused, PlayDownloads
  <2>2. ASSUME NEW s \in Segments, PcmPlays(s) \/ PcmQueued(s) \/ PcmOutOfSequence(s)
        PROVE  BufferInv'
    <3>1. CASE PcmPlays(s)
      <4>1. CASE StartPcm(Queued(s, FALSE))
        BY <2>s, <3>1, <4>1, QueuedTypes DEF PcmPlays, UsesPcm
      <4>2. CASE StartPcmFails
        BY <2>f, <3>1, <4>2 DEF PcmPlays, PcmBusy, UsesPcm
      <4> QED
        BY <3>1, <4>1, <4>2 DEF PcmPlays
    <3>2. CASE PcmQueued(s)
      <4> DEFINE q == Queued(s, FALSE)
      <4>1. q \in QueuedSegments /\ ~q.freed
        BY QueuedTypes
      <4>2. pcmQueue' = Append(pcmQueue, q)
        BY <3>2 DEF PcmQueued
      <4>3. UNCHANGED <<requeued, speakerVars, loop>>
        BY <3>2 DEF PcmQueued, UsesPcm
      <4> HIDE DEF q
      <4>4. \A i \in DOMAIN pcmQueue' :
               pcmQueue'[i] = q \/ (i \in DOMAIN pcmQueue /\ pcmQueue'[i] = pcmQueue[i])
        BY <2>0, <4>1, <4>2
      <4> QED
        BY <4>1, <4>3, <4>4
    <3>3. CASE PcmOutOfSequence(s)
      BY <3>3 DEF PcmOutOfSequence, UsesPcm
    <3> QED
      BY <2>2, <3>1, <3>2, <3>3
  <2>3. CASE WavStarts
    BY <2>3 DEF WavStarts, SpeakerStarts
  <2>4. CASE WavFails
    BY <2>4 DEF WavFails, CheckingDownloads
  <2>5. CASE NothingDownloaded \/ PlaybackFinishes \/ FinishSkipped \/ ProcessNoPcm
             \/ NothingWaits
    BY <2>5 DEF NothingDownloaded, PlaybackFinishes, EndPlayback, FinishSkipped, ProcessNoPcm,
       NothingWaits
  <2>6. CASE ProcessPcm
    <3>1. CASE StartPcm(Head(pcmQueue)) /\ loop' = "return"
      <4>1. Head(pcmQueue) \in QueuedSegments /\ (~requeued => ~Head(pcmQueue).freed)
        BY <2>0, <2>6, <2>h DEF ProcessPcm
      <4>2. UNCHANGED requeued
        BY <2>6 DEF ProcessPcm
      <4> QED
        BY <2>s, <3>1, <4>1, <4>2
    <3>2. CASE StartPcmFails
      BY <2>6, <2>f, <3>2 DEF ProcessPcm, PcmBusy
    <3> QED
      BY <2>6, <3>1, <3>2 DEF ProcessPcm
  <2>13. CASE ProcessPcmBusy
    <3>1. CASE requeued'
      BY <2>13, <3>1 DEF ProcessPcmBusy
    <3>2. CASE ~requeued'
      <4>1. pcmQueue # <<>> /\ pcmQueue' = Tail(pcmQueue) /\ UNCHANGED requeued
        BY <2>13, <3>2 DEF ProcessPcmBusy
      <4>2. \A i \in DOMAIN pcmQueue' : i + 1 \in DOMAIN pcmQueue /\ pcmQueue'[i] = pcmQueue[i + 1]
        BY <2>0, <4>1
      <4> QED
        BY <2>13, <4>1, <4>2 DEF ProcessPcmBusy
    <3> QED
      BY <3>1, <3>2
  <2>7. CASE Return
    BY <2>7 DEF Return
  <2>8. ASSUME NEW p \in Plays, NextDownloads(p) \/ NextDropped(p) PROVE BufferInv'
    BY <2>8 DEF NextDownloads, NextDropped
  <2>9. CASE ResumeMic \/ MicRecords \/ DownloadTask
    <3>1. UNCHANGED <<speakerVars, control, pcmVars, streamVars>>
      BY <2>9, Zenon DEF ResumeMic, MicRecords, DownloadTask, TakeUrl, Downloaded
    <3> QED
      BY <3>1
  <2>10. CASE SpeakerFinishes \/ DeadlinePasses
    BY <2>10 DEF SpeakerFinishes, DeadlinePasses
  <2>11. CASE Stream
    BY <2>11 DEF Stream, StreamOpens, StreamPlays, StreamCloses
  <2>12. CASE UNCHANGED vars
    BY <2>12 DEF vars
  <2> QED
    BY <2>1, <2>2, <2>3, <2>4, <2>5, <2>6, <2>7, <2>8, <2>9, <2>10, <2>11, <2>12, <2>13
    DEF Next, Requests, UpdatePlayback
<1> QED
  BY <1>1, <1>2, TypeCorrect, PTL DEF Spec

\* Until a segment is put back into the queue under a stream, the speaker never reads
\* memory that the playback service has released, with WAV files, segments, streams and
\* every fault; and the service keeps none once playback is over.
THEOREM SpeakerSafe == Spec => []SpeakerReadsBuffer
<1>1. TypeOK /\ BufferInv => SpeakerReadsBuffer
  BY DEF TypeOK, FlagTypes, BufferInv, SpeakerReadsBuffer
<1> QED
  BY <1>1, TypeCorrect, BufferInvariant, PTL

-----------------------------------------------------------------------------
(* The order of the segments *)

\* Only a segment of the session that plays is queued, and that is the session
\* whose next number is expected, or none.
SegmentsInv ==
    /\ SegmentsInOrder
    /\ streams = 0 => stream = "off" /\ session \in {0, expected.session}

\* A segment that starts leaves no other behind it.
LEMMA StartLeavesNone ==
  ASSUME SegmentsInv, UNCHANGED <<stream, streams>>,
         NEW s, StartPcm(s), streams = 0 => s.session = expected'.session
  PROVE  SegmentsInv'
BY DEF StartPcm, SegmentsInv, SegmentsInOrder

\* A segment that is queued goes on where the last one ended.
LEMMA QueuedFollows ==
  ASSUME DataTypes, SegmentsInv, NEW s \in Segments, PcmQueued(s)
  PROVE  SegmentsInv'
<1> SUFFICES ASSUME streams = 0 PROVE SegmentsInv'
  BY DEF SegmentsInv, SegmentsInOrder, PcmQueued, UsesPcm
<1> DEFINE q == Queued(s, FALSE)
<1>q. q \in QueuedSegments /\ q.session = s.session /\ q.seq = s.seq
  BY QueuedTypes
<1>1. /\ pcmQueue \in Seq(QueuedSegments) /\ Len(pcmQueue) \in Nat
      /\ expected.next \in Nat /\ s.session \in Nat \ {0} /\ s.seq \in Nat
  BY PlaybackAssumption DEF PlaybackAssumption, DataTypes, Segments, PcmSessions
<1>2. s.session = session /\ s.session = expected.session /\ s.seq = expected.next
  BY <1>1 DEF PcmQueued, MayQueue, ExpectedSeq, SegmentsInv
<1>3. /\ pcmQueue' = Append(pcmQueue, q) /\ UNCHANGED <<session, stream, streams>>
      /\ expected' = [session |-> s.session, next |-> s.seq + 1]
  BY DEF PcmQueued, Advance, UsesPcm
<1> HIDE DEF q
<1>4. /\ Len(pcmQueue') = Len(pcmQueue) + 1 /\ pcmQueue'[Len(pcmQueue) + 1] = q
      /\ \A i \in 1 .. Len(pcmQueue) : pcmQueue'[i] = pcmQueue[i]
      /\ DOMAIN pcmQueue' = 1 .. Len(pcmQueue) + 1 /\ DOMAIN pcmQueue = 1 .. Len(pcmQueue)
  BY <1>1, <1>3, <1>q
<1>5. ASSUME NEW i \in 1 .. Len(pcmQueue) + 1
      PROVE  /\ pcmQueue'[i].session = expected'.session
             /\ pcmQueue'[i].seq + Len(pcmQueue') + 1 = expected'.next + i
  <2>1. CASE i = Len(pcmQueue) + 1
    BY <1>1, <1>2, <1>3, <1>4, <1>q, <2>1
  <2>2. CASE i \in 1 .. Len(pcmQueue)
    <3>1. pcmQueue[i] \in QueuedSegments
      BY <1>1, <2>2
    <3>2. pcmQueue[i].session = expected.session /\ pcmQueue[i].seq \in Nat
          /\ pcmQueue[i].seq + Len(pcmQueue) + 1 = expected.next + i
      BY <1>4, <2>2, <3>1 DEF SegmentsInv, SegmentsInOrder, QueuedSegments
    <3> QED
      BY <1>1, <1>2, <1>3, <1>4, <2>2, <3>2
  <2> QED
    BY <2>1, <2>2
<1>6. stream' = "off" /\ session' \in {0, expected'.session}
  BY <1>2, <1>3 DEF SegmentsInv
<1> QED
  BY <1>4, <1>5, <1>6 DEF SegmentsInv, SegmentsInOrder

LEMMA SegmentsInvariant == Spec => []SegmentsInv
<1>1. Init => SegmentsInv
  BY DEF Init, SegmentsInv, SegmentsInOrder
<1>2. TypeOK /\ BufferInv /\ SegmentsInv /\ [Next]_vars => SegmentsInv'
  <2> SUFFICES ASSUME DataTypes, BufferInv, SegmentsInv, [Next]_vars PROVE SegmentsInv'
    BY DEF TypeOK
  <2> USE DEF pcmVars, streamVars
  <2>k. ASSUME UNCHANGED <<pcmVars, stream, streams>> PROVE SegmentsInv'
    BY <2>k DEF SegmentsInv, SegmentsInOrder
  <2>c. ASSUME pcmQueue' = <<>>, session' \in {0, session}, UNCHANGED <<expected, stream, streams>>
        PROVE  SegmentsInv'
    BY <2>c DEF SegmentsInv, SegmentsInOrder
  <2>1. ASSUME NEW s \in Segments, PcmPlays(s) PROVE SegmentsInv'
    <3>1. CASE StartPcm(Queued(s, FALSE)) /\ Advance(s)
      <4>1. Queued(s, FALSE).session = expected'.session /\ UNCHANGED <<stream, streams>>
        BY <2>1, <3>1, QueuedTypes DEF Advance, PcmPlays, UsesPcm
      <4> QED
        BY <3>1, <4>1, StartLeavesNone
    <3>2. CASE StartPcmFails /\ UNCHANGED expected
      BY <2>1, <2>c, <3>2 DEF StartPcmFails, PcmPlays, UsesPcm
    <3> QED
      BY <2>1, <3>1, <3>2 DEF PcmPlays
  <2>2. ASSUME NEW s \in Segments, PcmOutOfSequence(s) PROVE SegmentsInv'
    BY <2>2, <2>c DEF PcmOutOfSequence, UsesPcm
  <2>3. CASE WavStarts
    BY <2>3, <2>c DEF WavStarts
  <2>4. CASE PlaybackFinishes \/ FinishSkipped
    BY <2>4, <2>c, <2>k DEF PlaybackFinishes, FinishSkipped
  <2>5. CASE ProcessPcm
    <3>1. CASE StartPcmFails
      BY <2>5, <2>c, <3>1 DEF StartPcmFails, ProcessPcm
    <3>2. CASE StartPcm(Head(pcmQueue))
      <4>1. pcmQueue # <<>> /\ UNCHANGED <<expected, stream, streams>>
        BY <2>5 DEF ProcessPcm
      <4>2. 1 \in DOMAIN pcmQueue /\ Head(pcmQueue) = pcmQueue[1]
        BY <4>1 DEF DataTypes
      <4>3. streams = 0 => Head(pcmQueue).session = expected'.session
        BY <4>1, <4>2 DEF SegmentsInv, SegmentsInOrder
      <4> QED
        BY <3>2, <4>1, <4>3, StartLeavesNone
    <3> QED
      BY <2>5, <3>1, <3>2 DEF ProcessPcm
  <2>6. CASE ProcessPcmBusy
    <3>1. stream # "off"
      BY <2>6 DEF ProcessPcmBusy, PcmBusy, BufferInv, isPcmStreamActive
    <3> QED
      BY <2>6, <3>1 DEF ProcessPcmBusy, SegmentsInv, SegmentsInOrder
  <2>7. CASE NothingWaits
    <3>1. session' = 0 /\ UNCHANGED <<pcmQueue, expected, stream, streams>>
      BY <2>7 DEF NothingWaits
    <3> QED
      BY <3>1 DEF SegmentsInv, SegmentsInOrder
  <2>8. CASE Stream
    <3>1. streams \in Nat
      BY DEF DataTypes
    <3>2. UNCHANGED pcmVars /\ (streams' = 0 => streams = 0 /\ stream' = "off")
      BY <2>8, <3>1 DEF Stream, StreamOpens, StreamPlays, StreamCloses, SegmentsInv
    <3> QED
      BY <3>2 DEF SegmentsInv, SegmentsInOrder
  <2>9. ASSUME \/ PlayQueued \/ PlayRefused \/ PlayDownloads \/ WavFails \/ NothingDownloaded
               \/ ProcessNoPcm \/ Return \/ ResumeMic \/ MicRecords \/ DownloadTask \/ SpeakerFinishes
               \/ DeadlinePasses \/ UNCHANGED vars
               \/ \E p \in Plays : NextDownloads(p) \/ NextDropped(p)
        PROVE  UNCHANGED <<pcmVars, stream, streams>>
    BY <2>9, Zenon DEF PlayQueued, PlayRefused, PlayDownloads, WavFails, NothingDownloaded,
       ProcessNoPcm, Return, ResumeMic, MicRecords, DownloadTask, TakeUrl, Downloaded, SpeakerFinishes,
       DeadlinePasses, NextDownloads, NextDropped, vars
  <2> QED
    BY <2>1, <2>2, <2>3, <2>4, <2>5, <2>6, <2>7, <2>8, <2>9, <2>k, QueuedFollows
    DEF Next, Requests, UpdatePlayback
<1> QED
  BY <1>1, <1>2, TypeCorrect, BufferInvariant, PTL DEF Spec

\* For any number of sessions and segments: the segments that wait are the latest of
\* those accepted, one after another, until a stream is opened.
THEOREM SegmentsKeepTheirOrder == Spec => []SegmentsInOrder
  BY SegmentsInvariant, PTL DEF SegmentsInv

-----------------------------------------------------------------------------
(* Accepted plays *)

\* As long as no segment was sent, nothing plays and no queue is processed while
\* a download is in flight, and processAudioQueue never nests.
PlaysInv ==
    ~pcmUsed =>
        /\ \A p \in Plays : fate[p] # "dropped"
        /\ playing \/ loop \in {"process", "pending", "next"} => ~inFlight
        /\ depth = 0 /\ pcmQueue = <<>>

LEMMA PlaysInvariant == Spec => []PlaysInv
<1> USE DEF PlaysInv
<1>1. Init => PlaysInv
  BY DEF Init
<1>2. TypeOK /\ DownloadToken /\ BufferInv /\ PlaysInv /\ [Next]_vars => PlaysInv'
  <2> SUFFICES ASSUME DataTypes, DownloadToken, BufferInv, PlaysInv, [Next]_vars PROVE PlaysInv'
    BY DEF TypeOK
  <2> USE DEF queueVars, downloadVars, speakerVars, pcmVars, streamVars, control
  <2>0. /\ fate \in [Plays -> Fates] /\ sequence \in Nat
        /\ inFlight <=> completeQueue # <<>> \/ downloadQueue # <<>> \/ worker # <<>>
        /\ Len(downloadQueue) <= 1
    BY DEF DataTypes, DownloadToken, Downloading
  <2>13. ASSUME NEW s \in Segments, PcmPlays(s) \/ PcmQueued(s) \/ PcmOutOfSequence(s)
         PROVE  PlaysInv'
    <3>1. pcmUsed'
      BY <2>13 DEF PcmPlays, PcmQueued, PcmOutOfSequence, UsesPcm
    <3> QED
      BY <3>1
  <2>1. CASE PlayQueued \/ PlayRefused \/ PlayDownloads
    BY <2>0, <2>1 DEF PlayQueued, PlayRefused, PlayDownloads, Busy, Accept, RequestDownload
  <2>2. CASE WavStarts
    BY <2>0, <2>2 DEF WavStarts, Resolve, SpeakerStarts
  <2>3. CASE WavFails
    BY <2>0, <2>3 DEF WavFails, CheckingDownloads, Resolve
  <2>4. CASE NothingDownloaded \/ PlaybackFinishes \/ FinishSkipped \/ ProcessNoPcm
             \/ NothingWaits
    BY <2>4 DEF NothingDownloaded, PlaybackFinishes, EndPlayback, FinishSkipped, ProcessNoPcm, NothingWaits
  <2>5. CASE ProcessPcm \/ ProcessPcmBusy
    BY <2>0, <2>5 DEF ProcessPcm, ProcessPcmBusy
  <2>6. CASE Return
    BY <2>6 DEF Return
  <2>7. ASSUME NEW p \in Plays, NextDownloads(p) PROVE PlaysInv'
    BY <2>7 DEF NextDownloads, RequestDownload, BufferInv
  <2>8. ASSUME NEW p \in Plays, NextDropped(p) PROVE PlaysInv'
    BY <2>0, <2>8 DEF NextDropped, CanDownload, DownloadQueueSize
  <2>9. CASE ResumeMic \/ MicRecords \/ SpeakerFinishes \/ DeadlinePasses
    BY <2>9 DEF ResumeMic, MicRecords, SpeakerFinishes, DeadlinePasses
  <2>10. CASE DownloadTask
    <3>1. UNCHANGED <<queueVars, inFlight, speakerVars, pcmVars, streamVars, control>>
      BY <2>10, Zenon DEF DownloadTask, TakeUrl, Downloaded
    <3> QED
      BY <3>1
  <2>11. CASE Stream
    BY <2>11 DEF Stream, StreamOpens, StreamPlays, StreamCloses
  <2>12. CASE UNCHANGED vars
    BY <2>12 DEF vars
  <2> QED
    BY <2>1, <2>2, <2>3, <2>4, <2>5, <2>6, <2>7, <2>8, <2>9, <2>10, <2>11, <2>12, <2>13
    DEF Next, Requests, UpdatePlayback
<1> QED
  BY <1>1, <1>2, TypeCorrect, DownloadTokenCorrect, BufferInvariant, PTL DEF Spec

\* While no client uses POST /play/pcm, every play that was answered with
\* success keeps its place until it is downloaded, with streams and with every
\* fault.
THEOREM PlaysAreKept == Spec => []NoAcceptedPlayDropped
<1>1. PlaysInv => NoAcceptedPlayDropped
  BY DEF PlaysInv, NoAcceptedPlayDropped
<1> QED
  BY <1>1, PlaysInvariant, PTL

-----------------------------------------------------------------------------
(* WAV files alone *)

\* While only WAV files are played, no stream is active, and nothing waits unless
\* something plays, is downloaded or is about to be processed.
WavInv ==
    WavOnly =>
        /\ stream = "off"
        /\ loop \in {"idle", "return"} => playing \/ inFlight \/ waiting = {}

LEMMA WavInvariant == Spec => []WavInv
<1> USE DEF WavInv, WavOnly
<1>1. Init => WavInv
  BY DEF Init
<1>2. TypeOK /\ BufferInv /\ PlaysInv /\ WavInv /\ [Next]_vars => WavInv'
  <2> SUFFICES ASSUME DataTypes, BufferInv, PlaysInv, WavInv, [Next]_vars, WavOnly'
               PROVE  WavInv'
    BY DEF TypeOK
  <2> USE DEF queueVars, downloadVars, speakerVars, pcmVars, streamVars, control
  <2>0. streams \in Nat
    BY DEF DataTypes
  <2>1. CASE PlayQueued \/ PlayRefused \/ PlayDownloads
    BY <2>1 DEF PlayQueued, PlayRefused, PlayDownloads, Busy, isPcmStreamActive, RequestDownload
  <2>2. ASSUME NEW s \in Segments, PcmPlays(s) \/ PcmQueued(s) \/ PcmOutOfSequence(s)
        PROVE  FALSE
    BY <2>2 DEF PcmPlays, PcmQueued, PcmOutOfSequence, UsesPcm
  <2>3. CASE WavStarts
    BY <2>3 DEF WavStarts, Resolve, SpeakerStarts
  <2>4. CASE WavFails
    BY <2>4 DEF WavFails, CheckingDownloads, Resolve
  <2>5. CASE NothingDownloaded \/ PlaybackFinishes \/ FinishSkipped \/ ProcessNoPcm
             \/ NothingWaits
    BY <2>5 DEF NothingDownloaded, PlaybackFinishes, EndPlayback, FinishSkipped, ProcessNoPcm, NothingWaits
  <2>6. CASE ProcessPcm \/ ProcessPcmBusy
    BY <2>6 DEF ProcessPcm, ProcessPcmBusy, PlaysInv
  <2>7. CASE Return
    BY <2>7 DEF Return, PlaysInv
  <2>8. ASSUME NEW p \in Plays, NextDownloads(p) \/ NextDropped(p) PROVE WavInv'
    BY <2>8 DEF NextDownloads, NextDropped, RequestDownload
  <2>9. CASE ResumeMic \/ MicRecords \/ SpeakerFinishes \/ DeadlinePasses
    BY <2>9 DEF ResumeMic, MicRecords, SpeakerFinishes, DeadlinePasses
  <2>10. CASE DownloadTask
    <3>1. UNCHANGED <<queueVars, inFlight, speakerVars, pcmVars, streamVars, control>>
      BY <2>10, Zenon DEF DownloadTask, TakeUrl, Downloaded
    <3> QED
      BY <3>1
  <2>11. CASE Stream
    BY <2>0, <2>11 DEF Stream, StreamOpens, StreamPlays, StreamCloses
  <2>12. CASE UNCHANGED vars
    BY <2>12 DEF vars
  <2> QED
    BY <2>1, <2>2, <2>3, <2>4, <2>5, <2>6, <2>7, <2>8, <2>9, <2>10, <2>11, <2>12
    DEF Next, Requests, UpdatePlayback
<1> QED
  BY <1>1, <1>2, TypeCorrect, BufferInvariant, PlaysInvariant, PTL DEF Spec

\* While only WAV files are played, no play is downloaded before one that waits.
THEOREM PlaysKeepTheirOrder == Spec => PlayOrder
<1>1. TypeOK /\ WavInv /\ [Next]_vars =>
        [WavOnly => \A p \in Plays : downloadQueue' = Append(downloadQueue, p)
            => \A q \in waiting : p <= q]_vars
  <2> SUFFICES ASSUME DataTypes, WavInv, [Next]_vars, WavOnly, NEW p \in Plays,
                      downloadQueue' = Append(downloadQueue, p), NEW q \in waiting
               PROVE  p <= q
    BY DEF TypeOK
  <2> USE DEF downloadVars
  <2>0. /\ downloadQueue \in Seq(Plays) /\ q \in Plays
        /\ Len(downloadQueue') = Len(downloadQueue) + 1
        /\ downloadQueue'[Len(downloadQueue) + 1] = p
    BY DEF DataTypes
  <2>1. ~UNCHANGED downloadQueue
    BY <2>0
  <2>2. ~(PlayDownloads)
    BY DEF PlayDownloads, Busy, WavInv
  <2>3. ASSUME NEW play \in Plays, NextDownloads(play) PROVE p <= q
    <3>1. downloadQueue' = Append(downloadQueue, play)
      BY <2>3 DEF NextDownloads, RequestDownload
    <3>2. p = play
      BY <2>0, <3>1
    <3> QED
      BY <2>3, <3>2 DEF NextDownloads, Oldest
  <2>4. ~TakeUrl
    <3> SUFFICES ASSUME TakeUrl PROVE FALSE
      OBVIOUS
    <3>1. Len(downloadQueue') = Len(downloadQueue) - 1
      BY <2>0 DEF TakeUrl
    <3> QED
      BY <2>0, <3>1
  <2>5. ASSUME Requests, ~PlayDownloads PROVE UNCHANGED downloadQueue
    BY <2>5 DEF Requests, PlayQueued, PlayRefused, PcmPlays, PcmQueued, PcmOutOfSequence
  <2>6. ASSUME UpdatePlayback, \A play \in Plays : ~NextDownloads(play)
        PROVE  UNCHANGED downloadQueue
    BY <2>6 DEF UpdatePlayback, WavStarts, WavFails, Resolve, NothingDownloaded, PlaybackFinishes,
       FinishSkipped, ProcessPcm, ProcessPcmBusy, ProcessNoPcm, NothingWaits, Return, NextDropped
  <2>7. ASSUME ResumeMic \/ MicRecords \/ (\E ok \in BOOLEAN : Downloaded(ok)) \/ SpeakerFinishes \/ DeadlinePasses \/ Stream \/ UNCHANGED vars
        PROVE  UNCHANGED downloadQueue
    BY <2>7 DEF ResumeMic, MicRecords, Downloaded, SpeakerFinishes, DeadlinePasses, Stream, StreamOpens,
       StreamPlays, StreamCloses, vars
  <2> QED
    BY <2>1, <2>2, <2>3, <2>4, <2>5, <2>6, <2>7 DEF Next, DownloadTask
<1> QED
  BY <1>1, TypeCorrect, WavInvariant, PTL DEF Spec, PlayOrder

\* While only WAV files are played, the microphone is lost only to an attempt to
\* start it that failed.
THEOREM MicResumeIsKept == Spec => MicResumeNotLost
<1>1. TypeOK /\ WavInv /\ [Next]_vars => [WavOnly' /\ MicLost' => MicLost \/ ResumeMic]_vars
  <2> SUFFICES ASSUME FlagTypes, DataTypes, WavInv, Next, WavOnly', MicLost', ~ResumeMic
               PROVE  MicLost
    BY DEF TypeOK
  <2> USE DEF MicLost, hasPendingPlaybackWork, isPcmStreamActive,
              queueVars, downloadVars, speakerVars, pcmVars, micVars, streamVars, control
  <2>1. CASE PlayQueued \/ PlayRefused \/ PlayDownloads
    BY <2>1 DEF PlayQueued, PlayRefused, PlayDownloads, RequestDownload
  <2>2. ASSUME NEW s \in Segments, PcmPlays(s) \/ PcmQueued(s) \/ PcmOutOfSequence(s)
        PROVE  FALSE
    BY <2>2 DEF PcmPlays, PcmQueued, PcmOutOfSequence, UsesPcm, WavOnly
  <2>3. CASE WavStarts \/ WavFails \/ NothingDownloaded \/ PlaybackFinishes
    BY <2>3 DEF WavStarts, WavFails, SpeakerStarts, NothingDownloaded, PlaybackFinishes
  <2>4. CASE FinishSkipped
    BY <2>4 DEF FinishSkipped
  <2>5. CASE ProcessPcm \/ ProcessPcmBusy \/ ProcessNoPcm \/ NothingWaits
    BY <2>5 DEF ProcessPcm, ProcessPcmBusy, ProcessNoPcm, NothingWaits
  <2>6. CASE Return
    BY <2>6 DEF Return, AskForMic, FlagTypes
  <2>7. ASSUME NEW p \in Plays, NextDownloads(p) \/ NextDropped(p) PROVE FALSE
    BY <2>7 DEF NextDownloads, NextDropped
  <2>8. CASE DownloadTask
    <3>1. UNCHANGED <<queueVars, inFlight, speakerVars, pcmVars, micVars, streamVars, control>>
      BY <2>8, Zenon DEF DownloadTask, TakeUrl, Downloaded
    <3> QED
      BY <3>1
  <2>9. CASE SpeakerFinishes \/ DeadlinePasses
    BY <2>9 DEF SpeakerFinishes, DeadlinePasses
  <2>10. ASSUME Stream PROVE FALSE
    <3>1. streams \in Nat
      BY DEF DataTypes
    <3> QED
      BY <2>10, <3>1 DEF Stream, StreamOpens, StreamPlays, StreamCloses, WavInv, WavOnly
  <2>11. ASSUME MicRecords PROVE FALSE
    BY <2>11 DEF MicRecords
  <2> QED
    BY <2>1, <2>2, <2>3, <2>4, <2>5, <2>6, <2>7, <2>8, <2>9, <2>10, <2>11
    DEF Next, Requests, UpdatePlayback
<1> QED
  BY <1>1, TypeCorrect, WavInvariant, PTL DEF Spec, MicResumeNotLost

-----------------------------------------------------------------------------
(* Sharing the peripheral *)

\* A play starts under the contract: nothing plays, no stream does, and the
\* microphone is ended.
LEMMA StartShares ==
  ASSUME FlagTypes, ~playing, GateFree, UNCHANGED stream, mic' = FALSE,
         playing' = TRUE \/ UNCHANGED playing
  PROVE  [Use!UseNext]_(Use!useVars)
<1> USE DEF FlagTypes, GateFree
<1>1. playing' \in BOOLEAN /\ (stream' = "playing") = (stream = "playing")
  OBVIOUS
<1>2. Use!PlaybackStarts
  BY <1>1, Zenon DEF Use!PlaybackStarts
<1> QED
  BY <1>2, Zenon DEF Use!UseNext

\* Every step of the playback service, and of the stream next to it, is one that
\* the contract allows, or none: processAudioQueue never runs over a playback
\* (BufferInv), so no play starts over another.
LEMMA StepShares ==
  ASSUME FlagTypes, BufferInv, [Next]_vars
  PROVE  [Use!UseNext]_(Use!useVars)
<1> USE DEF queueVars, downloadVars, speakerVars, pcmVars, micVars, streamVars, control
<1> SUFFICES ASSUME ~UNCHANGED Use!useVars PROVE Use!UseNext
  OBVIOUS
<1>0. /\ ~UNCHANGED <<mic, playing, stream>>
      /\ ~(UNCHANGED <<mic, playing>> /\ (stream' = "playing") = (stream = "playing"))
  BY Zenon DEF Use!useVars
<1>1. ASSUME NEW s, StartPcm(s) \/ StartPcmFails, ~PcmBusy, UNCHANGED stream
      PROVE  Use!UseNext
  <2>1. ~playing /\ GateFree
    BY <1>1 DEF PcmBusy, isPcmStreamActive, GateFree
  <2>2. mic' = FALSE /\ (playing' = TRUE \/ UNCHANGED playing)
    BY <1>1, Zenon DEF StartPcm, SpeakerStarts, StartPcmFails
  <2> QED
    BY <1>1, <2>1, <2>2, StartShares, Zenon DEF Use!useVars
<1>2. ASSUME NEW s \in Segments, PcmPlays(s) PROVE Use!UseNext
  BY <1>1, <1>2, Zenon DEF PcmPlays, UsesPcm
<1>3. CASE ProcessPcm
  BY <1>1, <1>3, Zenon DEF ProcessPcm
<1>4. CASE WavStarts
  <2>1. ~playing
    BY <1>4 DEF WavStarts, CheckingDownloads, BufferInv
  <2> QED
    BY <1>4, <2>1, StartShares, Zenon DEF WavStarts, SpeakerStarts, Use!useVars
<1>5. CASE WavFails
  <2>1. ~playing
    BY <1>5 DEF WavFails, CheckingDownloads, BufferInv
  <2>2. UNCHANGED <<playing, stream>> /\ GateFree /\ mic' = FALSE
    BY <1>0, <1>5, Zenon DEF WavFails
  <2> QED
    BY <2>1, <2>2, StartShares, Zenon DEF Use!useVars
<1>6. CASE PlaybackFinishes
  BY <1>6, Zenon DEF PlaybackFinishes, EndPlayback, Use!UseNext, Use!PlaybackEnds
<1>7. CASE StreamPlays
  BY <1>7, Zenon DEF StreamPlays, Use!UseNext, Use!StreamStarts
<1>8. CASE StreamCloses
  <2>1. stream' = "off" /\ UNCHANGED <<mic, playing>>
    BY <1>8 DEF StreamCloses
  <2>2. stream = "playing" /\ ~(stream' = "playing")
    BY <1>0, <2>1
  <2> QED
    BY <2>1, <2>2 DEF Use!UseNext, Use!StreamEnds
<1>9. ~StreamOpens
  BY <1>0 DEF StreamOpens
<1>10. CASE ResumeMic
  <2>1. ~playing /\ stream = "off" /\ mic' = TRUE /\ UNCHANGED <<playing, stream>>
    BY <1>0, <1>10, Zenon DEF ResumeMic, hasPendingPlaybackWork, isPcmStreamActive
  <2> QED
    BY <2>1 DEF Use!UseNext, Use!MicStarts
<1>14. CASE MicRecords
  <2>1. ~playing /\ ~(stream = "playing") /\ mic' = TRUE /\ UNCHANGED <<playing, stream>>
    BY <1>14, Zenon DEF MicRecords, GateFree
  <2> QED
    BY <2>1 DEF Use!UseNext, Use!MicStarts
<1>11. ASSUME PlayQueued \/ PlayRefused \/ PlayDownloads
              \/ \E s \in Segments : PcmQueued(s) \/ PcmOutOfSequence(s)
       PROVE  FALSE
  BY <1>0, <1>11, Zenon DEF PlayQueued, PlayRefused, PlayDownloads, PcmQueued, PcmOutOfSequence, UsesPcm
<1>12. ASSUME NothingDownloaded \/ FinishSkipped \/ ProcessPcmBusy \/ ProcessNoPcm
              \/ NothingWaits \/ Return \/ \E p \in Plays : NextDownloads(p) \/ NextDropped(p)
       PROVE  FALSE
  BY <1>0, <1>12, Zenon DEF NothingDownloaded, FinishSkipped, ProcessPcmBusy, ProcessNoPcm,
     NothingWaits, Return, NextDownloads, NextDropped
<1>13. ASSUME DownloadTask \/ SpeakerFinishes \/ DeadlinePasses \/ UNCHANGED vars
       PROVE  FALSE
  BY <1>0, <1>13, Zenon DEF DownloadTask, TakeUrl, Downloaded, SpeakerFinishes, DeadlinePasses, vars
<1> QED
  BY <1>2, <1>3, <1>4, <1>5, <1>6, <1>7, <1>8, <1>9, <1>10, <1>11, <1>12, <1>13, <1>14, Zenon
  DEF Next, Requests, UpdatePlayback, Stream

\* WAV files, segments and streams in any order, with every fault: whatever the
\* playback service starts ends the microphone and starts over nothing, and the
\* microphone starts only when nothing plays.
THEOREM PlaybackSharesSpeaker == Spec => SharesSpeaker
<1>1. Init => Use!UseInit
  BY DEF Init, Use!UseInit
<1>2. FlagTypes /\ BufferInv /\ [Next]_vars => [Use!UseNext]_(Use!useVars)
  BY StepShares
<1> QED
  BY <1>1, <1>2, FlagTypesCorrect, BufferInvariant, PTL DEF Spec, SharesSpeaker, Use!UseSpec

=============================================================================
