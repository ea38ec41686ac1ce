------------------------------ MODULE Playback ------------------------------
(***************************************************************************)
(* The playback service (firmware/src/playback_service.cpp): WAV files     *)
(* requested by POST /play or by the play_url command wait in a queue, are *)
(* downloaded one at a time by downloadTask and played; PCM segments come  *)
(* in the body of POST /play/pcm and follow one another.                   *)
(*                                                                         *)
(* Everything here runs in the loop task except downloadTask, the speaker  *)
(* and the streaming session of pcm_stream_service.cpp, of which this      *)
(* module keeps what the playback service can see: whether one is active   *)
(* and whether it holds the audio gate and the speaker.  The loop task     *)
(* blocks for the gate and after Mic.end and Speaker.end; processAudioQueue*)
(* is cut into steps there, and the other tasks run between them.          *)
(***************************************************************************)
EXTENDS Naturals, Sequences, FiniteSets

CONSTANTS
    MaxPlays,       \* bound on the number of plays ever requested
    MaxMixedPlays,  \* the same once segments or streams are sent too
    QueueDepth,     \* MAX_AUDIO_QUEUE_DEPTH
    MaxPcmSessions, \* bound on the sessions that send PCM segments
    MaxSegments,    \* bound on the segments of a session
    PcmSlots,       \* segments that MAX_QUEUED_PCM_BYTES has room for
    MaxStreams,     \* bound on the streaming sessions ever opened
    Faults          \* what may fail: some of FaultKinds

FaultKinds == {"download", "speaker", "mic", "overdue"}

ASSUME PlaybackAssumption ==
    /\ MaxPlays \in Nat /\ MaxMixedPlays \in Nat /\ QueueDepth \in Nat
    /\ MaxPcmSessions \in Nat /\ MaxSegments \in Nat /\ PcmSlots \in Nat
    /\ MaxStreams \in Nat
    /\ Faults \subseteq FaultKinds

VARIABLES
    sequence,       \* s_nextAudioSequence
    waiting,        \* s_audioQueue: sequence numbers of the queued plays
    fate,           \* what became of each play (history, not in the code)
    inFlight,       \* s_downloadInFlight
    downloadQueue,  \* s_downloadQueue: URLs for downloadTask
    worker,         \* what downloadTask is downloading: <<>> or <<play>>
    completeQueue,  \* s_downloadCompleteQueue
    playing,        \* s_isPlaying
    buffer,         \* s_currentAudioData: "none", memory it owns, or "freed" memory
    sounding,       \* M5.Speaker.isPlaying()
    overdue,        \* s_playbackDeadlineMs has passed
    session,        \* pcmSessionId if currentIsPcm, else 0
    pcmQueue,       \* s_pcmQueue
    expected,       \* s_pcm_diag_session and s_pcm_diag_next_seq
    mic,            \* M5.Mic.isRunning()
    micResume,      \* s_micResumeRequested
    stream,         \* the streaming session: "off", "buffering" or "playing"
    streams,        \* how many streaming sessions were opened (history)
    pcmUsed,        \* whether a client has used POST /play/pcm (history)
    requeued,       \* whether a segment was put back into the queue (history)
    loop,           \* where the loop task is in updatePlayback
    depth           \* calls of processAudioQueue nested by checkPendingPlayback

queueVars == <<sequence, waiting, fate>>
downloadVars == <<inFlight, downloadQueue, worker, completeQueue>>
speakerVars == <<playing, buffer, sounding, overdue>>
pcmVars == <<session, pcmQueue, expected>>
micVars == <<mic, micResume>>
streamVars == <<stream, streams, pcmUsed, requeued>>
control == <<loop, depth>>

vars == <<queueVars, downloadVars, speakerVars, pcmVars, micVars, streamVars, control>>

-----------------------------------------------------------------------------
(* Data *)

Plays == 0 .. MaxPlays - 1
PcmSessions == 1 .. MaxPcmSessions
Downloads == [play : Plays, success : BOOLEAN]
Segments == [session : PcmSessions, seq : 0 .. MaxSegments - 1]

\* A segment in s_pcmQueue, and whether its memory was freed there.
QueuedSegments == [session : PcmSessions, seq : 0 .. MaxSegments - 1, freed : BOOLEAN]

Queued(segment, freed) ==
    [session |-> segment.session, seq |-> segment.seq, freed |-> freed]

\* A play is refused (503), or accepted and then aired, failed (download,
\* format or speaker) or dropped by processAudioQueue.
Fates == {"new", "refused", "accepted", "aired", "failed", "dropped"}

\* xQueueCreate in initPlayback.
DownloadQueueSize == 4
CompleteQueueSize == 2

Init ==
    /\ sequence = 0 /\ waiting = {} /\ fate = [p \in Plays |-> "new"]
    /\ inFlight = FALSE /\ downloadQueue = <<>> /\ worker = <<>> /\ completeQueue = <<>>
    /\ playing = FALSE /\ buffer = "none" /\ sounding = FALSE /\ overdue = FALSE
    /\ session = 0 /\ pcmQueue = <<>>
    /\ expected = [session |-> 0, next |-> 0]
    /\ mic = TRUE /\ micResume = FALSE
    /\ stream = "off" /\ streams = 0 /\ pcmUsed = FALSE /\ requeued = FALSE
    /\ loop = "idle" /\ depth = 0

isPcmStreamActive == stream # "off"

\* Mutant: the stream is not looked at.
PendingPlays == inFlight \/ waiting # {} \/ pcmQueue # <<>>

hasPendingPlaybackWork ==
    inFlight \/ waiting # {} \/ pcmQueue # <<>> \/ isPcmStreamActive

\* A stream that plays holds the audio gate: the loop task waits for it in vain.
GateFree == stream # "playing"

-----------------------------------------------------------------------------
(* POST /play and play_url: enqueueAudioTask *)

\* Mutant: startPlayback only asks whether the queue has room.
QueueHasRoom == Len(downloadQueue) < DownloadQueueSize

\* startPlayback succeeds.
CanDownload == ~inFlight /\ Len(downloadQueue) < DownloadQueueSize

RequestDownload(play) ==
    /\ inFlight' = TRUE
    /\ downloadQueue' = Append(downloadQueue, play)
    /\ UNCHANGED <<worker, completeQueue>>

\* Only WAV files were ever played.
WavOnly == streams = 0 /\ ~pcmUsed

MayAsk == sequence < MaxPlays /\ (WavOnly \/ sequence < MaxMixedPlays)

Busy == playing \/ inFlight \/ isPcmStreamActive

Accept(f) ==
    /\ sequence' = sequence + 1
    /\ fate' = [fate EXCEPT ![sequence] = f]

PlayQueued ==
    /\ loop = "idle" /\ MayAsk
    /\ Busy /\ Cardinality(waiting) < QueueDepth
    /\ Accept("accepted")
    /\ waiting' = waiting \cup {sequence}
    /\ UNCHANGED <<downloadVars, speakerVars, pcmVars, micVars, streamVars, control>>

PlayRefused ==
    /\ loop = "idle" /\ MayAsk
    /\ IF Busy THEN Cardinality(waiting) >= QueueDepth ELSE ~CanDownload
    /\ Accept("refused")
    /\ UNCHANGED <<waiting, downloadVars, speakerVars, pcmVars, micVars, streamVars, control>>

PlayDownloads ==
    /\ loop = "idle" /\ MayAsk
    /\ ~Busy /\ CanDownload
    /\ Accept("accepted")
    /\ RequestDownload(sequence)
    /\ UNCHANGED <<waiting, speakerVars, pcmVars, micVars, streamVars, control>>

-----------------------------------------------------------------------------
(* downloadTask *)

TakeUrl ==
    /\ worker = <<>> /\ downloadQueue # <<>>
    /\ worker' = <<Head(downloadQueue)>>
    /\ downloadQueue' = Tail(downloadQueue)
    /\ UNCHANGED <<inFlight, completeQueue>>
    /\ UNCHANGED <<queueVars, speakerVars, pcmVars, micVars, streamVars, control>>

\* The result is lost when the complete queue is full.
Downloaded(ok) ==
    /\ worker # <<>>
    /\ ok \/ "download" \in Faults
    /\ completeQueue' = IF Len(completeQueue) < CompleteQueueSize
                        THEN Append(completeQueue, [play |-> worker[1], success |-> ok])
                        ELSE completeQueue
    /\ worker' = <<>>
    /\ UNCHANGED <<inFlight, downloadQueue>>
    /\ UNCHANGED <<queueVars, speakerVars, pcmVars, micVars, streamVars, control>>

-----------------------------------------------------------------------------
(* Starting to play *)

\* prepareSpeakerPlayback and playRaw succeed.
SpeakerStarts(memory) ==
    /\ playing' = TRUE /\ buffer' = memory /\ sounding' = TRUE /\ overdue' = FALSE
    /\ mic' = FALSE

\* startPcmPlayback of a segment when nothing plays.  The gate is free: while
\* nothing plays and a stream does, the segment is refused as busy.
StartPcm(segment) ==
    /\ pcmQueue' = <<>>
    /\ SpeakerStarts(IF segment.freed THEN "freed" ELSE "owned")
    /\ session' = segment.session
    /\ UNCHANGED micResume

StartPcmFails ==
    /\ "speaker" \in Faults
    /\ pcmQueue' = <<>>
    /\ buffer' = "none" /\ mic' = FALSE /\ micResume' = TRUE
    /\ UNCHANGED <<playing, sounding, overdue, session>>

-----------------------------------------------------------------------------
(* POST /play/pcm: handlePlayPcm and startPcmPlayback *)

UsesPcm ==
    /\ sequence <= MaxMixedPlays
    /\ pcmUsed' = TRUE
    /\ UNCHANGED <<stream, streams, requeued>>

ExpectedSeq(s) == IF s = expected.session THEN expected.next ELSE 0

PcmBusy == playing \/ isPcmStreamActive \/ sounding

Advance(segment) ==
    expected' = [session |-> segment.session, next |-> segment.seq + 1]

PcmPlays(segment) ==
    /\ loop = "idle" /\ segment.seq = ExpectedSeq(segment.session) /\ ~PcmBusy
    /\ \/ StartPcm(Queued(segment, FALSE)) /\ Advance(segment)
       \/ StartPcmFails /\ UNCHANGED expected
    /\ UsesPcm
    /\ UNCHANGED <<queueVars, downloadVars, control>>

\* Mutant: the session is not compared.
MayQueueAny(segment) == session # 0 /\ Len(pcmQueue) < PcmSlots

\* enqueuePcmBuffer is tried for a segment of the session that plays.
MayQueue(segment) == session = segment.session /\ Len(pcmQueue) < PcmSlots

\* A segment that is refused as busy changes nothing.
PcmQueued(segment) ==
    /\ loop = "idle" /\ segment.seq = ExpectedSeq(segment.session) /\ PcmBusy
    /\ MayQueue(segment)
    /\ pcmQueue' = Append(pcmQueue, Queued(segment, FALSE))
    /\ Advance(segment)
    /\ UsesPcm
    /\ UNCHANGED session
    /\ UNCHANGED <<queueVars, downloadVars, speakerVars, micVars, control>>

PcmOutOfSequence(segment) ==
    /\ loop = "idle" /\ segment.seq # ExpectedSeq(segment.session)
    /\ pcmQueue' = <<>>
    /\ UsesPcm
    /\ UNCHANGED <<session, expected>>
    /\ UNCHANGED <<queueVars, downloadVars, speakerVars, micVars, control>>

-----------------------------------------------------------------------------
(* updatePlayback: checkPendingPlayback, notifyPlaybackFinished and          *)
(* processAudioQueue                                                         *)

\* Mutant: downloads are only looked at after a playback.
CheckedAfterPlayback == loop = "pending"

CheckingDownloads == loop = "pending" \/ (loop = "idle" /\ ~playing)

NextDownload == Head(completeQueue)

\* Mutant: the in-flight flag is not cleared.
ResolveInFlight(f) ==
    /\ completeQueue' = Tail(completeQueue)
    /\ fate' = [fate EXCEPT ![NextDownload.play] = f]
    /\ UNCHANGED <<inFlight, downloadQueue, worker, sequence, waiting>>

Resolve(f) ==
    /\ completeQueue' = Tail(completeQueue)
    /\ inFlight' = FALSE
    /\ fate' = [fate EXCEPT ![NextDownload.play] = f]
    /\ UNCHANGED <<downloadQueue, worker, sequence, waiting>>

\* The WAV starts: nothing is left of a PCM session.
WavStarts ==
    /\ CheckingDownloads /\ completeQueue # <<>> /\ NextDownload.success /\ GateFree
    /\ Resolve("aired")
    /\ SpeakerStarts("owned")
    /\ session' = 0 /\ pcmQueue' = <<>>
    /\ loop' = "idle" /\ depth' = 0
    /\ UNCHANGED <<expected, micResume, streamVars>>

\* The download failed, the WAV is not valid, the gate is held by a stream or
\* the speaker does not start: the next in the queue is processed.  A new
\* buffer replaces the current one before it is released.
WavFails ==
    /\ CheckingDownloads /\ completeQueue # <<>>
    /\ \/ ~NextDownload.success /\ UNCHANGED <<buffer, mic>>
       \/ NextDownload.success /\ ~GateFree /\ buffer' = "none" /\ UNCHANGED mic
       \/ /\ NextDownload.success /\ GateFree /\ "speaker" \in Faults
          /\ buffer' = "none" /\ mic' = FALSE
    /\ Resolve("failed")
    /\ loop' = "process"
    /\ depth' = IF loop = "pending" THEN depth + 1 ELSE depth
    /\ UNCHANGED <<playing, sounding, overdue, pcmVars, micResume, streamVars>>

NothingDownloaded ==
    /\ loop = "pending" /\ completeQueue = <<>>
    /\ loop' = "next"
    /\ UNCHANGED depth
    /\ UNCHANGED <<queueVars, downloadVars, speakerVars, pcmVars, micVars, streamVars>>

\* Mutant: the buffer is freed without ending the speaker first.
FreeWithoutEnding == playing' = FALSE /\ buffer' = "none" /\ UNCHANGED sounding

\* endSpeakerPlayback and releaseCurrentPlaybackBuffer.
EndPlayback == playing' = FALSE /\ sounding' = FALSE /\ buffer' = "none"

\* The speaker has finished, or should have: it is stopped, and its buffer is
\* freed, unless a stream holds the gate.
PlaybackFinishes ==
    /\ loop = "idle" /\ playing /\ (~sounding \/ overdue)
    /\ GateFree
    /\ EndPlayback
    /\ pcmQueue' = IF overdue THEN <<>> ELSE pcmQueue
    /\ loop' = "process"
    /\ UNCHANGED <<overdue, session, expected, depth>>
    /\ UNCHANGED <<queueVars, downloadVars, micVars, streamVars>>

FinishSkipped ==
    /\ loop = "idle" /\ playing /\ (~sounding \/ overdue)
    /\ ~GateFree
    /\ pcmQueue' = IF overdue THEN <<>> ELSE pcmQueue
    /\ UNCHANGED <<session, expected>>
    /\ UNCHANGED <<queueVars, downloadVars, speakerVars, micVars, streamVars, control>>

\* The head of the PCM queue is popped and started.
ProcessPcm ==
    /\ loop = "process" /\ pcmQueue # <<>> /\ ~PcmBusy
    /\ \/ StartPcm(Head(pcmQueue)) /\ loop' = "return"
       \/ StartPcmFails /\ loop' = "pending"
    /\ UNCHANGED <<expected, depth>>
    /\ UNCHANGED <<queueVars, downloadVars, streamVars>>

\* A stream is active: startPcmPlayback puts the segment back into the queue if
\* its session is the current one; processAudioQueue, which was not told OK,
\* frees its memory all the same.  What the allocator does with memory that is
\* freed twice is left open: the model goes on.
ProcessPcmBusy ==
    /\ loop = "process" /\ pcmQueue # <<>> /\ PcmBusy
    /\ LET segment == Head(pcmQueue)
       IN  IF session = segment.session
           THEN pcmQueue' = Append(Tail(pcmQueue), Queued(segment, TRUE)) /\ requeued' = TRUE
           ELSE pcmQueue' = Tail(pcmQueue) /\ UNCHANGED requeued
    /\ loop' = "pending"
    /\ UNCHANGED <<session, expected, depth, stream, streams, pcmUsed>>
    /\ UNCHANGED <<queueVars, downloadVars, speakerVars, micVars>>

ProcessNoPcm ==
    /\ loop = "process" /\ pcmQueue = <<>>
    /\ loop' = "pending"
    /\ UNCHANGED depth
    /\ UNCHANGED <<queueVars, downloadVars, speakerVars, pcmVars, micVars, streamVars>>

\* Mutant: the comparison of AudioTask is the other way round.
Newest(play) == play \in waiting /\ \A q \in waiting : q <= play

\* s_audioQueue.top(): all plays have the same priority, so the oldest.
Oldest(play) == play \in waiting /\ \A q \in waiting : play <= q

NothingWaits ==
    /\ loop = "next" /\ waiting = {}
    /\ session' = 0
    /\ loop' = "return"
    /\ UNCHANGED <<pcmQueue, expected, depth>>
    /\ UNCHANGED <<queueVars, downloadVars, speakerVars, micVars, streamVars>>

NextDownloads(play) ==
    /\ loop = "next" /\ Oldest(play) /\ CanDownload
    /\ waiting' = waiting \ {play}
    /\ RequestDownload(play)
    /\ loop' = "return"
    /\ UNCHANGED <<sequence, fate, depth>>
    /\ UNCHANGED <<speakerVars, pcmVars, micVars, streamVars>>

\* startPlayback fails: the task is gone and the next one is processed.
NextDropped(play) ==
    /\ loop = "next" /\ Oldest(play) /\ ~CanDownload
    /\ waiting' = waiting \ {play}
    /\ fate' = [fate EXCEPT ![play] = "dropped"]
    /\ loop' = "process"
    /\ UNCHANGED <<sequence, depth>>
    /\ UNCHANGED <<downloadVars, speakerVars, pcmVars, micVars, streamVars>>

\* Mutant: the microphone is not asked for.
AskNothing == UNCHANGED micResume

\* requestMicResume, unless more is to be played.
AskForMic == micResume' = (micResume \/ (~playing /\ ~hasPendingPlaybackWork))

\* Back in checkPendingPlayback or notifyPlaybackFinished, which ask for the
\* microphone; a nested processAudioQueue goes on with the audio queue.
Return ==
    /\ loop = "return"
    /\ AskForMic
    /\ IF depth = 0 \/ playing
       THEN loop' = "idle" /\ depth' = 0
       ELSE loop' = "next" /\ depth' = depth - 1
    /\ UNCHANGED <<mic, queueVars, downloadVars, speakerVars, pcmVars, streamVars>>

-----------------------------------------------------------------------------
(* main.cpp, the speaker and the stream *)

\* loop() takes the request back before it tries to start the microphone.
ResumeMic ==
    /\ loop = "idle" /\ micResume /\ ~playing /\ ~hasPendingPlaybackWork
    /\ micResume' = FALSE
    /\ mic' = TRUE \/ ("mic" \in Faults /\ ~mic /\ UNCHANGED mic)
    /\ UNCHANGED <<queueVars, downloadVars, speakerVars, pcmVars, streamVars, control>>

\* updateMicrophone: M5.Mic.record starts a microphone that does not run, and asks
\* for nothing but that no playback is active and the gate is free.
MicRecords ==
    /\ loop = "idle" /\ ~playing /\ GateFree /\ ~mic
    /\ mic' = TRUE
    /\ UNCHANGED <<micResume, queueVars, downloadVars, speakerVars, pcmVars, streamVars, control>>

SpeakerFinishes ==
    /\ sounding
    /\ sounding' = FALSE
    /\ UNCHANGED <<playing, buffer, overdue>>
    /\ UNCHANGED <<queueVars, downloadVars, pcmVars, micVars, streamVars, control>>

\* Two seconds after it should have finished.
DeadlinePasses ==
    /\ "overdue" \in Faults /\ playing /\ ~overdue
    /\ overdue' = TRUE
    /\ UNCHANGED <<playing, buffer, sounding>>
    /\ UNCHANGED <<queueVars, downloadVars, pcmVars, micVars, streamVars, control>>

\* beginUdpPcmSession, in the loop task.
StreamOpens ==
    /\ loop = "idle" /\ streams < MaxStreams /\ sequence <= MaxMixedPlays
    /\ stream = "off" /\ ~playing /\ ~sounding
    /\ stream' = "buffering" /\ streams' = streams + 1
    /\ UNCHANGED <<pcmUsed, requeued, queueVars, downloadVars, speakerVars, pcmVars, micVars, control>>

\* prepareUdpSpeaker: the microphone and M5.Speaker are ended.
StreamPlays ==
    /\ stream = "buffering"
    /\ stream' = "playing"
    /\ mic' = FALSE /\ sounding' = FALSE
    /\ UNCHANGED <<streams, pcmUsed, requeued, micResume, playing, buffer, overdue>>
    /\ UNCHANGED <<queueVars, downloadVars, pcmVars, control>>

\* finishUdpSession, in pcmStreamTask.
StreamCloses ==
    /\ stream # "off"
    /\ stream' = "off"
    /\ micResume' = (micResume \/ stream = "playing")
    /\ UNCHANGED <<streams, pcmUsed, requeued, mic>>
    /\ UNCHANGED <<queueVars, downloadVars, speakerVars, pcmVars, control>>

-----------------------------------------------------------------------------

Requests ==
    \/ PlayQueued \/ PlayRefused \/ PlayDownloads
    \/ \E segment \in Segments :
          PcmPlays(segment) \/ PcmQueued(segment) \/ PcmOutOfSequence(segment)

UpdatePlayback ==
    \/ WavStarts \/ WavFails \/ NothingDownloaded
    \/ PlaybackFinishes \/ FinishSkipped
    \/ ProcessPcm \/ ProcessPcmBusy \/ ProcessNoPcm
    \/ NothingWaits \/ Return
    \/ \E play \in Plays : NextDownloads(play) \/ NextDropped(play)

DownloadTask == TakeUrl \/ \E ok \in BOOLEAN : Downloaded(ok)

Stream == StreamOpens \/ StreamPlays \/ StreamCloses

Next ==
    \/ Requests \/ UpdatePlayback \/ MicRecords \/ ResumeMic
    \/ DownloadTask \/ SpeakerFinishes \/ DeadlinePasses \/ Stream

Spec == Init /\ [][Next]_vars

\* The tasks are scheduled for ever, downloads end (the HTTP client of
\* audio_download.cpp has a timeout), so do the WAV and the streams; nobody
\* has to send a request.
Fairness ==
    /\ WF_vars(UpdatePlayback)
    /\ WF_vars(ResumeMic)
    /\ WF_vars(DownloadTask)
    /\ WF_vars(SpeakerFinishes)
    /\ WF_vars(StreamCloses)

FairSpec == Spec /\ Fairness
-----------------------------------------------------------------------------
(* Properties *)

\* Every variable of the playback service and of its environment has its type.
FlagTypes ==
    /\ inFlight \in BOOLEAN
    /\ playing \in BOOLEAN /\ buffer \in {"none", "owned", "freed"}
    /\ sounding \in BOOLEAN /\ overdue \in BOOLEAN
    /\ mic \in BOOLEAN /\ micResume \in BOOLEAN
    /\ pcmUsed \in BOOLEAN /\ requeued \in BOOLEAN

DataTypes ==
    /\ sequence \in 0 .. MaxPlays /\ waiting \subseteq Plays
    /\ fate \in [Plays -> Fates]
    /\ downloadQueue \in Seq(Plays)
    /\ worker \in Seq(Plays) /\ Len(worker) <= 1
    /\ completeQueue \in Seq(Downloads)
    /\ session \in 0 .. MaxPcmSessions
    /\ pcmQueue \in Seq(QueuedSegments)
    /\ expected \in [session : 0 .. MaxPcmSessions, next : 0 .. MaxSegments]
    /\ stream \in {"off", "buffering", "playing"} /\ streams \in 0 .. MaxStreams
    /\ loop \in {"idle", "process", "pending", "next", "return"} /\ depth \in Nat

TypeOK == FlagTypes /\ DataTypes

\* s_downloadInFlight is set exactly while one play is in downloadTask or on its
\* way to or from it, so the two FreeRTOS queues never overflow, no result is
\* lost, and the flag cannot stay set for ever.
Downloading == Len(downloadQueue) + Len(worker) + Len(completeQueue)

DownloadToken == Downloading = (IF inFlight THEN 1 ELSE 0)

\* M5.Speaker reads only memory that is still allocated: the current buffer is
\* not released before the speaker is ended (startDownloadedWavPlayback,
\* startPcmPlayback, notifyPlaybackFinished), and none is kept when playback is
\* over.  This holds until a segment is put back into the queue under a stream:
\* from then on the queue holds memory that is freed (FreedIsNotPlayed).
SpeakerReadsBuffer ==
    ~requeued => (sounding => buffer = "owned") /\ (~playing => buffer = "none")

\* M5.Speaker.playRaw is not handed memory that has been released
\* (development-guide.md:258-261).  Violated: processAudioQueue frees the segment
\* that startPcmPlayback has put back, and plays it once the stream is over.
FreedIsNotPlayed == sounding => buffer # "freed"

\* The segments that wait follow one another and end with the one accepted last:
\* whatever starts, clears or refuses segments, a skipped one or one of another
\* session does not come in between, nor move the number that the session of the
\* others expects (development-guide.md:252-254), until a stream is opened.
SegmentsInOrder ==
    streams = 0 =>
        \A i \in DOMAIN pcmQueue :
            /\ pcmQueue[i].session = expected.session
            /\ pcmQueue[i].seq + Len(pcmQueue) + 1 = expected.next + i

\* A play that was answered with success is downloaded, sooner or later, not
\* dropped (development-guide.md:265), as long as nobody uses POST /play/pcm.
NoAcceptedPlayDropped == ~pcmUsed => \A p \in Plays : fate[p] # "dropped"

\* Plays are downloaded first come, first served (development-guide.md:270):
\* none overtakes one that waits, while only WAV files are played.
PlayOrder ==
    [][WavOnly => \A p \in Plays : downloadQueue' = Append(downloadQueue, p)
          => \A q \in waiting : p <= q]_vars

\* The microphone that a WAV playback ended comes back: the device comes to rest
\* without it and without a request to resume it only by an attempt of loop() to
\* start it that failed.
MicLost ==
    loop = "idle" /\ ~playing /\ ~hasPendingPlaybackWork /\ ~mic /\ ~micResume

MicResumeNotLost == [][WavOnly' /\ MicLost' => MicLost \/ ResumeMic]_vars

\* Every play that was accepted is aired or fails to download or to start:
\* nothing waits in a queue that nobody will process, while only WAV files are
\* played.
AcceptedPlayIsServed ==
    \A p \in Plays :
        fate[p] = "accepted" ~> fate[p] \in {"aired", "failed"} \/ ~WavOnly

-----------------------------------------------------------------------------
(* Refinement *)

Use == INSTANCE SpeakerUse WITH micOn <- mic, streaming <- stream = "playing"

\* The playback service shares the peripheral as the rest of the device relies on: a
\* play, from whichever queue, ends the microphone before it sounds and does not start
\* under a stream, and the microphone never starts between two plays or under one.
SharesSpeaker == Use!UseSpec

=============================================================================
