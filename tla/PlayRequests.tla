---------------------------- MODULE PlayRequests ----------------------------
(***************************************************************************)
(* The loop task beside the TCP stream: the HTTP server takes the requests *)
(* to play one after the other.  POST /play/pcm with mode=staged collects  *)
(* the segments of a session and plays them together when the final one    *)
(* has come (handlePlayPcm, stagePcmPlayback); POST /play asks for a WAV,  *)
(* which is downloaded and played (Playback has its queue in detail).      *)
(***************************************************************************)
EXTENDS TcpStream

CONSTANTS
    MaxSegments,    \* bound on the segments of a staged session
    PlayFaults      \* what may fail: some of PlayFaultKinds

PlayFaultKinds == {"speaker", "download", "memory"}

ASSUME PlayAssumption ==
    /\ MaxSegments \in Nat \ {0}
    /\ PlayFaults \subseteq PlayFaultKinds

VARIABLES
    requests,   \* the requests the HTTP server has not taken up
    awaited,    \* the request whose reply the client waits for, as a sequence
    reply,      \* the reply to it
    diag,       \* s_pcm_diag_session and s_pcm_diag_next_seq
    staged,     \* the s_stagedPcm variables
    current,    \* what M5.Speaker plays or is about to play, as a sequence
    waiting,    \* s_audioQueue: WAV plays by their callers
    inFlight,   \* the WAV that is downloaded, or 0
    starts,     \* how often s_playbackStartMs was set
    loop,       \* "idle" or "starting": the delays of prepareSpeakerPlayback
    spoken,     \* per caller, how M5.Speaker spoke for it (history)
    whole       \* the callers M5.Speaker spoke for to the end (history)

requestVars == <<requests, awaited, reply>>
stagingVars == <<diag, staged>>
playVars == <<current, waiting, inFlight, starts, loop, spoken, whole>>
playRequestVars == <<requestVars, stagingVars, playVars>>

\* A caller has one staged session and at most one WAV at a time.
Callers == Streams

Segments == [caller : Callers, kind : {"segment"}, seq : 0 .. MaxSegments - 1, final : BOOLEAN]
Requests == Segments \cup [caller : Callers, kind : {"play"}]

NotStaged == [session |-> 0, next |-> 0, segments |-> <<>>]

PlayInit ==
    /\ requests = <<>> /\ awaited = <<>> /\ reply = "none"
    /\ diag = [session |-> 0, next |-> 0]
    /\ staged = NotStaged
    /\ current = <<>> /\ waiting = <<>> /\ inFlight = 0 /\ starts = 0 /\ loop = "idle"
    /\ spoken = [c \in Callers |-> {}] /\ whole = {}

streamVars == <<sock, taskVars, bufferVars, mishaps>>

-----------------------------------------------------------------------------
(* The client's side of a request *)

Post(request) ==
    /\ requests' = Append(requests, request)
    /\ awaited' = <<request>> /\ reply' = "none"

\* The client no longer waits; the request may be served all the same.
StopWaiting == awaited' = <<>> /\ reply' = "none" /\ UNCHANGED requests

Answer(request, answer) ==
    /\ reply' = IF awaited = <<request>> THEN answer ELSE reply
    /\ UNCHANGED awaited

-----------------------------------------------------------------------------
(* Playing and its end *)

hasPendingPlaybackWork(wavs, download) == download # 0 \/ wavs # <<>> \/ isPcmStreamActive

\* processAudioQueue: the next WAV is downloaded, and the microphone is asked
\* for when nothing is left to play.
ProcessAudioQueue ==
    /\ IF waiting # <<>>
       THEN inFlight' = Head(waiting) /\ waiting' = Tail(waiting)
       ELSE inFlight' = 0 /\ UNCHANGED waiting
    /\ micResume' = (micResume \/ ~hasPendingPlaybackWork(waiting', inFlight'))

\* startPcmPlayback and startDownloadedWavPlayback take the gate and end the
\* microphone; then they block in prepareSpeakerPlayback.
BeginPlaying(what) ==
    /\ gate' = Take(gate, "loop", IF what.kind = "wav" THEN "wav-play" ELSE "pcm-play")
    /\ mic' = FALSE
    /\ current' = <<what>> /\ loop' = "starting"
    /\ UNCHANGED <<micResume, playing, sounding, waiting, starts, spoken, whole>>

\* playRaw succeeds.  A WAV clears what is staged (clearQueuedPcmPlayback); a
\* staged session is answered, and its sequence numbers go on.
SpeakerStarts ==
    /\ loop = "starting"
    /\ LET what == Head(current) IN
       /\ spoken' = [spoken EXCEPT ![what.caller] = @ \cup {what.kind}]
       /\ IF what.kind = "wav"
          THEN staged' = NotStaged /\ UNCHANGED <<diag, requestVars>>
          ELSE /\ diag' = [session |-> what.caller, next |-> what.request.seq + 1]
               /\ Answer(what.request, "playing") /\ UNCHANGED <<staged, requests>>
    /\ gate' = Give(gate, "loop")
    /\ playing' = TRUE /\ sounding' = TRUE /\ starts' = starts + 1 /\ loop' = "idle"
    /\ UNCHANGED <<mic, micResume, current, waiting, inFlight, whole, streamVars>>

\* Speaker.begin or playRaw fails.
SpeakerFails ==
    /\ loop = "starting" /\ "speaker" \in PlayFaults
    /\ LET what == Head(current) IN
       IF what.kind = "wav"
       THEN ProcessAudioQueue /\ UNCHANGED requestVars
       ELSE /\ micResume' = TRUE
            /\ Answer(what.request, "refused") /\ UNCHANGED <<waiting, inFlight, requests>>
    /\ gate' = Give(gate, "loop")
    /\ current' = <<>> /\ loop' = "idle"
    /\ UNCHANGED <<mic, playing, sounding, starts, spoken, whole, stagingVars, streamVars>>

\* The buffer has been played to its end.
SpeakerFinishes ==
    /\ sounding
    /\ sounding' = FALSE
    /\ whole' = whole \cup {Head(current).caller}
    /\ UNCHANGED <<gate, mic, micResume, playing, streamVars, requestVars, stagingVars>>
    /\ UNCHANGED <<current, waiting, inFlight, starts, loop, spoken>>

\* notifyPlaybackFinished, unless a stream holds the gate.
PlaybackFinishes ==
    /\ loop = "idle" /\ playing /\ ~sounding /\ CanTake(gate, "loop")
    /\ playing' = FALSE /\ current' = <<>>
    /\ ProcessAudioQueue
    /\ UNCHANGED <<gate, mic, sounding, starts, loop, spoken, whole>>
    /\ UNCHANGED <<streamVars, requestVars, stagingVars>>

-----------------------------------------------------------------------------
(* POST /play and the download *)

\* enqueueAudioTask.
HandlePlay ==
    /\ loop = "idle" /\ requests # <<>> /\ Head(requests).kind = "play"
    /\ requests' = Tail(requests)
    /\ Answer(Head(requests), "queued")
    /\ IF playing \/ inFlight # 0 \/ isPcmStreamActive
       THEN waiting' = Append(waiting, Head(requests).caller) /\ UNCHANGED inFlight
       ELSE inFlight' = Head(requests).caller /\ UNCHANGED waiting
    /\ UNCHANGED <<current, starts, loop, spoken, whole, speakerVars, stagingVars, streamVars>>

\* checkPendingPlayback finds the download and the gate is free.
WavDownloaded ==
    /\ loop = "idle" /\ inFlight # 0 /\ ~playing /\ CanTake(gate, "loop")
    /\ BeginPlaying([kind |-> "wav", caller |-> inFlight])
    /\ inFlight' = 0
    /\ UNCHANGED <<requestVars, stagingVars, streamVars>>

\* The download failed, or a stream holds the gate.
WavFails ==
    /\ loop = "idle" /\ inFlight # 0 /\ ~playing
    /\ ~CanTake(gate, "loop") \/ "download" \in PlayFaults
    /\ ProcessAudioQueue
    /\ UNCHANGED <<gate, mic, playing, sounding, current, starts, loop, spoken, whole>>
    /\ UNCHANGED <<requestVars, stagingVars, streamVars>>

-----------------------------------------------------------------------------
(* POST /play/pcm, mode=staged *)

ExpectedSeq(caller) == IF diag.session = caller THEN diag.next ELSE 0

\* Mutant: the stream is not looked at.
BusyPlaying == playing \/ sounding \/ inFlight # 0 \/ waiting # <<>>

StagingBusy ==
    playing \/ sounding \/ isPcmStreamActive \/ inFlight # 0 \/ waiting # <<>>

\* Mutant: a segment of another session is appended to what is staged.
AppendAny(s) ==
    LET segments == Append(staged.segments, s)
    IN  IF s.seq = 0 \/ s.seq = staged.next
        THEN {[session |-> s.caller, next |-> s.seq + 1, segments |-> segments]}
        ELSE {}

\* What is staged after segment s: a new session begins with segment 0 and
\* clears what an older one left.  Empty if s is out of sequence.
Staging(s) ==
    LET begun == staged.session = s.caller
        segments == IF begun THEN Append(staged.segments, s) ELSE <<s>>
    IN  IF s.seq = (IF begun THEN staged.next ELSE 0)
        THEN {[session |-> s.caller, next |-> s.seq + 1, segments |-> segments]}
        ELSE {}

SegmentCame == loop = "idle" /\ requests # <<>> /\ Head(requests).kind = "segment"

\* handlePlayPcm: out of sequence, everything queued and staged is cleared.
SegmentOutOfSequence ==
    /\ SegmentCame
    /\ LET s == Head(requests) IN
       /\ s.seq # ExpectedSeq(s.caller)
       /\ Answer(s, "refused")
    /\ requests' = Tail(requests)
    /\ staged' = NotStaged
    /\ UNCHANGED <<diag, playVars, speakerVars, streamVars>>

\* stagePcmPlayback: busy, or not the segment that continues what is staged.
SegmentRefused ==
    /\ SegmentCame
    /\ LET s == Head(requests) IN
       /\ s.seq = ExpectedSeq(s.caller)
       /\ StagingBusy \/ Staging(s) = {}
       /\ Answer(s, "refused")
    /\ requests' = Tail(requests)
    /\ UNCHANGED <<stagingVars, playVars, speakerVars, streamVars>>

\* reserveStagedPcm fails: what is staged is lost.
SegmentNoMemory ==
    /\ SegmentCame /\ ~StagingBusy /\ "memory" \in PlayFaults
    /\ LET s == Head(requests) IN
       /\ s.seq = ExpectedSeq(s.caller) /\ Staging(s) # {}
       /\ Answer(s, "refused")
    /\ requests' = Tail(requests)
    /\ staged' = NotStaged
    /\ UNCHANGED <<diag, playVars, speakerVars, streamVars>>

SegmentStaged ==
    /\ SegmentCame /\ ~StagingBusy
    /\ LET s == Head(requests) IN
       /\ s.seq = ExpectedSeq(s.caller) /\ ~s.final
       /\ staged' \in Staging(s)
       /\ diag' = [session |-> s.caller, next |-> s.seq + 1]
       /\ Answer(s, "staged")
    /\ requests' = Tail(requests)
    /\ UNCHANGED <<playVars, speakerVars, streamVars>>

\* The final segment: what is staged is taken over and played.
FinalSegment ==
    /\ SegmentCame /\ ~StagingBusy /\ CanTake(gate, "loop")
    /\ LET s == Head(requests) IN
       /\ s.seq = ExpectedSeq(s.caller) /\ s.final
       /\ \E taken1 \in Staging(s) :
             BeginPlaying([kind |-> "staged", caller |-> s.caller, request |-> s,
                           segments |-> taken1.segments])
    /\ requests' = Tail(requests)
    /\ staged' = NotStaged
    /\ UNCHANGED <<awaited, reply, diag, inFlight, streamVars>>

-----------------------------------------------------------------------------

\* main.cpp: shouldResumeMic and initMicrophone (UdpAudio has its steps).
ResumeMic ==
    /\ loop = "idle" /\ micResume /\ ~playing /\ ~hasPendingPlaybackWork(waiting, inFlight)
    /\ micResume' = FALSE /\ mic' = TRUE
    /\ UNCHANGED <<gate, playing, sounding, playRequestVars, streamVars>>

\* Mutant: the gate is not asked for.
RecordsAtOnce ==
    /\ loop = "idle" /\ ~playing /\ ~mic
    /\ mic' = TRUE
    /\ UNCHANGED <<micResume, gate, playing, sounding, playRequestVars, streamVars>>

\* updateMicrophone: M5.Mic.record starts a microphone that does not run, whenever
\* it gets the gate, without a request to resume it.
MicRecords ==
    /\ loop = "idle" /\ ~playing /\ CanTake(gate, "loop") /\ ~mic
    /\ mic' = TRUE
    /\ UNCHANGED <<micResume, gate, playing, sounding, playRequestVars, streamVars>>

LoopTask ==
    \/ SpeakerStarts \/ SpeakerFails \/ PlaybackFinishes
    \/ HandlePlay \/ WavDownloaded \/ WavFails
    \/ SegmentOutOfSequence \/ SegmentRefused \/ SegmentNoMemory
    \/ SegmentStaged \/ FinalSegment
    \/ ResumeMic \/ MicRecords

-----------------------------------------------------------------------------
(* Properties *)

\* What is staged, queued, downloaded and played has its type.
StagedTypes ==
    /\ diag \in [session : 0 .. MaxStreams, next : 0 .. MaxSegments]
    /\ staged \in [session : 0 .. MaxStreams, next : 0 .. MaxSegments, segments : Seq(Segments)]
    /\ requests \in Seq(Requests) /\ awaited \in Seq(Requests) /\ Len(awaited) <= 1

PlayTypes ==
    /\ reply \in {"none", "queued", "staged", "playing", "refused"}
    /\ waiting \in Seq(Callers) /\ inFlight \in 0 .. MaxStreams
    /\ starts \in Nat /\ loop \in {"idle", "starting"}
    /\ spoken \in [Callers -> SUBSET {"staged", "wav"}] /\ whole \subseteq Callers
    /\ (loop = "starting" \/ playing \/ sounding) => Len(current) = 1

\* A staged session is played whole: from segment 0 to the final one, in order,
\* and nothing of another session (stagePcmPlayback, development-guide.md:235).
StagedWhole ==
    \A i \in DOMAIN current : current[i].kind = "staged" =>
        LET segments == current[i].segments
        IN  /\ segments[Len(segments)].final
            /\ \A k \in DOMAIN segments :
                  /\ segments[k].caller = current[i].caller
                  /\ segments[k].seq = k - 1
                  /\ segments[k].final => k = Len(segments)

=============================================================================
