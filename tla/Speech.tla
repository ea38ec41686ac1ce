-------------------------------- MODULE Speech --------------------------------
(***************************************************************************)
(* The tool stackchan_say of mcp_server/mcp_tools.py with the transports   *)
(* of mcp_server/stackchan_client.py, against the device of PlayRequests.  *)
(* One call is served at a time.  With transport auto it tries the TCP     *)
(* stream, then the staged upload, then a WAV; it must not speak twice,    *)
(* and what it reports as said must be heard.  A connection and a session  *)
(* have the number of the call that made them.                             *)
(***************************************************************************)
EXTENDS PlayRequests

CONSTANTS
    AudioMode,      \* STACKCHAN_AUDIO_MODE: "auto" or "pcm"
    PcmTransport,   \* STACKCHAN_PCM_TRANSPORT: "auto", "tcp" or "staged"
    LateReplies,    \* replies the client may give up on: some of LateKinds
    StreamErrors    \* what may break an open stream: some of ErrorKinds

LateKinds == {"segment", "final", "play"}

\* OSError: sendall or the source fails (requests.RequestException is one too).
\* ValueError: the speech exceeds max_pcm_payload_bytes.
ErrorKinds == {"OSError", "ValueError"}

ASSUME SpeechAssumption ==
    /\ AudioMode \in {"auto", "pcm"} /\ PcmTransport \in {"auto", "tcp", "staged"}
    /\ LateReplies \subseteq LateKinds /\ StreamErrors \subseteq ErrorKinds

VARIABLES
    call,       \* the call that is served, the last one when none is
    at,         \* where stackchan_say is in it
    local,      \* its variables: initial_buffer, in slabs, segment_index, and
                \* baseline_playing with baseline_started_ms
    said        \* per call, the transport it was reported as said through

sayVars == <<call, at, local, said>>
vars == <<tcpVars, playRequestVars, sayVars>>

\* Without a status, only "playing" tells that a playback started.
NoBaseline == [playing |-> FALSE, known |-> FALSE, starts |-> 0]

NoLocals == [initial |-> 0, posted |-> 0, baseline |-> NoBaseline]

SpeechInit ==
    /\ TcpInit /\ PlayInit
    /\ call = 0 /\ at = "idle" /\ local = NoLocals
    /\ said = [c \in Callers |-> "none"]

-----------------------------------------------------------------------------
(* How a call goes on *)

Goto(place) == at' = place /\ UNCHANGED <<call, local, said>>

GotoWith(place, locals) == at' = place /\ local' = locals /\ UNCHANGED <<call, said>>

Said(transport) ==
    /\ at' = "idle" /\ local' = NoLocals
    /\ said' = [said EXCEPT ![call] = transport]
    /\ UNCHANGED call

\* An error is returned.
Failed == at' = "idle" /\ local' = NoLocals /\ UNCHANGED <<call, said>>

\* PCM failed and nothing was played: the WAV path, unless PCM is forced.
FallBack == IF AudioMode = "pcm" THEN Failed ELSE GotoWith("wav", NoLocals)

\* The TCP stream failed before it was accepted.
TryStaged == IF PcmTransport = "auto" THEN GotoWith("staged", NoLocals) ELSE FallBack

\* A step that touches neither the network nor the device.
Locally == UNCHANGED <<tcpVars, playRequestVars>>

OnSocket == UNCHANGED playRequestVars

ByHttp == UNCHANGED <<tcpVars, stagingVars, playVars>>

Say ==
    /\ at = "idle" /\ call < MaxStreams
    /\ call' = call + 1
    /\ at' = IF PcmTransport = "staged" THEN "staged" ELSE "tcp"
    /\ Locally /\ UNCHANGED <<local, said>>

-----------------------------------------------------------------------------
(* post_pcm_tcp_stream *)

\* The source breaks, is empty or is too slow: no PcmPlaybackError.
BufferFails ==
    /\ at = "tcp"
    /\ FallBack
    /\ Locally

ConnectFails ==
    /\ at = "tcp" /\ "network" \in StreamFaults
    /\ TryStaged
    /\ Locally

\* The initial buffer is filled before the connection is made.
OpenStream ==
    /\ at = "tcp"
    /\ Connect(call) /\ OnSocket
    /\ \E n \in 1 .. MaxSlabs : GotoWith("greet", [local EXCEPT !.initial = n])

\* Mutant: the initial buffer goes with the header.
GreetEagerly ==
    /\ at = "greet" /\ sock[call].end = "open"
    /\ sock' = [sock EXCEPT ![call].header = TRUE, ![call].sent = local.initial]
    /\ UNCHANGED <<taskVars, bufferVars, speakerVars, mishaps>>
    /\ GotoWith("handshake", [local EXCEPT !.initial = 0]) /\ OnSocket

Greet ==
    /\ at = "greet" /\ SendHeader(call)
    /\ Goto("handshake") /\ OnSocket

Accepted ==
    /\ at = "handshake" /\ sock[call].reply = "OK"
    /\ SendSlabs(call, local.initial) /\ OnSocket
    /\ GotoWith("stream", [local EXCEPT !.initial = 0])

\* ERR BUSY, a broken connection, or no answer within pcm_stream_io_timeout.
NotAccepted ==
    /\ at \in {"greet", "handshake"}
    /\ at = "greet" => sock[call].end = "reset"
    /\ sock[call].reply # "OK" \/ sock[call].end = "reset"
    /\ CloseSocket(call)
    /\ TryStaged /\ OnSocket

SendChunk ==
    /\ at = "stream" /\ SendSlabs(call, 1)
    /\ Goto("stream") /\ OnSocket

\* Only an OSError becomes a PcmPlaybackError that says that audio has started.
StreamBreaks ==
    /\ at = "stream"
    /\ CloseSocket(call) /\ OnSocket
    /\ \E error \in StreamErrors : IF error = "OSError" THEN Failed ELSE FallBack

SourceEnds ==
    /\ at = "stream"
    /\ CloseSocket(call) /\ Said("tcp")
    /\ OnSocket

-----------------------------------------------------------------------------
(* post_pcm_stream, mode=staged *)

\* Before the final segment nothing has started.
StagedSourceFails ==
    /\ at = "staged"
    /\ FallBack
    /\ Locally

PostSegment(final) ==
    /\ at = "staged" /\ local.posted < MaxSegments
    /\ final \/ local.posted + 1 < MaxSegments
    /\ Post([caller |-> call, kind |-> "segment", seq |-> local.posted, final |-> final])
    /\ Goto("posted") /\ ByHttp

\* The number of the segment moves on only when it was accepted.
SegmentAnswered ==
    /\ at = "posted" /\ reply # "none"
    /\ StopWaiting
    /\ CASE reply = "staged" -> GotoWith("staged", [local EXCEPT !.posted = @ + 1])
         [] reply = "playing" -> Said("staged")
         [] reply = "refused" -> FallBack
    /\ ByHttp

\* requests.post times out, though the device may serve it: started is False.
SegmentLate ==
    /\ at = "posted"
    /\ (IF awaited[1].final THEN "final" ELSE "segment") \in LateReplies
    /\ StopWaiting /\ FallBack
    /\ ByHttp

-----------------------------------------------------------------------------
(* The WAV path *)

GenerateFails ==
    /\ at = "wav"
    /\ Failed
    /\ Locally

\* /playback/status: playing is also TRUE while a stream is active.
DevicePlaying == playing \/ isPcmStreamActive

ReadBaseline ==
    /\ at = "wav" /\ loop = "idle"
    /\ GotoWith("play", [local EXCEPT !.baseline =
                            [playing |-> DevicePlaying, known |-> TRUE, starts |-> starts]])
    /\ Locally

BaselineFails ==
    /\ at = "wav"
    /\ Goto("play")
    /\ Locally

PostPlay ==
    /\ at = "play"
    /\ Post([caller |-> call, kind |-> "play"])
    /\ Goto("playPosted") /\ ByHttp

PlayAnswered ==
    /\ at = "playPosted" /\ reply = "queued"
    /\ StopWaiting
    /\ IF local.baseline.playing THEN Said("wav") ELSE Goto("wait")
    /\ ByHttp

PlayLate ==
    /\ at = "playPosted" /\ "play" \in LateReplies
    /\ StopWaiting /\ Failed
    /\ ByHttp

\* wait_for_playback_start.
PollStarted ==
    /\ at = "wait" /\ loop = "idle"
    /\ DevicePlaying \/ (local.baseline.known /\ starts # local.baseline.starts)
    /\ Said("wav")
    /\ Locally

WaitTimesOut ==
    /\ at = "wait"
    /\ Failed
    /\ Locally

-----------------------------------------------------------------------------

StackchanSay ==
    \/ Say
    \/ BufferFails \/ ConnectFails \/ OpenStream \/ Greet \/ Accepted \/ NotAccepted
    \/ SendChunk \/ StreamBreaks \/ SourceEnds
    \/ StagedSourceFails \/ SegmentAnswered \/ SegmentLate
    \/ \E final \in BOOLEAN : PostSegment(final)
    \/ GenerateFails \/ ReadBaseline \/ BaselineFails \/ PostPlay
    \/ PlayAnswered \/ PlayLate \/ PollStarted \/ WaitTimesOut

Breaks == \E s \in Streams : NetworkBreaks(s)

Next ==
    \/ StackchanSay
    \/ (PcmStreamTask \/ Breaks) /\ UNCHANGED <<playRequestVars, sayVars>>
    \/ (LoopTask \/ SpeakerFinishes) /\ UNCHANGED sayVars

Spec == SpeechInit /\ [][Next]_vars

-----------------------------------------------------------------------------
(* Properties *)

\* The state of the device, of the network and of the tool has its type.
TypeOK ==
    /\ StreamTypes /\ SpeakerTypes /\ StagedTypes /\ PlayTypes
    /\ call \in 0 .. MaxStreams
    /\ at \in {"idle", "tcp", "greet", "handshake", "stream", "staged", "posted",
               "wav", "play", "playPosted", "wait"}
    /\ local \in [initial : 0 .. MaxSlabs, posted : 0 .. MaxSegments,
                  baseline : [playing : BOOLEAN, known : BOOLEAN, starts : Nat]]
    /\ said \in [Callers -> {"none", "tcp", "staged", "wav"}]

\* The transports a call was heard through.
HeardThrough(c) == spoken[c] \cup (IF heard[c] = <<>> THEN {} ELSE {"tcp"})

\* A call speaks at most once: once audio may have started it does not fall
\* back to another transport (stackchan_say; development-guide.md:282-283).
SpokenOnce == \A c \in Callers : Cardinality(HeardThrough(c)) <= 1

\* What a call reported as said over PCM was heard when the device is done with
\* it: every slab of the stream, in order, unless a failure that the client cannot
\* see hurt it, and the staged session to its end.
SaidIsHeard == \A c \in Callers :
    /\ said[c] = "tcp" /\ sock[c].stopped =>
          heard[c] = [k \in 1 .. sock[c].sent |-> k] \/ c \in mishaps.hurt
    /\ said[c] = "staged" /\ (\A i \in DOMAIN current : current[i].caller # c) =>
          c \in whole

\* A client that stalls, breaks off or is never answered does not keep
\* pcmStreamTask for ever: it has a step to take that is no failure, unless the
\* loop task holds the gate (PCM_STREAM_HEADER_TIMEOUT_MS,
\* PCM_STREAM_READ_TIMEOUT_MS).
StreamMoves ==
    serving # 0 /\ gate.holder # "loop"
        => ENABLED (PcmProgress /\ UNCHANGED <<playRequestVars, sayVars>>)

Use == INSTANCE SpeakerUse WITH micOn <- mic, streaming <- gate.holder = "pcm"

\* The loop task and pcmStreamTask share the peripheral as the rest of the device
\* relies on, though each may take the gate while the other waits for it: a playback
\* that begins finds no stream, ends the microphone, and it stays off until nobody
\* plays.
SharesSpeaker == Use!UseSpec

=============================================================================
