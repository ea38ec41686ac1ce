------------------------------ MODULE TcpStream ------------------------------
(***************************************************************************)
(* The TCP stream of firmware/src/pcm_stream_service.cpp: pcmStreamTask    *)
(* accepts one client after the other, reads a header, answers OK or       *)
(* ERR BUSY, prebuffers slabs of PCM, takes the audio gate and the speaker *)
(* and plays until the client closes the connection or something fails.    *)
(*                                                                         *)
(* The loop task runs beside it and owns M5.Speaker, the microphone and    *)
(* the decision to resume it; what it does is in PlayRequests.  Steps run  *)
(* from one blocking point of pcmStreamTask to the next, as in UdpAudio.   *)
(***************************************************************************)
EXTENDS AudioGate, Sequences, FiniteSets

CONSTANTS
    MaxStreams,     \* bound on the connections ever made
    MaxSlabs,       \* bound on the slabs a client sends
    Prebuffer,      \* PCM_STREAM_PREBUFFER_BYTES, in slabs
    MaxTorn,        \* bound on the reads that time out within a slab
    MaxBreaks,      \* bound on the connections that the network breaks
    StreamFaults    \* what may fail: some of StreamFaultKinds

StreamFaultKinds == {"network", "stall", "memory", "gate", "driver", "write"}

ASSUME StreamAssumption ==
    /\ MaxStreams \in Nat /\ MaxSlabs \in Nat \ {0}
    /\ Prebuffer \in Nat \ {0}
    /\ MaxTorn \in Nat /\ MaxBreaks \in Nat
    /\ StreamFaults \subseteq StreamFaultKinds

VARIABLES
    sock,       \* per connection: how the client and the network see it
    backlog,    \* connections that wait for s_streamServer.available()
    serving,    \* the connection in handleStreamClient, or 0
    stage,      \* where pcmStreamTask is in it
    eof,        \* eof of playQueuedStream
    taken,      \* s_totalBytes, in slabs
    pending,    \* the slabs read and not yet written
    hand,       \* the slab that is being written, or 0
    submitted,  \* how many written slabs are kept
    slabs,      \* how many slabs are allocated
    heard,      \* per connection, the slabs that reached the speaker (history)
    gate,       \* the audio gate
    mic,        \* M5.Mic.isRunning()
    micResume,  \* s_micResumeRequested
    playing,    \* s_isPlaying
    sounding,   \* M5.Speaker.isPlaying()
    mishaps     \* what went wrong so far (history)

bufferVars == <<eof, taken, pending, hand, submitted, slabs, heard>>
taskVars == <<backlog, serving, stage>>
speakerVars == <<gate, mic, micResume, playing, sounding>>
tcpVars == <<sock, taskVars, bufferVars, speakerVars, mishaps>>

Streams == 1 .. MaxStreams

\* "none" before the client connects; "reset" when the network breaks.
Ends == {"none", "open", "closed", "reset"}

Socks == [end : Ends, header : BOOLEAN, sent : 0 .. MaxSlabs,
          reply : {"none", "OK", "ERR"}, stopped : BOOLEAN]

NoSock == [end |-> "none", header |-> FALSE, sent |-> 0, reply |-> "none", stopped |-> FALSE]

\* torn: slabs whose read timed out half way.  hurt: streams that lost slabs to
\* a failure.
NoMishaps == [torn |-> 0, hurt |-> {}]

TcpInit ==
    /\ sock = [s \in Streams |-> NoSock]
    /\ backlog = <<>> /\ serving = 0 /\ stage = "listen"
    /\ eof = FALSE /\ taken = 0 /\ pending = <<>> /\ hand = 0
    /\ submitted = 0 /\ slabs = 0
    /\ heard = [s \in Streams |-> <<>>]
    /\ gate = FreeGate /\ mic = TRUE /\ micResume = FALSE
    /\ playing = FALSE /\ sounding = FALSE
    /\ mishaps = NoMishaps

\* s_active or s_playing.
isPcmStreamActive == stage \notin {"listen", "header"}

Hurt == [mishaps EXCEPT !.hurt = @ \cup {serving}]

-----------------------------------------------------------------------------
(* The client's side of a connection *)

Connect(s) ==
    /\ sock[s].end = "none"
    /\ sock' = [sock EXCEPT ![s].end = "open"]
    /\ backlog' = Append(backlog, s)
    /\ UNCHANGED <<serving, stage, bufferVars, speakerVars, mishaps>>

SendHeader(s) ==
    /\ sock[s].end = "open"
    /\ sock' = [sock EXCEPT ![s].header = TRUE]
    /\ UNCHANGED <<taskVars, bufferVars, speakerVars, mishaps>>

\* What is sent to a connection that the device has stopped goes nowhere.
SendSlabs(s, n) ==
    /\ sock[s].end = "open" /\ sock[s].sent + n <= MaxSlabs
    /\ sock' = [sock EXCEPT ![s].sent = @ + n]
    /\ UNCHANGED <<taskVars, bufferVars, speakerVars, mishaps>>

CloseSocket(s) ==
    /\ sock' = [sock EXCEPT ![s].end = IF @ = "open" THEN "closed" ELSE @]
    /\ UNCHANGED <<taskVars, bufferVars, speakerVars, mishaps>>

\* The connection breaks: what is under way is lost, in part or in whole.
NetworkBreaks(s) ==
    /\ "network" \in StreamFaults
    /\ Cardinality({u \in Streams : sock[u].end = "reset"}) < MaxBreaks
    /\ sock[s].end \in {"open", "closed"} /\ ~sock[s].stopped
    /\ \E n \in (IF s = serving THEN taken ELSE 0) .. sock[s].sent :
          sock' = [sock EXCEPT ![s].end = "reset", ![s].sent = n]
    /\ mishaps' = [mishaps EXCEPT !.hurt = @ \cup {s}]
    /\ UNCHANGED <<taskVars, bufferVars, speakerVars>>

-----------------------------------------------------------------------------
(* handleStreamClient *)

\* client.stop(); s_active is cleared.
HangUp(reply) ==
    /\ sock' = [sock EXCEPT ![serving].stopped = TRUE, ![serving].reply = reply]
    /\ stage' = "listen" /\ serving' = 0
    /\ UNCHANGED backlog

AcceptClient ==
    /\ stage = "listen" /\ backlog # <<>>
    /\ serving' = Head(backlog) /\ backlog' = Tail(backlog)
    /\ stage' = "header"
    /\ UNCHANGED <<sock, bufferVars, speakerVars, mishaps>>

\* No header within PCM_STREAM_HEADER_TIMEOUT_MS.
RefuseHeader ==
    /\ stage = "header" /\ ~sock[serving].header
    /\ sock[serving].end # "open" \/ "stall" \in StreamFaults
    /\ HangUp("ERR")
    /\ UNCHANGED <<bufferVars, speakerVars, mishaps>>

\* s_active is clear, and no UDP session is considered here.
Busy == playing \/ sounding

RefuseBusy ==
    /\ stage = "header" /\ sock[serving].header /\ Busy
    /\ HangUp("ERR")
    /\ UNCHANGED <<bufferVars, speakerVars, mishaps>>

ServeClient ==
    /\ stage = "header" /\ sock[serving].header /\ ~Busy
    /\ sock' = [sock EXCEPT ![serving].reply = "OK"]
    /\ stage' = "prebuffer"
    /\ eof' = FALSE /\ taken' = 0
    /\ UNCHANGED <<backlog, serving, pending, hand, submitted, slabs, heard>>
    /\ UNCHANGED <<speakerVars, mishaps>>

-----------------------------------------------------------------------------
(* playQueuedStream *)

\* readSlab returns a slab (n = 1), at the end of the stream perhaps a shorter
\* one, or nothing but the end.
Arrives(n, end) ==
    /\ IF n = 1 THEN taken < sock[serving].sent ELSE end
    /\ end => /\ sock[serving].end # "open"
              /\ taken + n = sock[serving].sent

Queued(n) == IF n = 1 THEN Append(pending, taken + 1) ELSE pending

\* client.stop() after the stream.
Stop == HangUp(sock[serving].reply)

\* Until the prebuffer is full or the stream ends, perhaps without a slab.
ReadPrebuffer(n, end) ==
    /\ stage = "prebuffer" /\ Arrives(n, end)
    /\ taken' = taken + n /\ eof' = end /\ slabs' = slabs + n
    /\ pending' = Queued(n)
    /\ IF Queued(n) = <<>> THEN Stop
       ELSE /\ stage' = IF ~end /\ Len(Queued(n)) < Prebuffer THEN "prebuffer" ELSE "gate"
            /\ UNCHANGED <<sock, backlog, serving>>
    /\ UNCHANGED <<hand, submitted, heard, speakerVars, mishaps>>

\* Mutant: the submitted slabs are forgotten.
FreePending(lost) == slabs' = slabs - Len(pending) + lost

\* freeQueue of the pending and of the submitted slabs; the one in hand is freed
\* too.  A slab that a read was filling when it timed out is not.
FreeSlabs(lost) ==
    slabs' = slabs - Len(pending) - submitted - (IF hand # 0 THEN 1 ELSE 0) + lost

DropSlabs(lost) ==
    /\ FreeSlabs(lost)
    /\ pending' = <<>> /\ hand' = 0 /\ submitted' = 0

\* endStreamSpeaker.
EndSpeaker ==
    /\ gate' = Give(gate, "pcm") /\ micResume' = TRUE
    /\ UNCHANGED <<mic, playing, sounding>>

FinishStream(lost) == DropSlabs(lost) /\ EndSpeaker /\ Stop

\* Mutant: the gate is not waited for.
EnterAtOnce ==
    /\ stage = "gate"
    /\ gate' = Take(gate, "pcm", "pcm-stream")
    /\ mic' = FALSE /\ stage' = "settle"
    /\ UNCHANGED <<sock, backlog, serving, bufferVars, micResume, playing, sounding, mishaps>>

\* prepareStreamSpeaker takes the gate and ends the microphone.
EnterGate ==
    /\ stage = "gate" /\ CanTake(gate, "pcm")
    /\ gate' = Take(gate, "pcm", "pcm-stream")
    /\ mic' = FALSE /\ stage' = "settle"
    /\ UNCHANGED <<sock, backlog, serving, bufferVars, micResume, playing, sounding, mishaps>>

GateTimesOut ==
    /\ stage = "gate" /\ ~CanTake(gate, "pcm") /\ "gate" \in StreamFaults
    /\ DropSlabs(0) /\ Stop
    /\ mishaps' = Hurt
    /\ UNCHANGED <<eof, taken, heard, speakerVars>>

\* Mutant: the slab that is written stays in the queue.
WriteAgain(queue) == hand' = Head(queue) /\ pending' = queue /\ stage' = "write"

WriteNext(queue) == hand' = Head(queue) /\ pending' = Tail(queue) /\ stage' = "write"

\* After the delay M5.Speaker is ended, in the middle of a playback if there is
\* one, and the I2S driver is started.
StartDriver ==
    /\ stage = "settle"
    /\ sounding' = FALSE
    /\ WriteNext(pending)
    /\ UNCHANGED <<sock, backlog, serving, eof, taken, submitted, slabs, heard>>
    /\ UNCHANGED <<gate, mic, micResume, playing, mishaps>>

\* The microphone, which has been ended, is not asked for.
DriverFails ==
    /\ stage = "settle" /\ "driver" \in StreamFaults
    /\ sounding' = FALSE /\ gate' = Give(gate, "pcm")
    /\ DropSlabs(0) /\ Stop
    /\ mishaps' = Hurt
    /\ UNCHANGED <<eof, taken, heard, mic, micResume, playing>>

\* The task then waits for the network while less than the prebuffer is queued,
\* even when there are slabs left to write.
SlabWritten ==
    /\ stage = "write"
    /\ heard' = [heard EXCEPT ![serving] = Append(@, hand)]
    /\ IF eof /\ pending = <<>> THEN FinishStream(0)
       ELSE /\ submitted' = IF submitted = 2 THEN 2 ELSE submitted + 1
            /\ slabs' = IF submitted = 2 THEN slabs - 1 ELSE slabs
            /\ IF eof \/ Len(pending) >= Prebuffer THEN WriteNext(pending)
               ELSE stage' = "refill" /\ hand' = 0 /\ UNCHANGED pending
            /\ UNCHANGED <<sock, backlog, serving, speakerVars>>
    /\ UNCHANGED <<eof, taken, mishaps>>

WriteFails ==
    /\ stage = "write" /\ "write" \in StreamFaults
    /\ FinishStream(0)
    /\ mishaps' = Hurt
    /\ UNCHANGED <<eof, taken, heard>>

Refill(n, end) ==
    /\ stage = "refill" /\ Arrives(n, end)
    /\ taken' = taken + n /\ eof' = end
    /\ IF Queued(n) = <<>> THEN FinishStream(0)
       ELSE /\ slabs' = slabs + n
            /\ WriteNext(Queued(n))
            /\ UNCHANGED <<sock, backlog, serving, submitted, speakerVars>>
    /\ UNCHANGED <<heard, mishaps>>

\* Mutant: a slow client is waited for.
StalledForEver == FALSE

\* Nothing more arrives for PCM_STREAM_READ_TIMEOUT_MS.
Stalled == taken = sock[serving].sent /\ sock[serving].end = "open"

Reading == stage \in {"prebuffer", "refill"}

FailRead(lost) ==
    /\ IF stage = "refill" THEN FinishStream(lost)
       ELSE DropSlabs(lost) /\ Stop /\ UNCHANGED speakerVars
    /\ mishaps' = [Hurt EXCEPT !.torn = @ + lost]
    /\ UNCHANGED <<eof, taken, heard>>

\* The read times out, half way through a slab or not (lost = 1 or 0).
ReadTimesOut(lost) ==
    /\ Reading /\ Stalled /\ "stall" \in StreamFaults
    /\ mishaps.torn + lost <= MaxTorn
    /\ FailRead(lost)

\* There is no memory for a slab, or the stream ends in the middle of a sample.
NoMemory == Reading /\ "memory" \in StreamFaults /\ FailRead(0)

-----------------------------------------------------------------------------

\* What the task does without a failure of the device.
PcmProgress ==
    \/ AcceptClient \/ RefuseHeader \/ RefuseBusy \/ ServeClient
    \/ EnterGate \/ StartDriver \/ SlabWritten
    \/ \E n \in {0, 1}, end \in BOOLEAN : ReadPrebuffer(n, end) \/ Refill(n, end)
    \/ \E lost \in {0, 1} : ReadTimesOut(lost)

PcmStreamTask ==
    PcmProgress \/ GateTimesOut \/ DriverFails \/ WriteFails \/ NoMemory

-----------------------------------------------------------------------------
(* Properties *)

\* The state of the TCP stream and of the speaker has its type.
StreamTypes ==
    /\ sock \in [Streams -> Socks]
    /\ backlog \in Seq(Streams) /\ serving \in 0 .. MaxStreams
    /\ stage \in {"listen", "header", "prebuffer", "gate", "settle", "write", "refill"}
    /\ eof \in BOOLEAN /\ taken \in 0 .. MaxSlabs
    /\ pending \in Seq(1 .. MaxSlabs) /\ hand \in 0 .. MaxSlabs
    /\ submitted \in 0 .. 2 /\ slabs \in Nat
    /\ heard \in [Streams -> Seq(1 .. MaxSlabs)]

SpeakerTypes ==
    /\ gate \in Gates
    /\ mic \in BOOLEAN /\ micResume \in BOOLEAN
    /\ playing \in BOOLEAN /\ sounding \in BOOLEAN
    /\ mishaps \in [torn : 0 .. MaxTorn, hurt : SUBSET Streams]

\* pcmStreamTask holds the gate from prepareStreamSpeaker until the stream ends,
\* however it ends, and no longer; while its I2S driver runs, neither the
\* microphone nor M5.Speaker uses the peripheral (startUdpI2s).
StreamHasSpeaker ==
    /\ gate.holder = "pcm" <=> stage \in {"settle", "write", "refill"}
    /\ stage \in {"write", "refill"} => ~mic /\ ~sounding

\* When a stream is over, however it ended, every slab it read was freed,
\* except those that a timed-out readSlab had begun to fill.
SlabsFreed == stage \in {"listen", "header"} => slabs = mishaps.torn

-----------------------------------------------------------------------------
(* Refinement *)

\* A connection is a session from its OK until the task is done with it; it plays
\* from the first slab that is written.
StreamStage ==
    IF ~isPcmStreamActive THEN "closed"
    ELSE IF stage \in {"write", "refill"} THEN "playing" ELSE "open"

Granted == {s \in Streams : sock[s].reply = "OK"}

SlabsHeard == IF isPcmStreamActive THEN {heard[serving][k] : k \in DOMAIN heard[serving]} ELSE {}

SlabsWritten == IF isPcmStreamActive THEN Len(heard[serving]) ELSE 0

Session == INSTANCE AudioSession
    WITH Frames <- 1 .. MaxSlabs, stage <- StreamStage, session <- Cardinality(Granted),
         heard <- SlabsHeard, written <- SlabsWritten

\* The TCP stream keeps the promise the UDP engine keeps, whatever the network does
\* and whoever plays beside it: one connection at a time is served, and each once;
\* it starts playing at most once, and its slabs are heard in order and once each.
StreamIsSession == Session!Spec

=============================================================================
