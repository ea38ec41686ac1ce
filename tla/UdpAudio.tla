------------------------------ MODULE UdpAudio ------------------------------
(***************************************************************************)
(* The UDP PCM session engine of firmware/src/pcm_stream_service.cpp and   *)
(* the two tasks that run it.                                              *)
(*                                                                         *)
(* pcmStreamTask drains the socket (handleUdpPackets) and pumps the        *)
(* playback (pumpUdpPlayback) once per millisecond.  The loop task serves  *)
(* POST and DELETE /audio/session and resumes the microphone.  Both run on *)
(* core 1 with the same priority and share every s_udp* variable without a *)
(* lock; a task loses the processor where it blocks, so the program        *)
(* counters below name the blocking points: waiting for the audio gate,    *)
(* the delays after Mic.end and Speaker.end, and the writes to the I2S DMA *)
(* that wait for room.                                                     *)
(*                                                                         *)
(* The environment sends any datagram at any moment, so what holds here    *)
(* holds for every sender and every network.  A packet that never arrives  *)
(* is lost; one that arrives twice is duplicated.                          *)
(***************************************************************************)
EXTENDS AudioGate, Integers, FiniteSets

CONSTANTS
    MaxFrames,      \* sequence numbers of audio frames are below this bound
    StartFrames,    \* PCM_UDP_START_FRAMES: frames buffered before playing
    RingFrames,     \* PCM_UDP_RING_FRAMES: slots of the jitter buffer
    MaxSessions,    \* bound on the number of sessions ever started
    StopRequests,   \* whether some client uses DELETE /audio/session
    HardwareFails   \* whether the I2S driver and the microphone may fail

ASSUME UdpAssumption ==
    /\ MaxFrames \in Nat \ {0}
    /\ StartFrames \in Nat \ {0}
    /\ RingFrames \in Nat \ {0}
    /\ MaxSessions \in Nat
    /\ StopRequests \in BOOLEAN
    /\ HardwareFails \in BOOLEAN

VARIABLES
    udp,        \* the s_udp* variables of the current session
    last,       \* the s_udpLast* variables: what the last session reported
    issued,     \* number of tokens drawn so far
    gate,       \* the audio gate
    i2s,        \* s_udpI2sRunning: the I2S driver is installed and playing
    mic,        \* M5.Mic.isRunning()
    micResume,  \* s_micResumeRequested
    pc,         \* where pcmStreamTask is
    why,        \* reason argument of the finishUdpSession it is executing
    loop        \* where the loop task is

vars == <<udp, last, issued, gate, i2s, mic, micResume, pc, why, loop>>

-----------------------------------------------------------------------------
(* Data *)

FrameSeqs == 0 .. MaxFrames - 1
Tokens == 1 .. MaxSessions

\* A datagram: the token and sequence number of its header, and whether the
\* END flag is set.  END carries the number of frames sent.
Packets ==
    [tok : Tokens, end : {FALSE}, seq : FrameSeqs]
      \cup [tok : Tokens, end : {TRUE}, seq : 0 .. MaxFrames]

\* How long ago the last packet arrived, as the pump tells it apart: within
\* PCM_UDP_IDLE_END_GRACE_MS, beyond it, beyond PCM_UDP_ACTIVE_TIMEOUT_MS.
Ages == {"fresh", "grace", "timeout"}

Reasons == {"", "preroll-timeout", "speaker-failed", "end", "timeout", "idle",
            "i2s-write-failed", "stopped"}

Sessions ==
    [active : BOOLEAN, token : 0 .. MaxSessions,
     playing : BOOLEAN, ending : BOOLEAN, receivedAny : BOOLEAN,
     first : FrameSeqs, next : 0 .. MaxFrames, highest : FrameSeqs,
     endSeq : 0 .. MaxFrames, ring : SUBSET FrameSeqs,
     received : Nat, lost : Nat, heard : SUBSET FrameSeqs,
     quiet : Ages, prerollOver : BOOLEAN]

\* resetUdpState(false).  s_udpLastPacketMs becomes 0, which a device that has
\* been up for half a minute takes for a very old packet.  "heard" is not in
\* the code: it records which frames reached the speaker.
NoSession ==
    [active |-> FALSE, token |-> 0,
     playing |-> FALSE, ending |-> FALSE, receivedAny |-> FALSE,
     first |-> 0, next |-> 0, highest |-> 0, endSeq |-> 0, ring |-> {},
     received |-> 0, lost |-> 0, heard |-> {},
     quiet |-> "timeout", prerollOver |-> FALSE]

Init ==
    /\ udp = NoSession
    /\ last = [reason |-> "", received |-> 0, lost |-> 0]
    /\ issued = 0
    /\ gate = FreeGate
    /\ i2s = FALSE
    /\ mic = TRUE
    /\ micResume = FALSE
    /\ pc = "idle"
    /\ why = ""
    /\ loop = "idle"

-----------------------------------------------------------------------------
(* Receiving: handleUdpPackets *)

\* A slot is shared by the sequence numbers equal modulo the ring's size.
SameSlot(a, b) == a % RingFrames = b % RingFrames

StoreFrame(u, seq) ==
    [u EXCEPT !.quiet = "fresh",
              !.ring = {s \in @ : ~SameSlot(s, seq)} \cup {seq},
              !.received = @ + 1,
              !.receivedAny = TRUE,
              !.first = IF u.receivedAny THEN @ ELSE seq,
              !.next = IF u.receivedAny THEN @ ELSE seq,
              !.highest = IF u.receivedAny /\ @ >= seq THEN @ ELSE seq]

\* Mutant: late frames are stored too.
ReceivedLate(u, p) ==
    IF ~u.active \/ p.tok # u.token THEN u
    ELSE IF p.end THEN [u EXCEPT !.quiet = "fresh", !.ending = TRUE, !.endSeq = p.seq]
    ELSE IF p.seq \in u.ring THEN [u EXCEPT !.quiet = "fresh"]
    ELSE StoreFrame(u, p.seq)

\* What one datagram does to the session: dropped, END, late or duplicate
\* (only the time of the last packet changes), or stored.
Received(u, p) ==
    IF ~u.active \/ p.tok # u.token THEN u
    ELSE IF p.end THEN [u EXCEPT !.quiet = "fresh", !.ending = TRUE, !.endSeq = p.seq]
    ELSE IF (u.receivedAny /\ p.seq < u.next) \/ p.seq \in u.ring
         THEN [u EXCEPT !.quiet = "fresh"]
    ELSE StoreFrame(u, p.seq)

\* The socket is drained by pcmStreamTask between two pumps and while it waits
\* for room in the DMA buffer, and by the loop task while it writes the fade
\* frame of a DELETE.
DrainsSocket == pc \in {"idle", "write", "fade"} \/ loop = "fade"

HandlePacket(p) ==
    /\ DrainsSocket
    /\ udp' = Received(udp, p)
    /\ UNCHANGED <<last, issued, gate, i2s, mic, micResume, pc, why, loop>>

-----------------------------------------------------------------------------
(* Ending a session: finishUdpSession, by either task *)

\* Mutant: the session is only marked inactive.
CloseWithoutReset(reason) ==
    /\ last' = [reason |-> reason, received |-> udp.received, lost |-> udp.lost]
    /\ udp' = [udp EXCEPT !.active = FALSE]

CloseSession(reason) ==
    /\ last' = [reason |-> reason, received |-> udp.received, lost |-> udp.lost]
    /\ udp' = NoSession

\* Mutant: the gate is not left.
ReleaseKeepingGate(task) ==
    i2s' = FALSE /\ micResume' = TRUE /\ UNCHANGED gate

\* Mutant: the microphone is not asked for.
ReleaseWithoutMic(task) ==
    i2s' = FALSE /\ gate' = Give(gate, task) /\ UNCHANGED micResume

\* stopUdpI2s, audioGateLeave and requestMicResume, for a session that plays.
ReleaseSpeaker(task) ==
    /\ i2s' = FALSE
    /\ gate' = Give(gate, task)
    /\ micResume' = TRUE

EndSession(task, reason) ==
    /\ CloseSession(reason)
    /\ IF udp.playing THEN ReleaseSpeaker(task)
                      ELSE UNCHANGED <<i2s, gate, micResume>>

\* The tail of the last frame is faded out first, which may wait for the DMA;
\* there is nothing to fade when that frame already ended at zero.
MayFade == udp.playing /\ i2s

PcmFinishes(reason) ==
    /\ \/ /\ MayFade
          /\ pc' = "fade" /\ why' = reason
          /\ UNCHANGED <<udp, last, i2s, gate, micResume>>
       \/ /\ EndSession("pcm", reason)
          /\ pc' = "idle" /\ why' = ""
    /\ UNCHANGED <<issued, mic, loop>>

\* The rest of finishUdpSession does not look at the session again, so it runs
\* to its end whatever the other task did while the fade frame was written.
PcmFadeDone ==
    /\ pc = "fade"
    /\ ReleaseSpeaker("pcm")
    /\ CloseSession(why)
    /\ pc' = "idle" /\ why' = ""
    /\ UNCHANGED <<issued, mic, loop>>

-----------------------------------------------------------------------------
(* Playing: pumpUdpPlayback *)

PrerollTimesOut ==
    /\ pc = "idle" /\ udp.active
    /\ ~udp.receivedAny /\ udp.prerollOver
    /\ PcmFinishes("preroll-timeout")

\* Enough is buffered, or END has come: prepareUdpSpeaker asks for the gate.
PrepareSpeaker ==
    /\ pc = "idle" /\ udp.active /\ udp.receivedAny /\ ~udp.playing
    /\ Cardinality(udp.ring) >= StartFrames \/ udp.ending
    /\ pc' = "gate"
    /\ UNCHANGED <<udp, last, issued, gate, i2s, mic, micResume, why, loop>>

\* The gate is taken and the microphone stopped; a delay follows.
GateEntered ==
    /\ pc = "gate" /\ CanTake(gate, "pcm")
    /\ gate' = Take(gate, "pcm", "pcm-udp")
    /\ mic' = FALSE
    /\ pc' = "settle"
    /\ UNCHANGED <<udp, last, issued, i2s, micResume, why, loop>>

GateBusy ==
    /\ pc = "gate" /\ ~CanTake(gate, "pcm")
    /\ PcmFinishes("speaker-failed")

\* startUdpI2s fails: the gate is left and the session ends.
I2sFails ==
    /\ pc = "settle" /\ HardwareFails
    /\ gate' = Give(gate, "pcm")
    /\ CloseSession("speaker-failed")
    /\ pc' = "idle"
    /\ UNCHANGED <<issued, i2s, mic, micResume, why, loop>>

\* The speaker is ready and the same pump goes on at once (the loop task does
\* not run at "play"), without looking again at udp.active.
I2sStarts ==
    /\ pc = "settle"
    /\ i2s' = TRUE
    /\ udp' = [udp EXCEPT !.playing = TRUE]
    /\ pc' = "play"
    /\ UNCHANGED <<last, issued, gate, mic, micResume, why, loop>>

\* The rest of the pump, reached in a later iteration or straight away.
Pumping == pc = "play" \/ (pc = "idle" /\ udp.active /\ udp.receivedAny /\ udp.playing)

\* Mutant: one frame too far.
PastEnd == udp.ending /\ udp.next > udp.endSeq

AtEnd == udp.ending /\ udp.next >= udp.endSeq

EndReached ==
    /\ Pumping /\ AtEnd
    /\ PcmFinishes("end")

StreamTimesOut ==
    /\ Pumping /\ ~udp.ending /\ udp.quiet = "timeout"
    /\ PcmFinishes("timeout")

\* Silence ends the session at once, or after what is still buffered.
IdleEnds ==
    /\ Pumping /\ ~udp.ending /\ udp.quiet = "grace"
    /\ udp.ring = {}
    /\ PcmFinishes("idle")

IdleDrains ==
    /\ Pumping /\ ~udp.ending /\ udp.quiet = "grace"
    /\ udp.ring # {}
    /\ udp' = [udp EXCEPT !.ending = TRUE, !.endSeq = udp.highest + 1]
    /\ pc' = "idle"
    /\ UNCHANGED <<last, issued, gate, i2s, mic, micResume, why, loop>>

\* Mutant: silence stops the pump although the end is known.
FlowingWhileFresh == ~AtEnd /\ udp.quiet = "fresh"

\* Neither an end nor a timeout: there is time to look for a frame.
Flowing == ~AtEnd /\ (udp.ending \/ udp.quiet = "fresh")

\* One slab of one frame: the next frame if it is in the ring, a concealment
\* ramp counted as lost if it is not.  The write follows.  When no END has come
\* and the cursor is past the highest frame received, the pump just returns.
PlayFrame ==
    /\ Pumping /\ Flowing
    /\ udp.ending \/ udp.next <= udp.highest
    /\ udp' = IF udp.next \in udp.ring
              THEN [udp EXCEPT !.ring = @ \ {udp.next}, !.next = @ + 1,
                               !.heard = @ \cup {udp.next}]
              ELSE [udp EXCEPT !.lost = @ + 1, !.next = @ + 1]
    /\ pc' = "write"
    /\ UNCHANGED <<last, issued, gate, i2s, mic, micResume, why, loop>>

WriteDone ==
    /\ pc = "write" /\ i2s
    /\ pc' = "idle"
    /\ UNCHANGED <<udp, last, issued, gate, i2s, mic, micResume, why, loop>>

\* i2s_write fails, as it does when the other task removed the driver.
WriteFails ==
    /\ pc = "write" /\ (HardwareFails \/ ~i2s)
    /\ PcmFinishes("i2s-write-failed")

-----------------------------------------------------------------------------
(* The loop task: sessions over HTTP, and the microphone *)

\* Mutant: a session that is under way is replaced.
BeginWhileActive ==
    /\ loop = "idle" /\ issued < MaxSessions
    /\ issued' = issued + 1
    /\ udp' = [NoSession EXCEPT !.active = TRUE, !.token = issued + 1]
    /\ UNCHANGED <<last, gate, i2s, mic, micResume, pc, why, loop>>

\* beginUdpPcmSession.  The token is esp_random(): fresh here.
BeginUdpPcmSession ==
    /\ loop = "idle" /\ issued < MaxSessions
    /\ ~udp.active /\ ~udp.playing
    /\ issued' = issued + 1
    /\ udp' = [NoSession EXCEPT !.active = TRUE, !.token = issued + 1]
    /\ UNCHANGED <<last, gate, i2s, mic, micResume, pc, why, loop>>

\* stopUdpPcmSession runs finishUdpSession in the loop task.
StopUdpPcmSession ==
    /\ StopRequests
    /\ loop = "idle" /\ udp.active
    /\ \/ /\ MayFade
          /\ loop' = "fade"
          /\ UNCHANGED <<udp, last, i2s, gate, micResume>>
       \/ /\ EndSession("loop", "stopped")
          /\ UNCHANGED loop
    /\ UNCHANGED <<issued, mic, pc, why>>

StopFadeDone ==
    /\ loop = "fade"
    /\ ReleaseSpeaker("loop")
    /\ CloseSession("stopped")
    /\ loop' = "idle"
    /\ UNCHANGED <<issued, mic, pc, why>>

\* loop() takes the request back before it tries to start the microphone.
ResumeMic ==
    /\ loop = "idle" /\ micResume
    /\ ~udp.active /\ ~udp.playing
    /\ micResume' = FALSE
    /\ loop' = IF mic THEN "idle" ELSE "micGate"
    /\ UNCHANGED <<udp, last, issued, gate, i2s, mic, pc, why>>

\* Mutant: the gate is not waited for.
InitMicrophoneAtOnce ==
    /\ loop = "micGate"
    /\ loop' = "micInit"
    /\ UNCHANGED <<udp, last, issued, gate, i2s, mic, micResume, pc, why>>

InitMicrophone ==
    /\ loop = "micGate" /\ CanTake(gate, "loop")
    /\ gate' = Take(gate, "loop", "mic-init")
    /\ loop' = "micInit"
    /\ UNCHANGED <<udp, last, issued, i2s, mic, micResume, pc, why>>

InitMicrophoneSkipped ==
    /\ loop = "micGate" /\ ~CanTake(gate, "loop")
    /\ loop' = "idle"
    /\ UNCHANGED <<udp, last, issued, gate, i2s, mic, micResume, pc, why>>

MicrophoneBegins ==
    /\ loop = "micInit"
    /\ mic' = TRUE \/ (HardwareFails /\ mic' = FALSE)
    /\ gate' = Give(gate, "loop")
    /\ loop' = "idle"
    /\ UNCHANGED <<udp, last, issued, i2s, micResume, pc, why>>

\* updateMicrophone: M5.Mic.record starts a microphone that does not run, whenever
\* it gets the gate, without a request to resume it.
MicRecords ==
    /\ loop = "idle" /\ CanTake(gate, "loop") /\ ~mic
    /\ mic' = TRUE
    /\ UNCHANGED <<udp, last, issued, gate, i2s, micResume, pc, why, loop>>

-----------------------------------------------------------------------------
(* Time *)

\* PCM_UDP_PREROLL_TIMEOUT_MS after the session started.
PrerollElapses ==
    /\ udp.active /\ ~udp.receivedAny /\ ~udp.prerollOver
    /\ udp' = [udp EXCEPT !.prerollOver = TRUE]
    /\ UNCHANGED <<last, issued, gate, i2s, mic, micResume, pc, why, loop>>

\* No packet for another while.  A pump works with the time at which it began,
\* so time that passes while it waits for the gate is seen by the next one.
SilenceGrows ==
    /\ udp.active /\ udp.receivedAny /\ pc \in {"idle", "write"}
    /\ udp.quiet # "timeout"
    /\ udp' = [udp EXCEPT !.quiet = IF @ = "fresh" THEN "grace" ELSE "timeout"]
    /\ UNCHANGED <<last, issued, gate, i2s, mic, micResume, pc, why, loop>>

-----------------------------------------------------------------------------

PcmTask ==
    \/ PrerollTimesOut \/ PrepareSpeaker \/ GateEntered \/ GateBusy
    \/ I2sFails \/ I2sStarts
    \/ EndReached \/ StreamTimesOut \/ IdleEnds \/ IdleDrains
    \/ PlayFrame \/ WriteDone \/ WriteFails
    \/ PcmFadeDone

MicSteps ==
    ResumeMic \/ InitMicrophone \/ InitMicrophoneSkipped \/ MicrophoneBegins

LoopTask ==
    BeginUdpPcmSession \/ StopUdpPcmSession \/ StopFadeDone \/ MicSteps \/ MicRecords

Time == PrerollElapses \/ SilenceGrows

Next ==
    \/ PcmTask
    \/ LoopTask /\ pc # "play"
    \/ Time
    \/ \E p \in Packets : HandlePacket(p)

Spec == Init /\ [][Next]_vars
-----------------------------------------------------------------------------
(* Properties *)

\* Every variable of the session engine and of its two tasks has its type.
TypeOK ==
    /\ udp \in Sessions
    /\ last \in [reason : Reasons, received : Nat, lost : Nat]
    /\ issued \in 0 .. MaxSessions
    /\ gate \in Gates
    /\ i2s \in BOOLEAN /\ mic \in BOOLEAN /\ micResume \in BOOLEAN
    /\ pc \in {"idle", "gate", "settle", "play", "write", "fade"}
    /\ why \in Reasons
    /\ loop \in {"idle", "fade", "micGate", "micInit"}

\* The ledger of pumpUdpPlayback and handleUdpPackets: every position the play
\* cursor has passed was heard exactly once or counted lost, and what is
\* buffered lies ahead of the cursor, each frame alone in its slot.
HeardOrLost ==
    /\ udp.heard \subseteq udp.first .. udp.next - 1
    /\ Cardinality(udp.heard) + udp.lost = udp.next - udp.first

BufferAhead ==
    /\ udp.ring \subseteq udp.next .. udp.highest
    /\ \A a, b \in udp.ring : SameSlot(a, b) => a = b

PlaybackLedger == udp.receivedAny => HeardOrLost /\ BufferAhead

\* The microphone never records while the I2S driver of the stream runs
\* (prepareUdpSpeaker ends it, initMicrophone waits for the gate).
MicSpeakerExclusive == ~(mic /\ i2s)

\* While a session plays, pcmStreamTask holds the gate and the driver runs.
PlayingOwnsSpeaker == udp.playing => i2s /\ gate.holder = "pcm"

\* When no session plays and pcmStreamTask is between two pumps, it has given
\* the gate back: finishUdpSession leaves nothing held.  And the owner label of
\* /playback/status says "none" exactly when the mutex is free (audioGateEnter
\* and audioGateLeave keep the two together).
GateReturned ==
    /\ pc = "idle" /\ ~udp.playing => gate.holder # "pcm"
    /\ gate.owner = "none" <=> gate.holder = "none"

\* Once a session is over and both tasks are at rest, the loop task can take
\* the gate: completion allows the microphone to resume.
MicMayResume ==
    ~udp.active /\ ~udp.playing /\ pc = "idle" /\ loop = "idle"
        => CanTake(gate, "loop")

-----------------------------------------------------------------------------
(* Refinement *)

\* A session is closed when it is no longer active, also while pcmStreamTask still
\* is in a pump that began in it.
Stage == IF ~udp.active THEN "closed" ELSE IF udp.playing THEN "playing" ELSE "open"

\* The cursor moves on with every frame, and those it had to conceal are counted.
Written == IF udp.receivedAny THEN udp.next - udp.first - udp.lost ELSE 0

Session == INSTANCE AudioSession
    WITH Frames <- FrameSeqs, stage <- Stage, session <- issued,
         heard <- udp.heard, written <- Written

\* The engine implements the abstract session: it plays a session at most
\* once, in order, and never frames of another one.
ImplementsSession == Session!Spec

\* Nothing else plays here; while it holds the gate, pcmStreamTask uses the peripheral.
Use == INSTANCE SpeakerUse
    WITH micOn <- mic, playing <- FALSE, streaming <- gate.holder = "pcm"

\* The engine and initMicrophone share the peripheral as the rest of the device
\* relies on: the gate is never taken for a session with the microphone left on, nor
\* is it started meanwhile, though either task may end the session.
SharesSpeaker == Use!UseSpec

=============================================================================
