# Stack-chan: a TLA+ model of its audio, its sessions and its bridge

Stack-chan is a small robot (an ESP32-S3 with a speaker, a microphone, a
camera, two servos and a screen) and a Python server that lets a language model
drive it. This directory holds a TLA+ model of the parts whose correctness
depends on the order in which things happen, the TLC configurations that check
it, and proofs of its main safety properties for TLAPS.

All paths below are relative to `src/`.

## 1. The system

### The device (`firmware/src`)

| part | state | operations | runs in |
|---|---|---|---|
| audio gate (`audio_gate.cpp`) | a recursive mutex, an owner label | enter with a timeout, leave | any task |
| streaming sessions (`pcm_stream_service.cpp`) | the session (`s_udp*`): token, jitter buffer, play cursor, end, timers; the I2S driver; what the last session reported | begin, stop, handle a datagram, pump, finish; a TCP stream beside it | `pcmStreamTask`; begin and stop in the loop task |
| playback (`playback_service.cpp`) | the WAV queue, the in-flight flag, two FreeRTOS queues to `downloadTask`, the current buffer, the queued PCM segments, the staged segments | enqueue, download, play, finish, process the queues | loop task; `downloadTask` |
| HTTP server (`http_server.cpp`, `pcm_upload.cpp`) | the sequence number a PCM session expects; the body being uploaded | the routes | loop task |
| main loop (`main.cpp`) | none | serves HTTP and WebSocket, updates playback, resumes the microphone | loop task |
| microphone and recordings (`mic_service.cpp`, `recording_store.cpp`) | recording state, the last recording, the resume request | start, stop, record, resume; store, hand out, clear | loop task |
| WebSocket client (`ws_client_service.cpp`) | connected, PCM session | commands of the bridge; touch and shake events | loop task |
| servos (`servo_service.cpp`, `drivers/SCServo`) | the gesture and its step | move, home, nod, shake, sleep | loop task |
| faces, camera, Wi-Fi, WAV parser | what is drawn; the network | | loop task |

`pcmStreamTask` and the loop task run on one core with the same priority and
share the `s_udp*` variables without a lock. The gate is the only thing that
keeps the microphone, M5.Speaker and the raw I2S driver apart: they use the same
I2S peripheral.

### The server (`mcp_server`, `run_bridge.py`, `scripts`)

| part | state | operations |
|---|---|---|
| client (`stackchan_client.py`) | per call: what was sent, the last status polled | stream speech over UDP or TCP, post segments, poll `/playback/status` |
| MCP tools (`mcp_tools.py`, `server.py`) | none | `stackchan_say` (streams, then falls back to a WAV), the other tools |
| WebSocket bridge (`ws_bridge.py`) | the connection, the time of its last message, two one-shot futures, events, sleep and reaction state | commands, keepalive, idle watcher, reactions to touches and shakes |
| bridge runner (`run_bridge.py`) | commands kept while the link is down | `/cmd`, replay |
| face tracker (`face_tracker.py`) | its thread, the stop event, its status, the misses, the time it found her | start, stop, the loop: picture, detect, move, face |
| audio server, audio processing, telemetry, inbox | | threads, files, counters |
| voice bridge, upload server, frontend scripts (`scripts`) | what was fetched; rate-limit windows | poll recordings, transcribe, wake an agent with retries |

### How they interact, and what is hard

* The client opens a session over HTTP, streams datagrams, and polls the status.
  Datagrams are lost, reordered, duplicated and delayed, also into the next
  session; the reply to the HTTP request may be lost; the client may fail half way.
* `pcmStreamTask` can be interrupted wherever it blocks: waiting for the gate,
  in the delays after `Mic.end()` and `M5.Speaker.end()`, waiting for room in the
  DMA buffer (where it also drains the socket). A DELETE ends the session under
  it, and a new session may begin.
* A playback is started, finished and followed by the next from one loop, but
  `processAudioQueue` and `checkPendingPlayback` call each other, downloads end at
  any time, and a streaming session may open, take the speaker and close between
  any two of their steps.
* The microphone is stopped by every playback and every stream. Each has to ask
  for it when it ends, unless something else is pending, which then has to ask.
  Besides, `updateMicrophone` records whenever nothing plays, and recording starts
  a microphone that does not run.
* Commands go to the device over a link that breaks; they are kept and replayed.
* The threads of the tracker, of `/cmd` and of the tools ask for pictures through
  one slot; the answers of the device name no request.
* The bridge itself reacts to touches and shakes, with timers that outlive the
  reaction they belong to, and sends the device to sleep. A flag that threads and
  the event loop set before a command is sent says whether it sleeps.

### What makes each part correct

* Gate: mutual exclusion, given back by whoever took it, a truthful label.
* Sessions: what is heard is a session's own frames, in order, each at most once;
  every position of the cursor is heard or counted lost; a session that stopped
  receiving ends; the speaker, the gate and the microphone are handed back.
* Client: success is reported only for speech that was heard.
* Playback: an accepted play is aired or fails, in order; no buffer is released
  under the speaker, none is kept; one download at a time; the microphone returns.
* Bridge: an accepted command is sent once, or is still kept, or has expired; a
  dead connection is dropped.
* Companion: a picture goes to whoever asked for it; a tracker that is stopped
  ends; a reaction ends, and not by the timer of an older one; a device that
  sleeps is known to sleep, so that a touch wakes it.

`PROJECT.json` lists every component with its status, and every hazard with its
line and the properties that cover it.

## 2. The modules

| module | models | 
|---|---|
| `AudioGate` | the gate as a value: `CanTake`, `Take`, `Give`; a give by a task that does not hold it leaves it held |
| `AudioSession` | the abstract session: opened, started at most once, frames heard in order and once each, closed; `UdpAudio` and `TcpStream` implement it |
| `SpeakerUse` | the contract about the I2S peripheral: who plays ends the microphone, which starts only while nobody plays; `UdpAudio`, `Playback` and `Speech` implement it, `MicRecorder` relies on it |
| `UdpAudio` | the session engine and the two tasks that run it, for any datagrams at any time |
| `UdpStream` | `UdpAudio` composed with one client and a network |
| `Playback` | the playback service, the download task, the speaker, and what it sees of a stream |
| `CommandQueue` | the commands of `run_bridge.py`, the threads that send them, the event loop and the connections of `ws_bridge.py`, and the device at the other end |
| `MicRecorder` | the microphone, the recording it makes and the store that keeps the last one; extends `SpeakerUse` |
| `VoiceBridge` | `MicRecorder` composed with the clients of the recording: the background script, which wakes a frontend, and the tool `stackchan_listen` |
| `TcpStream` | the TCP stream of the session engine, its connections and what it does to the speaker |
| `PlayRequests` | the loop task beside the TCP stream: staged PCM, WAV requests, the speaker; extends `TcpStream` |
| `Speech` | `PlayRequests` composed with the client: the tool `stackchan_say` and its three transports |
| `Snapshots` | the pictures: the callers of `request_snapshot`, the slot of the future, the answers of the device, the link |
| `FaceTracker` | the thread of the face tracker; extends `Snapshots` |
| `Companion` | the reactions and the sleep mode of `ws_bridge.py`, composed with `FaceTracker` and the clients that take pictures |
| `AudioGate_proofs`, `UdpAudio_proofs`, `UdpSession_proofs`, `Playback_proofs`, `CommandQueue_proofs`, `VoiceBridge_proofs`, `Speech_proofs`, `Companion_proofs` | the theorems |

### UdpAudio

`udp` is the record of the `s_udp*` variables (its fields are named after them),
`last` the `udp_last_*` fields of the status, `pc` and `loop` the points where
`pcmStreamTask` and the loop task block. A step runs from one blocking point to
the next, which is as fine as the two tasks can interleave on one core with
equal priorities, except for time slicing within a step that does not block:
such a preemption (one tick) is not modelled.

* `HandlePacket` is `handleUdpPackets` for one datagram. It runs between pumps,
  and while either task waits for DMA room (`DrainsSocket`).
* `PrerollTimesOut`, `PrepareSpeaker`, `GateEntered`/`GateBusy`,
  `I2sStarts`/`I2sFails`, `EndReached`, `StreamTimesOut`, `IdleEnds`,
  `IdleDrains`, `PlayFrame`, `WriteDone`/`WriteFails` are the branches of
  `pumpUdpPlayback` in its order. `PcmFinishes` and `PcmFadeDone` are
  `finishUdpSession`, which may block once, in the fade.
* `BeginUdpPcmSession` and `StopUdpPcmSession`/`StopFadeDone` are POST and DELETE
  `/audio/session`; `ResumeMic`, `InitMicrophone…`, `MicrophoneBegins` the
  resume of the microphone, and `MicRecords` is `updateMicrophone` starting it.
* Time is abstract: `quiet` is how long ago the last packet came, in the three
  classes the pump distinguishes, and `prerollOver` the preroll timer.

Abstractions: a session token is fresh (`esp_random()` may repeat one), sequence
numbers do not wrap (a stream would have to last a year), a slab is one frame
(`PCM_UDP_SLAB_FRAMES`), the counters of late frames and underruns and the sample
values are left out. `heard` is a history variable, which also counts how often a
frame was written (`Written`), so that the session says "once each".

`SharesSpeaker` maps the engine to `SpeakerUse`: it streams while `pcmStreamTask`
holds the gate, and other sounds the engine does not model. A microphone that
`initMicrophone` fails to start, after `M5.Mic.end()`, is for the contract a
playback that fails to start.

### UdpStream

The client is `post_pcm_udp_stream` with `start_audio_session` and
`wait_for_udp_completion_status`. The network is a set of datagrams: delivering
removes one, `DeliverCopy` leaves it (a duplicate, the delay of a copy into a
later session, or one of the three END datagrams that the client sends: copies of
END are not counted), `Lose` drops it. `RecordHeard` records per session what was heard.

### Playback

Plays are numbered by `s_nextAudioSequence`. `fate` records what became of each.
`loop` says where `updatePlayback` is: `process` (the PCM queue in
`processAudioQueue`), `pending` (its call of `checkPendingPlayback`), `next` (the
WAV queue), `return` (the ask for the microphone on the way out); `depth` counts
the nested calls. The stream is the session of `UdpAudio` reduced to what the
playback service reads: active or not, and holding the gate or not; it opens in
the loop task and plays and closes at any time. Its gate use is exact while no
DELETE interrupts it, which is what `UdpSession_proofs` shows. `SharesSpeaker`
maps it to `SpeakerUse`: it plays while `s_isPlaying` is set.

A queued segment says whether its memory was freed (`freed`), and `buffer` whether
the current one was. `ProcessPcmBusy` is where a segment is put back by
`startPcmPlayback` and freed by `processAudioQueue`; `requeued` remembers that it
happened. What is freed may then be played; that it may be freed twice, and what the
allocator does after that, is left open. `MicRecords` is `updateMicrophone`, which
starts the microphone whenever nothing plays and the gate is free.

`pcmUsed` remembers that a segment was accepted; while it is false and no stream
was opened, WAV files play alone (`WavOnly`), which is the premise of the properties
that a segment or a stream breaks (section 6).

Left out: staged PCM (it is in `PlayRequests`; the PCM frames of the WebSocket use
the same functions), lip sync, the second after which `updatePlayback` starts to look at
the speaker, priorities (every caller uses `PRIORITY_NORMAL`), and out-of-memory
branches.

### TcpStream, PlayRequests and Speech

`TcpStream` is the other half of `pcmStreamTask`. `stage` is where it blocks:
`listen`, `header`, `prebuffer`, `gate` (`enterAudioGate` of
`prepareStreamSpeaker`), `settle` (the delay after `M5.Mic.end()`), `write` and
`refill` (`readSlab` in the playing loop). `eof`, `taken`, `pending` and `hand` are the
variables of `playQueuedStream`; `slabs` counts what is allocated, so that a
forgotten `freeQueue` shows. A slab is the unit of transfer. `AcceptClient`,
`RefuseHeader`, `RefuseBusy`, `ServeClient` are `handleStreamClient`;
`ReadPrebuffer`, `EnterGate`/`GateTimesOut`, `StartDriver`/`DriverFails`,
`SlabWritten`/`WriteFails`, `Refill`, `ReadTimesOut`, `NoMemory` are
`playQueuedStream` in its order. `sock` is a connection as the client and the
network see it; closing it, breaking it and filling it happen at any time.
`StreamIsSession` maps a connection to a session of `AudioSession`, from its OK until
the task is done with it. Where the last slab is written and the connection is
closed in one step, the abstract session is only closed: that this slab was
the next in order is part of `SaidIsHeard`.

`PlayRequests` is what the loop task does meanwhile. `requests` are the HTTP
requests it has not taken up; a client may stop waiting for one that is served
later. `diag` is the sequence number in `http_server.cpp`, `staged` the
`s_stagedPcm*` variables: two checks of one sequence, which do not always agree.
`SegmentOutOfSequence`, `SegmentRefused`, `SegmentNoMemory`, `SegmentStaged` and
`FinalSegment` are `handlePlayPcm` with `stagePcmPlayback`; `HandlePlay`,
`WavDownloaded`, `WavFails` the WAV path; `SpeakerStarts`, `SpeakerFails` what comes
after the delays of `prepareSpeakerPlayback`, in which `pcmStreamTask` runs;
`MicRecords` is `updateMicrophone`.

`Speech` is `stackchan_say`: `at` is how far a call has got, `local` its variables,
`said` what it reported. `BufferFails` to `SourceEnds` are `post_pcm_tcp_stream`,
`StagedSourceFails` to `SegmentLate` `post_pcm_stream`, `GenerateFails` to
`WaitTimesOut` the WAV fallback with `wait_for_playback_start`. `AudioMode` and
`PcmTransport` are the settings of the environment. A failure on the way (the
speech service, the status, a timeout) is possible at any time.

`heard`, `spoken`, `whole` and `mishaps` are history variables. Abstractions: one
call of the tool at a time, as one MCP client makes them; the UDP session does not
run beside a TCP stream here; the end of a playback and the resume of the
microphone are one step each (`Playback` and `UdpAudio` have theirs in detail);
the WAV queue is never full with two calls; the deadline after which a playback
counts as overdue, and the format in the header, are left out.

### CommandQueue

Every POST of a command is a thread; `reply` is how far it has got. `pending` is
`_pending`; `batch` and `flushing` are the local variables of the thread of
`_flush_pending`: what is left of its batch, and the command it waits for.
`tasks` and `draining` are the `_send_json` coroutines, which carry the thread
that waits for them; when it stops waiting they go on without it (`Abandoned`).
`ws`, `handlers` and `closed` are the bridge's connections, numbered as they were
opened; `device` is the one the device believes it has.

* `KeepCommand`, `RejectCommand`, `DispatchCommand` are `do_POST`; `Succeeds` and
  `Fails` are what it and `_flush_pending` do with the result. `TakeBatch`,
  `DropExpired`, `Requeue`, `Replay` are one round of `_flush_pending`. The age
  of a command is compared with the time the batch was taken, so it may expire
  while its batch is sent (`outdated`).
* `SendNothing`, `SendRaises`, `SendWrites` are `_send_json` in the event loop,
  `DrainEnds` the end of its wait for a socket that takes no more, `GivesUp…` the
  timeout of `_run_coro`. A thread may give up too early `MaxTimeouts` times; on
  a connection that the device has left it may always do so.
* `Connect` and `HandlerEnds` are `_handle_connection`, `Reap` is `_keepalive`.
  One flag stands for 65 seconds without a message: `_last_rx` is shared by all
  connections, and the device answers pings.

`Write` merges the write with its arrival: a command that is written is executed
or lost. Left out: `status`, `snapshot` and the commands of the face tracker, the
pauses of `_flush_pending`, and the link noise of a device that is connected but
does not answer for a minute.

### MicRecorder and VoiceBridge

A frame is represented by the number of the capture it belongs to; the microphone
begins a new capture whenever it is started, by `initMicrophone` or by
`M5.Mic.record`; `inits` remembers which of them `initMicrophone` began. (M5Unified
is not part of the repository. That `M5.Mic.record` begins a microphone that does
not run is its behaviour, taken as external; a frame counts for the capture in which
`updateMicrophone` handles it.) `pre` is the pre-trigger ring, its
frames in order, `record` the record buffer while `mic_state` is recording.
`IdleFrame`, `TriggeringFrame`, `Trigger`, `RecordingFrame` and `EndRecording` are
`updateMicrophone` for one frame; whether a frame is loud, and for how long, is a
choice. `Hears` is what they have in common: nothing plays and the gate is free, but
not that the microphone runs. `StoreRecording` discards a recording that is too short or without a
voice, and may find no memory, after the old recording was freed.
`Sound` is what the playback service and the session engine do to the
microphone: any step that `SpeakerUse` allows them, at any time. The services are
proved to keep to it (section 5). `ResumeMic` is the resume of `main.cpp` with
`initMicrophone`, which empties the ring first and may then fail. The request
for it may be there whenever nothing plays: every playback and every stream that
ends may leave it, and more requests than the code makes are only more behaviours.

In `VoiceBridge`, `at` is how far the script and the tool have got, `holds` the
recording they fetched. `AskStatus`, `FetchAudio`, `FetchNothing`, `HearsNothing`
are `capture_ready_recording`; the device answers one request at a time, but
anything may happen between the status and the fetch. `AppendEvent`,
`NotForwarded`, `ForwardToFrontend`, `WakeAccepted`, `WakeBusy`, `WakeFails` are
the rest of the loop; when no answer comes, the frontend may have been woken.
`BridgeStops` covers the end of the script, by hand, by `max-events` or by the
`SystemExit` of an unresolved session, which the handler of the loop does not
catch. `fetched`, `logged` and `woken` are history variables.

The inbox is on (`--no-inbox` is left out), one
voice bridge runs at a time, and the steps of a loop iteration may also happen in
another order.

### Snapshots, FaceTracker and Companion

A caller of `request_snapshot` is `sending` once it has put its future into the
slot and asked the event loop to send, `waiting` once the command is sent;
`call[c].result` is what its future was completed with. `answers` are the requests
that the device has still to answer, in order, by caller; `ws` says whether the
connection in use is open, left by the device without the bridge's knowing, or
gone. `Fails` is every way to end without a picture: the connection, the timeout,
`snapshot_failed`. In the first two the future stays in the slot. An answer
(`Answer`, `_on_binary` or `_on_text`) completes the future in the slot, if its
caller still waits, and empties the slot. `doubt` is a history variable: when the
caller asked, an older request was not over.

`FaceTracker` is `_run`, one step from one wait to the next: `HeadHome`, the loop's
condition (`LoopEnds`), the branch without a link, the picture, its two outcomes,
and the pause. The steps that send a face (`Shows`) change what the device
displays if the link is open; an exception there is swallowed. `happyAt` keeps of
`_happy_at` whether its five seconds are over. The moves of the head, the
detector, and the call after two minutes without her (`_CALL_URLS`, a `play_url`
like those of `CommandQueue`) are left out.

`Companion` adds `_on_touch`, `_on_shake` with their timers, `_idle_watcher`,
`sleep_mode` and `wake_mode`. Time is counted in ticks of about three seconds, which
keep the order of the code's times (2.5 s, 6 s, 8 s = 8 s, 12 s); a timer that is
due runs before the next tick. `calming` are the timers of the touches, the oldest
first, each with whether it has the latest `_touch_gen`; `cooling` is the timer of
the anger. A send raises only in the handler of a connection that the device has left
(`HandlerFails`), which then ends; it may also be lost without an exception.
`sleep_mode` and `wake_mode` are two steps each, the flag in the thread
(`AskToSleep`) and the send in the event loop (`SleepSent`). `asleep` is the
device's servo; a restart of the device wakes it. `missed` is a history variable:
the bridge cleared its flag while a sleep command was on its way, or while the wake
command could not reach the device.

The composition bounds what goes on at once (`Untracked`, `Quiet`, `Alone`,
`Steady`): reactions, sleep mode and the link mix freely while no picture is taken
and the tracker has not run; the tracker starts, and a client asks for a picture,
at rest; while the tracker runs there is one touch at a time. What a reaction and
the tracker share is the face and the link.

Left out: the two awaits that a full socket could add to a small command, faces
set by `/cmd` and by the tools, `get_audio` and its slot (the firmware no longer
uploads recordings, and nothing calls it), the event buffer, the zones of a touch,
and two `track_start` requests at the same time.

## 3. The runs

Only `Companion` checks for deadlock, because there time goes on. In the other runs a
device at rest waits for the next request, and the number of requests is bounded.
`TypeOK` is checked for the session engine and the commands; for the other modules
`TypeCorrect` proves it (section 5), and their runs check what the types do not say.

| run | shows | bounds |
|---|---|---|
| `UdpAudio_stop` | types, `PlaybackLedger`, `PlayingOwnsSpeaker`, and the refinements `ImplementsSession` and `SharesSpeaker`, with DELETE | 2 sessions, 3 frames, a ring of 3, 2 frames to start, failing hardware |
| `UdpStream_client` | `GateReturned`, `SuccessMeansHeard`, without DELETE | 2 sessions of 2 frames, a ring of 2, loss, reordering, one duplicate, failing hardware |
| `UdpStream_live` | `SessionEnds`, `MicComesBack` under fairness | 1 session, 3 frames, a ring of 2, 2 to start, one duplicate, loss, a stalled network, a poll that may give up |
| `Playback` | `DownloadToken` and the refinement `SharesSpeaker` for every mixture; `SpeakerReadsBuffer` until a segment is put back under a stream; `SegmentsInOrder` until a stream is opened; `NoAcceptedPlayDropped` until the first PCM segment; `MicResumeNotLost`, `PlayOrder`, and under fairness `AcceptedPlayIsServed` for WAV plays alone | 5 plays, 3 once segments or streams are used, a queue of 2, 2 PCM sessions of 3 segments, 1 stream, every fault |
| `CommandQueue` | types, `CurrentConnection`, `QueuedIsKept`, `RepeatedOnlyAfterFailure`, and under fairness `QueueDrains`, `ZombieReaped` | a command that can be sent and one that cannot, 3 connections, one early timeout |
| `VoiceBridge` | `GivenOutOnce`, `WokenOnce`, `NoneAcrossInit`, and under fairness `RecordingIsTaken` | a ring of 2 frames, recordings of 3 to 4, 2 captures, 2 recordings, 2 attempts, one stop of the script, one `POST /mode` |
| `Speech` | `SpokenOnce`, `SaidIsHeard`, `StagedWhole`, `SlabsFreed`, `StreamHasSpeaker`, `StreamMoves`, and the refinements `StreamIsSession` and `SharesSpeaker` | 2 calls, streams of 2 slabs, staged sessions of 2 segments, a prebuffer of 1, one broken connection, one torn slab, every fault of the device, replies that come too late (not to a final segment) and errors of a stream (not the payload limit within it) |
| `Companion` | `OwnPicture`, `TouchTakesOver`, `SleepingIsKnown`, and under fairness `StopEnds`, `ReactionsEnd` | the tracker and one client, 2 answers owed, the mixing bounds above |
| `UdpAudio_stop_gate`, `UdpStream_stale`, `CommandQueue_vanish`, `Playback_freed` | deviations, see section 6 | |

Why the bounds are enough: three frames with a ring of three and a start
threshold of two give a full ring, an overwritten slot, a hole, a late and a
duplicate frame, an END before, inside and after the frames. Two sessions are
what it takes for a datagram, a status or a step of the old session to meet the
new one; a third only repeats it, because nothing of the first survives the
second except `last`. Five plays fill the queue of two, one downloading and one
playing, and leave one refused. Two PCM sessions of three segments give two segments
queued behind the one that plays, one of a foreign session, and one out of sequence.
Three connections let the handler of one end after the next was accepted, twice,
and an unknown command beside a known one is what could block the queue. Two
captures and two recordings let a recording be interrupted and resumed, and a
second one replace the first between a status and a fetch, each begun by
`initMicrophone` or by `M5.Mic.record`. Two calls of the tool let a stream that the first abandoned, a request it no longer waits for, or a
session it left staged meet the second; two slabs are one before and one after
the speaker starts, two segments one that is staged and one that plays. Two callers and two answers let a
late answer, a second request and a request that gave up meet; the ticks let two
touches overlap with their timers, and an anger with both. A play beyond the third
meets nothing new in a mixture (`MaxMixedPlays`): one plays, one is downloaded, one
waits.

## 4. Fairness

`UdpStream`: weak fairness of the steps of `pcmStreamTask` and of the loop task's
own steps (their loops have no exit and each step ends: waits for the gate have a
timeout) and of time. Nothing is assumed of the network or of the client.
`Playback`: weak fairness of the loop task, of `downloadTask` (the HTTP client of
`audio_download.cpp` has a timeout), of the speaker (a buffer has a length) and of
the end of a stream. No request is assumed to come.
`CommandQueue`: weak fairness of the threads, of the event loop (sending, draining,
the keepalives and the ends of handlers) and of time. Nothing makes the device
come back, nothing tells the bridge that it has gone, and no thread need give up
before its coroutine has started. `QueueDrains` therefore says "once the device
stays connected".
The start of the microphone by `M5.Mic.record` has no fairness anywhere: nothing
relies on it.
`Speech`: no fairness. That a stream ends is stated as `StreamMoves`: while a
connection is served, some step of `pcmStreamTask` that is no failure of the device
can be taken, unless it waits for the loop task, which gives the gate back in
its next step. The liveness property with two calls takes TLC too long.
`Companion`: weak fairness of the thread of the tracker (each of its waits has a
timeout), of the send it waits for, of the timers of the event loop and of time.
The device need not answer and the link need not last; `ReactionsEnd` says what a
broken link leaves.
`VoiceBridge`: weak fairness of the frames (the loop calls `updateMicrophone` on
every turn) and of the script, and strong fairness of its fetch: the requests to
the device do not fail for ever. Nobody need call the tool, start the script, or
end a playback; its liveness property has what it needs of that as a premise.

## 5. The proofs

All proofs hold for every value of the constants that satisfies the named
assumptions (`UdpAssumption`, `PlaybackAssumption`, `CommandAssumption`,
`RecorderAssumption`, `BridgeAssumption`, `StreamAssumption`, `PlayAssumption`,
`SpeechAssumption`, `SnapshotAssumption`), which TLC also evaluates.

* `UdpAudio_proofs`: `TypeCorrect`; `PlayingOwns` and `MicSpeakerNeverTogether`,
  with DELETE allowed. The inductive invariant relates `pc`, the gate and the
  driver: from "settle" on, and whenever `playing` is set, `pcmStreamTask` holds
  the gate; when the driver runs, so it does; the loop task is in "micInit" only
  while it holds the gate. The point is that a DELETE, although it removes the
  driver, cannot release a gate it does not hold, so it cannot let the
  microphone in. `LedgerBalances` is the ledger of the frames, also with DELETE: it
  needs `PumpGuard`, because a new session may begin while `pcmStreamTask` waits in
  a pump of the old one. If the pump goes on for a session that received nothing, it
  must time out and not play a frame, or the positions passed then would be counted
  in a ledger that begins at the first frame. `EngineImplementsSession` is the
  refinement of `AudioSession`, also with DELETE: every step is a step of the abstract
  session or leaves it unchanged. It needs `ClosedInv` (nothing was received in a closed
  session, and a pump that goes on at once has started to play) and the ledger (what was
  heard lies before the cursor, so no frame is repeated). A session counts as closed as
  soon as it is no longer active: a pump that was under way when a DELETE came may still
  start the driver, but `PumpGuard` lets it only end what it finds, so it plays nothing
  of the session that came after. `EngineSharesSpeaker` follows from the invariant
  of the gate: whatever starts the microphone holds the gate, so nobody streams.
* `UdpSession_proofs`, without DELETE: `GateIsReturned` (with the truth of
  the owner label). `SessionInv` is `GateUse` (who holds the gate, how deep and under
  which label, for each pair of program counters) and `PumpUse` (at each point of the
  pump the session is the one it began with, active and playing). Without `PumpUse`
  `finishUdpSession` could end a session under a gate that the pump does not hold.
* `UdpSession_proofs`, with the client and the network: `StreamRunsTheEngine` (the
  composed system refines the engine, so the theorems above hold of it) and
  `OnlyOwnFramesHeard`, whatever is lost, duplicated, delayed or stopped. Its invariant
  `NetInv` says of every datagram, of the ring and of the frames heard that they were
  sent with their token, and that an END carries the number of frames. `SuccessIsHeard`
  is the soundness of `post_pcm_udp_stream`. The client concludes from three numbers
  of `/playback/status` (reason, received, lost) that everything was heard, and the
  invariants say why it may: `CountInv` (a frame is not counted twice while it may
  still arrive once more), `EndInv` (the reason "end" means the END of this stream, or
  a silence after which nothing comes), `LastInv` (so a session that ended by "end"
  with as many received as sent, none lost, was heard whole) and `VerdictInv` (a
  verdict stays true: nothing more is sent with the token). It has four hypotheses, and TLC
  shows that without each it is false: no DELETE; a poll that does not give up on the
  new session (`UdpStream_stale`); a network that does not fall silent for longer than the
  idle grace in the middle of a stream; and no duplicate, or a ring that holds the whole
  stream: a duplicate that comes after its slot was used again is counted as received.
  The model knows no pacing, so the theorem takes a stream that fits into the ring of
  512 frames. In a longer one a copy does harm only when it comes about 256
  frames late, for the client is never further ahead of the clock than that
  (`stackchan_client.py:520`).
* `Playback_proofs`: `TypeCorrect` and `DownloadTokenCorrect` for every mixture,
  `SpeakerSafe` until a segment is put back into the queue under a stream (from then
  on it is false: run `Playback_freed`), `PlaysAreKept` as long as no PCM segment was accepted, and
  `PlaysKeepTheirOrder` and `MicResumeIsKept` for WAV plays alone. `DownloadToken` is
  inductive with the types alone; the buffer invariant needs to know that a playback
  is finished, and a new one started, only while the stream does not hold the gate, and
  that no queued segment is freed memory until one was put back.
  `PlaysAreKept` needs that the loop task reaches "next" only without a download in
  flight, which is exactly what PCM segments break. `PlaysKeepTheirOrder` and
  `MicResumeIsKept` rest on `WavInv`: while WAV files play alone, nothing waits unless
  something plays, is downloaded or is about to be processed. `SegmentsKeepTheirOrder`,
  as long as no stream was opened: the segments that wait follow each other and end with the one accepted last. Its
  invariant `SegmentsInv` adds that the session which plays, if any, is the one the HTTP
  server expects; the branch that puts a segment back into the queue cannot be taken,
  for `BufferInv` says that nothing plays when the queue is processed, and there is no
  stream. `PlaybackSharesSpeaker`
  holds for every mixture and rests on `BufferInv` too: a playback starts only while
  none plays and the stream does not hold the gate.
* `CommandQueue_proofs`: `TypeCorrect`, `NewestConnectionIsUsed`,
  `QueuedIsKeptOnce` and `OnceUnlessFailed`. `LinkInv` adds to `CurrentConnection` that the socket of the
  device is never among the closed ones and that there is silence only without a
  device: this is why a keepalive cannot reap the connection in use. The queue
  needs `Waiters`: a thread that waits for a coroutine waits for its own command
  and for no other coroutine. Otherwise a result could queue a command that is
  queued already, or settle one that somebody else sends. With both, a command no
  attempt to send has failed has one sender, so `OnceUnlessFailed` follows from
  `RepeatInv`: what was executed is neither new nor waiting to be sent.
* `VoiceBridge_proofs`: `TypeCorrect` and the three invariants of the runs.
  `RecordingsAreWhole` says that no recording spans an `initMicrophone` that started
  the microphone. It rests on `Wholly`: what is in the ring, and in the buffer of a
  recording that goes on, was heard since `initMicrophone` last began a capture, and
  what was stored is older than the next capture; this is why `initMicrophone` must
  reset the ring and the state. It cannot say that a recording is of one capture, for
  a microphone that `M5.Mic.record` starts resets nothing (section 6).
  `RecordingsGivenOutOnce`
  needs `InOrder`: what was given out is older than what is ready, and that is older
  than what is being recorded. `FrontendWokenOnce` follows
  from `Unwoken`, which uses `InOrder`: what the script has fetched nobody else has.
* `Speech_proofs`: `TypeCorrect`, `StreamOwnsSpeaker`, `StagedSessionsAreWhole` and
  `SlabsAreFreed`, whatever fails, `SpokenByOneTransport` and `SaidOverPcmIsHeard`.
  `SpeechInv` is what
  they share: `GateUse` (who holds the gate, for each stage of the stream and of
  the loop task); `StagedInv` (what is staged, and what is about to be played,
  begins a session with segment 0 and has no gap); `SlabInv` (the slabs allocated
  are those that are pending, submitted, in hand or torn, and where each may be);
  and that a reply fits the request it answers. `SpokenByOneTransport` assumes that
  neither a final segment is given up ("final" not in `LateReplies`) nor a stream
  that has begun is taken for one that did not ("ValueError" not in
  `StreamErrors`): without either, the call may speak twice (section 6). Its invariant `OnceInv` follows what may still be
  heard, not only what was: `Exclusive` says that a call with something on its way
  by one transport (slabs sent, a final segment or a play that is queued, started
  or downloaded) has nothing on its way by another and will not try one. For that
  the final segment must be at one place only (`FinalOnce`), a refused one nowhere
  (`Refused`), and what is heard by TCP must have been sent (`ReadWasSent`).
  `SaidOverPcmIsHeard` holds whatever fails and whoever gives up. For a stream:
  `Pipeline` (the slabs heard, in hand and queued are 1 .. `taken` in this order, and
  the end that was read is the end of what was sent) makes each connection that is
  stopped `HeardOut`. For a staged session nobody may cut it short, and this needs
  what the tool does as well: `ClientInv` says that only the call that streams has an
  open connection and that nothing is sent before OK, so while a call waits for its
  final segment a stream that slips in during the delay of `prepareSpeakerPlayback`
  (neither `playing` nor `sounding` yet) is closed and empty (`Undisturbed`): it
  never comes to the gate or to `M5.Speaker.end`. `StreamImplementsSession` is the
  refinement of `AudioSession` by the TCP stream, beside the loop task and whatever the
  client and the network do; with `Pipeline` the slab in hand comes after all that were
  heard. `SpeechSharesSpeaker` needs `GateUse` and `MicEnded` (the microphone is off
  while the loop task waits in `prepareSpeakerPlayback`).
* `Companion_proofs`: `TypeCorrect`, which needs `TimersInOrder` (the ages of the
  timers never grow along the queue, so the first is the one that is due, and only
  the last has the latest generation); `LaterTouchTakesOver` follows from the same.
  `SleepIsKnown` needs that a sleep command still to be sent leaves the flag set or
  counts as `missed`. `OwnPictureGiven`, for any number of callers, rests on
  `Unmixed`: while the future of a caller without doubt is in the slot, every
  answer the device owes is for that caller and nobody else is about to ask.
* `AudioGate_proofs` are the lemmas about `Take` and `Give`.

The theorems on `SpeakerUse` discharge an assumption: those of `VoiceBridge_proofs` hold of a
recorder beside a device that keeps to `SpeakerUse`, and `EngineSharesSpeaker`,
`PlaybackSharesSpeaker` and `SpeechSharesSpeaker` say that the models of the rest of the
device do. (They say it of each model, not of all of them running at once: each has the
gate, or what it sees of it.)

Only model-checked: liveness, and `StreamMoves`, which is stated with ENABLED.

## 6. Deviations found

Each is a run that ends in a counterexample and an entry of `findings`.

* `UdpAudio_stop_gate`: a DELETE while a session plays leaves the gate held for
  ever by `pcmStreamTask`; the microphone and every playback are then refused.
* `UdpStream_stale`: the client may take the completion of the session before
  for its own. `UdpStream_client` therefore assumes that the poll does not give up.
* `CommandQueue_vanish`: when the connection goes between the check of the sending
  thread and `_send_json`, nothing is sent and the command is answered "ok".
* `Playback_freed`: a segment that is popped while a stream is active is put back
  into the queue by `startPcmPlayback`, which answers that it is queued, and freed by
  `processAudioQueue`, which was not told OK. Once the stream is over the freed memory
  is played (24 states: a `/play` waits behind a PCM session, the stream opens between
  the two segments, and the download fails); a WAV that starts would free it again.
  `SpeakerReadsBuffer` therefore speaks of the time before.

The premises of the passing properties leave out a few more situations in which
the same would fail, and for the same kind of reason: a PCM segment that is played
during a download makes `processAudioQueue` drop the next play (so
`NoAcceptedPlayDropped` speaks of the time before the first segment); a play that
was queued behind a stream is not served when the stream ends, and is overtaken by
the next; a playback that ends while a stream is buffering does not ask for the
microphone, nor does the stream if it never played (so `AcceptedPlayIsServed`,
`PlayOrder` and `MicResumeNotLost` speak of WAV plays alone, `WavOnly`); frames that
arrive while a silent stream is being drained are received but not written; a
segment that finds a stream active is put back into the queue (and freed, above),
behind those that were queued after it (so `SegmentsInOrder` speaks of the time before
the first stream); and when
a queued segment starts, those behind it are freed unheard
(`startPcmPlayback` begins with `clearQueuedPcmPlayback`).
A session that received fewer frames than it takes to start, and lost its END, is
never ended by the device, although the client waits for its completion
(the second part of `SessionEnds` is about sessions without a frame).

Of the TCP stream and of `stackchan_say`: a slab that a timed-out read had begun to
fill is not freed (`SlabsFreed` counts it as `torn`); when fewer slabs than the
prebuffer are queued the task waits for the network although it has slabs to
write; the microphone is not asked for when `startUdpI2s` fails; the stream does
not look at a download in flight, so it may fail or cut the WAV of a caller who was
told that it plays, and a WAV queued behind a stream stays in the queue when the
stream ends; a final segment whose reply is lost is played, and the call speaks
again as a WAV (`SpokenOnce` with "final" in `LateReplies`); and so it does when the
speech exceeds the size limit after the stream has begun to play, for that
`ValueError` does not say that it has (`SpokenOnce` with "ValueError" in
`StreamErrors`, although `docs/development-guide.md:282-283` promises an error
"instead of falling back to WAV to avoid duplicate speech").

Of the microphone: `updateMicrophone` does not look at what is pending, and
`M5.Mic.record` starts what does not run. So the microphone starts between two plays
and during a download, although `docs/consecutive-audio-troubleshooting-2026-07-03.md:54-55`
says that it is resumed only when no playback, download or queued work remains
(`SharesSpeaker` says only that it starts while nothing plays). And it is usually running when
`main.cpp` comes to the resume, which then leaves `initMicrophone` out: the ring,
which `mic_service.cpp:115` says is reset at every resume, keeps frames from before
the playback, and a recording that was interrupted goes on (so `NoneAcrossInit` speaks
of an `initMicrophone` that did start the microphone).

A recording that was fetched is lost when the transcription, the inbox or the
script fails after it: the device gives nothing out twice.

Of the bridge as a companion: a second request for a picture takes the slot of the
first, which then waits in vain, although the class calls itself "Thread-safe"
(`mcp_server/ws_bridge.py:38`); the answer to a request that timed out goes to the
next one (`doubt`). The timer of an anger has no generation and ends a later touch's
face; a face is left standing when the link breaks before its timer, and the
anxious or happy face of a tracker that was stopped. The tracker's status may become
"tracking" or "lost" again after `stop`, and a `track_start` that comes before the
thread has seen the stop is answered "already tracking", but the thread ends. The
idle watcher ends for good when its send meets a closed connection
(`ws_bridge.py:198`). A touch that comes between the flag and the command of
`sleep_mode`, or a wake command that is lost, leaves the device asleep with the
flag cleared: a touch no longer wakes it (`missed`). Commands and the tracker do not
count as activity, so a robot in use is put to sleep. `get_audio` says "The bridge
auto-polls when it receives audio_ready" (`ws_bridge.py:336`); `_on_text` says it does
not.

## 7. What is left

The order of the work was: what the robot says (audio), then what it is told
(commands), then what it hears, then what it does by itself. Left:

1. `ServoGesture` and the motion queue of `servo_service.cpp`.
2. A tracker whose call plays through the same link, and faces set by tools beside
   the reactions; the abstract specification of one reaction at a time, which the
   code does not refine (the anger, above).

## 8. Not modelled

Drawing, the camera, Wi-Fi, the servo register protocol, the WAV parser, file
and text handling, the speech services and the deployment scripts: they compute
or forward data and have no protocol of their own. The upload server is HTML,
transcoding and calls; its rate limiter is one method under a lock (the clock is
read before it, so two concurrent uploads may be entered in the other order, which
moves the end of a window by that much). Security is not a subject of this model.
