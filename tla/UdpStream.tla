------------------------------ MODULE UdpStream ------------------------------
(***************************************************************************)
(* One Python client (post_pcm_udp_stream and wait_for_udp_completion_     *)
(* status of mcp_server/stackchan_client.py) streaming to the session      *)
(* engine of UdpAudio over a network that loses, delays, reorders and      *)
(* duplicates datagrams.  The client opens a session over HTTP, sends      *)
(* numbered frames and then END, polls /playback/status and from it decides*)
(* whether the speech was played.                                          *)
(***************************************************************************)
EXTENDS UdpAudio

CONSTANTS
    MaxDuplicates,  \* bound on the frames that arrive and leave a copy in the network
    PollMayGiveUp,  \* whether the status poll may time out or fail
    NetworkStalls   \* whether a gap of the stream may outlast the idle grace

ASSUME StreamAssumption ==
    /\ MaxDuplicates \in Nat
    /\ PollMayGiveUp \in BOOLEAN
    /\ NetworkStalls \in BOOLEAN

VARIABLES
    phase,      \* the client is "idle", "sending" or "polling"
    stream,     \* token of the session it streams to, 0 when it is idle
    sent,       \* per session, how many frames were sent
    polled,     \* udp_last_* fields of the last status polled, or NoStatus
    verdict,    \* per session, what the client reported
    net,        \* datagrams under way
    duplicates, \* how many frames were duplicated so far
    heardBy     \* per session, the frames that reached the speaker

clientVars == <<phase, stream, sent, polled, verdict>>
netVars == <<net, duplicates>>
streamVars == <<vars, clientVars, netVars, heardBy>>

NoStatus == [reason |-> "no status", received |-> 0, lost |-> 0]

StreamInit ==
    /\ Init
    /\ phase = "idle" /\ stream = 0
    /\ sent = [t \in Tokens |-> 0]
    /\ polled = NoStatus
    /\ verdict = [t \in Tokens |-> "none"]
    /\ net = {} /\ duplicates = 0
    /\ heardBy = [t \in Tokens |-> {}]

-----------------------------------------------------------------------------
(* The client *)

\* start_audio_session succeeds.
StartAudioSession ==
    /\ phase = "idle"
    /\ BeginUdpPcmSession
    /\ phase' = "sending" /\ stream' = issued'
    /\ UNCHANGED <<sent, polled, verdict, netVars>>

\* The device opened the session but its reply never came: nobody streams.
StartReplyLost ==
    /\ phase = "idle"
    /\ BeginUdpPcmSession
    /\ UNCHANGED <<clientVars, netVars>>

SendFrame ==
    /\ phase = "sending" /\ sent[stream] < MaxFrames
    /\ net' = net \cup {[tok |-> stream, end |-> FALSE, seq |-> sent[stream]]}
    /\ sent' = [sent EXCEPT ![stream] = @ + 1]
    /\ UNCHANGED <<vars, phase, stream, polled, verdict, duplicates>>

\* END carries the number of frames sent.
EndPacket == [tok |-> stream, end |-> TRUE, seq |-> sent[stream]]

\* The text is spoken.
SendEnd ==
    /\ phase = "sending" /\ sent[stream] > 0
    /\ net' = net \cup {EndPacket}
    /\ phase' = "polling" /\ polled' = NoStatus
    /\ UNCHANGED <<vars, stream, sent, verdict, duplicates>>

Report(v) ==
    /\ verdict' = [verdict EXCEPT ![stream] = v]
    /\ phase' = "idle" /\ stream' = 0
    /\ UNCHANGED <<sent, polled>>

\* The source of the speech fails or is too slow: the client raises and leaves
\* the session to the device.
StreamFails ==
    /\ phase = "sending"
    /\ Report("error")
    /\ UNCHANGED <<vars, netVars>>

\* Mutant: it is enough that something was received.
JudgeAnyReceived(status) ==
    IF /\ status # NoStatus
       /\ status.received > 0
       /\ status.lost = 0
       /\ status.reason \in {"", "end"}
    THEN "ok" ELSE "error"

\* How post_pcm_udp_stream judges the status it ends with.
Judge(status) ==
    IF /\ status # NoStatus
       /\ status.received > 0 /\ status.received >= sent[stream]
       /\ status.lost = 0
       /\ status.reason \in {"", "end"}
    THEN "ok" ELSE "error"

SessionOver == ~udp.active /\ ~udp.playing /\ udp.token \in {0, stream}

\* The loop task answers a poll; the client returns when the session is over.
PollStatus ==
    /\ phase = "polling" /\ loop = "idle"
    /\ IF SessionOver
       THEN Report(Judge(last))
       ELSE polled' = last /\ UNCHANGED <<phase, stream, sent, verdict>>
    /\ UNCHANGED <<vars, netVars>>

\* The poll window closes or a request fails: the last status polled counts.
PollGivesUp ==
    /\ PollMayGiveUp /\ phase = "polling"
    /\ Report(Judge(polled))
    /\ UNCHANGED <<vars, netVars>>

-----------------------------------------------------------------------------
(* The network *)

Deliver(p) ==
    /\ HandlePacket(p)
    /\ net' = net \ {p}
    /\ UNCHANGED <<clientVars, duplicates>>

\* A duplicate; or one of the END datagrams, of which the client sends three.
DeliverCopy(p) ==
    /\ HandlePacket(p)
    /\ \/ ~p.end /\ duplicates < MaxDuplicates /\ duplicates' = duplicates + 1
       \/ p.end /\ UNCHANGED duplicates
    /\ UNCHANGED <<clientVars, net>>

Lose(p) ==
    /\ net' = net \ {p}
    /\ UNCHANGED <<vars, clientVars, duplicates>>

\* The stream of the current session has a gap longer than the idle grace only
\* when nothing more will come, unless the network or the client stalls.
StreamOver ==
    /\ ~(phase = "sending" /\ stream = udp.token)
    /\ \A p \in net : p.tok # udp.token

-----------------------------------------------------------------------------

LoopSteps == StopUdpPcmSession \/ StopFadeDone \/ MicSteps \/ MicRecords

Client ==
    \/ StartAudioSession \/ StartReplyLost
    \/ SendFrame \/ SendEnd \/ StreamFails
    \/ PollStatus \/ PollGivesUp

RecordHeard ==
    heardBy' = IF udp.token \in Tokens /\ udp'.token = udp.token
               THEN [heardBy EXCEPT ![udp.token] = udp'.heard]
               ELSE heardBy

\* A step of the device's own.
Runs(A) == A /\ RecordHeard /\ UNCHANGED <<clientVars, netVars>>

LoopRuns(A) == Runs(A /\ pc # "play")

TimePasses == SilenceGrows /\ (NetworkStalls \/ StreamOver)

Device ==
    \/ Runs(PcmTask) \/ LoopRuns(LoopSteps)
    \/ Runs(PrerollElapses) \/ Runs(TimePasses)

Network == \E p \in net : Deliver(p) \/ DeliverCopy(p) \/ Lose(p)

StreamNext == Device \/ ((Client \/ Network) /\ RecordHeard)

StreamSpec == StreamInit /\ [][StreamNext]_streamVars

\* Both tasks are scheduled for ever (their loops have no exit) and time
\* passes.  Nothing makes the network deliver or the client send, nor M5.Mic.record
\* start a microphone that was ended.
Fairness ==
    /\ WF_streamVars(Runs(PcmTask))
    /\ WF_streamVars(LoopRuns(StopFadeDone)) /\ WF_streamVars(LoopRuns(MicSteps))
    /\ WF_streamVars(Runs(PrerollElapses)) /\ WF_streamVars(Runs(TimePasses))

FairStreamSpec == StreamSpec /\ Fairness

-----------------------------------------------------------------------------
(* Properties *)

\* Only frames sent by the owner of a session are heard in it.
OnlySentIsHeard == \A t \in Tokens : heardBy[t] \subseteq 0 .. sent[t] - 1

\* And when post_pcm_udp_stream reports success, all of them were.
SuccessMeansHeard ==
    /\ OnlySentIsHeard
    /\ \A t \in Tokens : verdict[t] = "ok" => heardBy[t] = 0 .. sent[t] - 1

\* Success is never reported for a session of which the device heard nothing
\* (stackchan_client.py:688).
NothingHeardIsNoSuccess ==
    \A t \in Tokens : verdict[t] = "ok" => heardBy[t] # {}

\* A session that plays stops playing: by END, by silence or by a failure.  One
\* of which nothing arrives is closed by the preroll timer.
SessionEnds ==
    /\ udp.playing ~> ~udp.playing
    /\ (udp.active /\ ~udp.receivedAny) ~> (udp.receivedAny \/ ~udp.active)

\* The microphone that a session stopped runs again once the device is idle.
MicComesBack == ~mic ~> (mic \/ udp.active)

=============================================================================
