---------------------------- MODULE AudioSession ----------------------------
(***************************************************************************)
(* What a streaming session promises, whatever its buffering, timeouts and *)
(* tasks: sessions follow one another; each is opened, starts playing at   *)
(* most once and is closed; while it plays, frames are heard in the order  *)
(* of their sequence numbers, each at most once.  The UDP engine (UdpAudio)*)
(* and the TCP stream (TcpStream) implement it.                            *)
(***************************************************************************)
EXTENDS Naturals

CONSTANT Frames     \* the sequence numbers a frame may have

VARIABLES
    stage,          \* "closed", "open" (buffering) or "playing"
    session,        \* how many sessions were opened
    heard,          \* the frames of the current session that were heard
    written         \* how many times a frame of it was written to the speaker

vars == <<stage, session, heard, written>>

Init == stage = "closed" /\ session = 0 /\ heard = {} /\ written = 0

Open ==
    /\ stage = "closed"
    /\ stage' = "open" /\ session' = session + 1
    /\ heard' = {} /\ written' = 0

Start ==
    /\ stage = "open"
    /\ stage' = "playing"
    /\ UNCHANGED <<session, heard, written>>

Hear(f) ==
    /\ stage = "playing"
    /\ \A g \in heard : g < f
    /\ heard' = heard \cup {f} /\ written' = written + 1
    /\ UNCHANGED <<stage, session>>

Close ==
    /\ stage # "closed"
    /\ stage' = "closed" /\ heard' = {} /\ written' = 0
    /\ UNCHANGED session

Next == Open \/ Start \/ (\E f \in Frames : Hear(f)) \/ Close

Spec == Init /\ [][Next]_vars
=============================================================================
