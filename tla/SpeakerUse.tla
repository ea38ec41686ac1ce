------------------------------ MODULE SpeakerUse ------------------------------
(***************************************************************************)
(* The I2S peripheral of the device is shared by the microphone, the       *)
(* playback service and the streaming engine.  What each of them keeps to: *)
(* whoever plays ends the microphone first, and the microphone starts only *)
(* while nobody plays.  UdpAudio, Playback and Speech implement it, each   *)
(* for the part it models; MicRecorder relies on it for the rest of the    *)
(* device.                                                                 *)
(***************************************************************************)

VARIABLES
    micOn,     \* M5.Mic.isRunning()
    playing,   \* s_isPlaying of the playback service
    streaming  \* pcmStreamTask holds the audio gate

useVars == <<micOn, playing, streaming>>

UseInit == micOn \in BOOLEAN /\ playing = FALSE /\ streaming = FALSE

\* prepareSpeakerPlayback ends the microphone; then the playback starts, or fails to.
PlaybackStarts ==
    /\ ~playing /\ ~streaming
    /\ micOn' = FALSE /\ playing' \in BOOLEAN
    /\ UNCHANGED streaming

\* notifyPlaybackFinished
PlaybackEnds ==
    /\ playing
    /\ playing' = FALSE
    /\ UNCHANGED <<micOn, streaming>>

\* prepareUdpSpeaker and prepareStreamSpeaker, also in the middle of a playback
StreamStarts ==
    /\ streaming' = TRUE /\ micOn' = FALSE
    /\ UNCHANGED playing

StreamEnds ==
    /\ streaming
    /\ streaming' = FALSE
    /\ UNCHANGED <<micOn, playing>>

\* initMicrophone, when s_micResumeRequested is set, or M5.Mic.record, which starts a
\* microphone that does not run; both with the gate.
MicStarts ==
    /\ ~playing /\ ~streaming
    /\ micOn' = TRUE
    /\ UNCHANGED <<playing, streaming>>

UseNext == PlaybackStarts \/ PlaybackEnds \/ StreamStarts \/ StreamEnds \/ MicStarts

UseSpec == UseInit /\ [][UseNext]_useVars

=============================================================================
