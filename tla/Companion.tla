----------------------------- MODULE Companion -----------------------------
(***************************************************************************)
(* The bridge as a companion: what StackchanBridge (mcp_server/            *)
(* ws_bridge.py) does by itself when the device reports a touch or a       *)
(* shake, when nothing happens for half an hour, and when a thread calls   *)
(* sleep_mode or wake_mode, composed with the pictures of Snapshots and    *)
(* the thread of FaceTracker.                                              *)
(*                                                                         *)
(* The handlers of the events, the timers and the watcher are coroutines   *)
(* of one event loop: each runs from one await to the next, and writing a  *)
(* small command to the socket does not wait.  Time is counted in ticks of *)
(* about 3 seconds.                                                      *)
(***************************************************************************)
EXTENDS FaceTracker

VARIABLES
    touched,        \* ticks since _last_touch_react
    calming,        \* the _back_to_calm timers, the oldest first
    shaken,         \* ticks since the last of _shake_times
    angered,        \* ticks since _last_anger
    cooling,        \* a _calm_down timer runs
    sleeping,       \* self._sleeping
    idle,           \* nothing has happened for _idle_sleep_s
    watcher,        \* _idle_watcher runs
    mode,           \* a command of sleep_mode or wake_mode not yet sent
    asleep,         \* the device has carried out sleep_mode, and not wake_mode
    missed          \* the bridge took the device for awake too early (history)

reactionVars == <<touched, calming, shaken, angered, cooling>>
sleepVars == <<sleeping, idle, watcher, mode, missed>>
deviceVars == <<shown, asleep>>
vars == <<snapshotVars, trackerVars, reactionVars, sleepVars, deviceVars>>

Debounce == 1       \* 2.5 s
CalmAfter == 2      \* 6 s
ShakeWindow == 3    \* 8 s
AngerLasts == 3     \* 8 s
AngerPause == 4     \* 12 s

Looks == {"calm", "touch", "angry", "happy", "anxious", "sleep"}

Init ==
    /\ SnapshotInit /\ TrackerInit
    /\ touched = Debounce /\ calming = <<>>
    /\ shaken = ShakeWindow /\ angered = AngerPause /\ cooling = FALSE
    /\ sleeping = FALSE /\ idle = FALSE /\ watcher = TRUE
    /\ mode = "none" /\ asleep = FALSE /\ missed = FALSE

-----------------------------------------------------------------------------
(* Sending, in the event loop *)

\* A command reaches the device, or nobody.
Sends(look) == Shows(look) /\ UNCHANGED <<asleep, ws>>

\* ws.send raises in the handler of the connection, which ends.
HandlerFails == ws = "lost" /\ ws' = "none" /\ UNCHANGED <<shown, asleep>>

DeviceSleeps ==
    /\ Shows("sleep")
    /\ asleep' = (ws = "open" \/ asleep)

DeviceWakes ==
    /\ Shows("calm")
    /\ asleep' = (ws # "open" /\ asleep)

-----------------------------------------------------------------------------
(* _on_touch and _on_shake *)

EventArrives == ws # "none" /\ idle' = FALSE

\* The first touch or shake of a sleeping device wakes it.
WakesUp ==
    /\ sleeping' = FALSE
    /\ missed' = (missed \/ mode = "sleep" \/ (asleep /\ ws # "open"))
    /\ \/ DeviceWakes /\ UNCHANGED ws
       \/ HandlerFails
    /\ UNCHANGED <<watcher, mode>>

WakingTouch ==
    /\ EventArrives /\ sleeping
    /\ WakesUp
    /\ touched' = IF ws' = ws THEN 0 ELSE touched
    /\ UNCHANGED <<calming, shaken, angered, cooling>>

WakingShake ==
    /\ EventArrives /\ sleeping
    /\ WakesUp
    /\ UNCHANGED reactionVars

\* Mutant: a touch that is too early outdates the timers all the same.
OutdatingTouch ==
    /\ EventArrives /\ ~sleeping /\ touched < Debounce
    /\ calming' = [i \in DOMAIN calming |-> [calming[i] EXCEPT !.latest = FALSE]]
    /\ UNCHANGED <<ws, touched, shaken, angered, cooling, deviceVars>>
    /\ UNCHANGED <<sleeping, watcher, mode, missed>>

EarlyTouch ==
    /\ EventArrives /\ ~sleeping /\ touched < Debounce
    /\ UNCHANGED <<ws, reactionVars, deviceVars, sleeping, watcher, mode, missed>>

\* _touch_gen is incremented: the timers of older touches are outdated.
NewTimer ==
    calming' = Append([i \in DOMAIN calming |-> [calming[i] EXCEPT !.latest = FALSE]],
                      [age |-> 0, latest |-> TRUE])

Touch ==
    /\ EventArrives /\ ~sleeping /\ touched >= Debounce
    /\ touched' = 0
    /\ \/ Sends("touch") /\ NewTimer
       \/ HandlerFails /\ UNCHANGED calming
    /\ UNCHANGED <<shaken, angered, cooling, sleeping, watcher, mode, missed>>

\* One shake does nothing, nor do more of them too soon after an anger.
Shake ==
    /\ EventArrives /\ ~sleeping
    /\ shaken >= ShakeWindow \/ angered < AngerPause
    /\ shaken' = 0
    /\ UNCHANGED <<ws, touched, calming, angered, cooling, deviceVars>>
    /\ UNCHANGED <<sleeping, watcher, mode, missed>>

SecondShake ==
    /\ EventArrives /\ ~sleeping
    /\ shaken < ShakeWindow /\ angered >= AngerPause
    /\ angered' = 0 /\ shaken' = ShakeWindow
    /\ \/ Sends("angry") /\ cooling' = TRUE
       \/ HandlerFails /\ UNCHANGED cooling
    /\ UNCHANGED <<touched, calming, sleeping, watcher, mode, missed>>

\* Mutant: the generation is not compared.
CalmAnyway == Shows("calm")

\* _back_to_calm, six seconds after its touch.
BackToCalm == IF Head(calming).latest THEN Shows("calm") ELSE UNCHANGED shown

TouchTimer ==
    /\ calming # <<>> /\ Head(calming).age = CalmAfter
    /\ calming' = Tail(calming)
    /\ BackToCalm
    /\ UNCHANGED <<ws, asleep, touched, shaken, angered, cooling, sleepVars>>

\* _calm_down
AngerTimer ==
    /\ cooling /\ angered = AngerLasts
    /\ cooling' = FALSE
    /\ Sends("calm")
    /\ UNCHANGED <<touched, calming, shaken, angered, sleepVars>>

-----------------------------------------------------------------------------
(* Sleep mode *)

\* _idle_watcher: an exception of the send ends it.
IdleSleep ==
    /\ watcher /\ idle /\ connected /\ ~sleeping
    /\ sleeping' = TRUE /\ missed' = FALSE
    /\ \/ DeviceSleeps /\ UNCHANGED watcher
       \/ ws = "lost" /\ watcher' = FALSE /\ UNCHANGED deviceVars
    /\ UNCHANGED <<ws, idle, mode, reactionVars>>

\* Mutant: only the idle watcher notes that the device sleeps.
AskUnnoted ==
    /\ mode = "none" /\ connected
    /\ mode' = "sleep"
    /\ UNCHANGED <<sleeping, missed, idle, watcher, ws, deviceVars, reactionVars>>

\* sleep_mode and wake_mode, in a thread: the flag comes first.
AskToSleep ==
    /\ mode = "none" /\ connected
    /\ sleeping' = TRUE /\ missed' = FALSE
    /\ mode' = "sleep"
    /\ UNCHANGED <<idle, watcher, ws, deviceVars, reactionVars>>

AskToWake ==
    /\ mode = "none" /\ connected
    /\ sleeping' = FALSE /\ idle' = FALSE
    /\ mode' = "wake"
    /\ UNCHANGED <<watcher, missed, ws, deviceVars, reactionVars>>

SleepSent ==
    /\ mode = "sleep"
    /\ mode' = "none"
    /\ DeviceSleeps
    /\ UNCHANGED <<sleeping, idle, watcher, missed, ws, reactionVars>>

WakeSent ==
    /\ mode = "wake"
    /\ mode' = "none"
    /\ DeviceWakes
    /\ missed' = (missed \/ asleep')
    /\ UNCHANGED <<sleeping, idle, watcher, ws, reactionVars>>

-----------------------------------------------------------------------------
(* Time *)

Older(age, last) == IF age < last THEN age + 1 ELSE last

TimerDue ==
    \/ calming # <<>> /\ Head(calming).age = CalmAfter
    \/ cooling /\ angered = AngerLasts

\* The event loop runs a timer when it is due.
Tick ==
    /\ ~TimerDue
    /\ touched' = Older(touched, Debounce)
    /\ calming' = [i \in DOMAIN calming |-> [calming[i] EXCEPT !.age = @ + 1]]
    /\ shaken' = Older(shaken, ShakeWindow)
    /\ angered' = Older(angered, AngerPause)
    /\ UNCHANGED <<cooling, sleepVars, ws, deviceVars>>

\* Nothing of the reactions and of the sleep mode is under way.
AtRest ==
    /\ touched = Debounce /\ calming = <<>>
    /\ shaken = ShakeWindow /\ angered = AngerPause /\ ~cooling

HalfAnHourPasses ==
    /\ ~idle /\ AtRest
    /\ idle' = TRUE
    /\ UNCHANGED <<sleeping, watcher, mode, missed, reactionVars, ws, deviceVars>>

-----------------------------------------------------------------------------
(* The composition.  Bounds on how much of it goes on at once: reactions   *)
(* and sleep mix freely while no picture is being taken and the tracker    *)
(* has not run; the tracker is started, and a client takes pictures beside *)
(* it, when no reaction is under way; and while the tracker runs there is  *)
(* one touch at a time.                                                    *)

NoTracking == UNCHANGED <<slot, call, doubt, answers, trackerVars>>

NoReaction == UNCHANGED <<reactionVars, sleepVars, asleep>>

NoPictures == \A c \in Clients : call[c] = Idle

Untracked ==
    /\ NoPictures /\ slot = "none" /\ answers = <<>>
    /\ tracker = "off" /\ ~stop /\ status = "off" /\ misses = 0 /\ happyAt = "none"

Quiet == AtRest /\ ~idle /\ ~sleeping /\ ~asleep /\ ~missed /\ watcher /\ mode = "none"

\* Besides, the tracker has nothing to show on the face.
Alone == Quiet /\ misses = 0 /\ happyAt = "none"

Steady == Alone /\ NoPictures /\ answers = <<>> /\ ~stop

Event ==
    \/ WakingTouch \/ WakingShake
    \/ (Untracked \/ Steady) /\ Touch
    \/ Untracked /\ (EarlyTouch \/ Shake \/ SecondShake)

Sleep ==
    \/ SleepSent \/ WakeSent
    \/ (Untracked \/ sleeping) /\ AskToWake
    \/ Untracked /\ (IdleSleep \/ AskToSleep \/ HalfAnHourPasses)

Timers == TouchTimer \/ AngerTimer

Reactions ==
    /\ Event \/ Sleep \/ Timers \/ Tick
    /\ NoTracking

Tracking ==
    /\ \/ TrackerLoop \/ HappyLongEnough
       \/ Quiet /\ TrackStart
       \/ (Quiet \/ tracker # "off") /\ TrackStop
    /\ NoReaction

\* POST /cmd or stackchan_ws_see, the event loop, and the device.
Pictures ==
    /\ \/ \E c \in Clients : (Alone /\ Ask(c)) \/ Fails(c) \/ Returns(c)
       \/ \E c \in Callers : Send(c)
       \/ \E result \in {"picture", "failed"} : Answer(result)
    /\ NoReaction /\ UNCHANGED <<trackerVars, shown>>

Link ==
    /\ \/ Connect /\ UNCHANGED deviceVars
       \/ LinkBreaks /\ UNCHANGED deviceVars
       \/ LinkBreaks /\ shown' = "calm" /\ asleep' = FALSE     \* the device restarts
       \/ LossNoticed /\ UNCHANGED deviceVars
    /\ UNCHANGED <<trackerVars, reactionVars, sleepVars>>

Next == Reactions \/ Tracking \/ Pictures \/ Link

\* The thread of the tracker and the event loop run on: what is asked of the
\* event loop is sent, and a timer that is due runs.
Fairness ==
    /\ WF_vars(TrackerLoop /\ NoReaction)
    /\ WF_vars(Send("tracker") /\ UNCHANGED <<trackerVars, shown>> /\ NoReaction)
    /\ WF_vars(Tick /\ NoTracking)
    /\ WF_vars(Timers /\ NoTracking)

Spec == Init /\ [][Next]_vars

FairSpec == Spec /\ Fairness

-----------------------------------------------------------------------------

TypeOK ==
    /\ SnapshotTypes /\ TrackerTypes
    /\ shown \in Looks
    /\ touched \in 0 .. Debounce
    /\ calming \in Seq([age : 0 .. CalmAfter, latest : BOOLEAN])
    /\ shaken \in 0 .. ShakeWindow /\ angered \in 0 .. AngerPause
    /\ cooling \in BOOLEAN
    /\ sleeping \in BOOLEAN /\ idle \in BOOLEAN /\ watcher \in BOOLEAN
    /\ mode \in {"none", "sleep", "wake"}
    /\ asleep \in BOOLEAN /\ missed \in BOOLEAN

\* The flag _sleeping, which makes the next touch wake the device, is set
\* whenever the device sleeps, unless a wake command is still to be sent or was
\* overtaken by a sleep command or by the loss of the link.
SleepingIsKnown == asleep => sleeping \/ mode = "wake" \/ missed

\* A touch's face and the anger are gone after a while, if the link holds and
\* nobody touches on: no timer of a reaction is outdated without a newer one.
ReactionsEnd ==
    /\ (shown = "touch" /\ calming # <<>>)
           ~> (shown # "touch" \/ ws # "open" \/ touched = 0)
    /\ (shown = "angry" /\ cooling) ~> (shown # "angry" \/ ws # "open")

\* A later touch takes over (the comment in _back_to_calm): the timer of an
\* earlier one does not end its reaction.
TouchTakesOver ==
    [][Len(calming') < Len(calming) /\ shown' # shown => calming' = <<>>]_vars

=============================================================================
