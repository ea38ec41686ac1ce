------------------------- MODULE Companion_proofs -------------------------
(***************************************************************************)
(* Proofs about Companion: its types, whose picture a caller gets, what    *)
(* the flag of the sleep mode tells, and that a later touch takes over.    *)
(***************************************************************************)
EXTENDS Companion, SequenceTheorems, TLAPS

pictureVars == <<slot, call, doubt, answers>>

-----------------------------------------------------------------------------
(* Sequences *)

\* A function on 1 .. n is a sequence of length n.
LEMMA MappedSeq ==
    ASSUME NEW T, NEW n \in Nat, NEW f \in [1 .. n -> T]
    PROVE  f \in Seq(T) /\ Len(f) = n
<1>1. f \in Seq(T)
  BY SeqDef
<1> QED
  BY <1>1, LenProperties

\* What the operations on sequences return.
LEMMA SeqFacts ==
    ASSUME NEW T, NEW s \in Seq(T)
    PROVE  /\ Len(s) \in Nat /\ DOMAIN s = 1 .. Len(s) /\ s \in [1 .. Len(s) -> T]
           /\ \A x \in T : /\ Append(s, x) \in Seq(T)
                           /\ Len(Append(s, x)) = Len(s) + 1
                           /\ Append(s, x)[Len(s) + 1] = x
                           /\ \A i \in 1 .. Len(s) : Append(s, x)[i] = s[i]
           /\ s # <<>> =>
                 /\ Len(s) >= 1 /\ Head(s) = s[1] /\ Head(s) \in T
                 /\ Tail(s) \in Seq(T) /\ Len(Tail(s)) = Len(s) - 1
                 /\ \A i \in 1 .. Len(s) - 1 : Tail(s)[i] = s[i + 1]
           /\ (s = <<>>) <=> (Len(s) = 0)
  BY LenProperties, EmptySeq

-----------------------------------------------------------------------------
(* The steps that the pictures see *)

\* request_snapshot, the answers and the loss of the link are the only steps
\* that change what is kept of the pictures.
LEMMA PictureSteps ==
    ASSUME [Next]_vars
    PROVE  \/ UNCHANGED pictureVars
           \/ \E c \in Callers : Ask(c) \/ Send(c) \/ Over(c)
           \/ \E result \in {"picture", "failed"} : Answer(result)
           \/ LinkBreaks
<1>1. "tracker" \in Callers /\ Clients \subseteq Callers
  BY DEF Callers
<1>2. CASE Reactions
  BY <1>2 DEF Reactions, NoTracking, pictureVars
<1>3. CASE Tracking
  BY <1>1, <1>3 DEF Tracking, TrackerLoop, HeadHome, LoopEnds, LinkIsDown, TakePicture,
     NoPicture, FaceFound, NoFace, Pause, HappyLongEnough, TrackStart, TrackStop, Fails,
     Returns, snapshotVars, pictureVars
<1>4. CASE Pictures
  BY <1>1, <1>4 DEF Pictures, Fails, Returns
<1>5. CASE Link
  BY <1>5 DEF Link, Connect, LossNoticed, pictureVars
<1>6. CASE UNCHANGED vars
  BY <1>6 DEF vars, snapshotVars, pictureVars
<1> QED
  BY <1>2, <1>3, <1>4, <1>5, <1>6 DEF Next

PictureTypes ==
    /\ slot \in Callers \cup {"none"}
    /\ call \in [Callers -> Calls]
    /\ doubt \in [Callers -> BOOLEAN]
    /\ answers \in Seq(Callers \cup {"nobody"})

\* request_snapshot and the answers keep the types.
LEMMA PictureTypesKept ==
    ASSUME PictureTypes, [Next]_vars
    PROVE  PictureTypes'
<1> DEFINE T == Callers \cup {"nobody"}
<1> USE DEF PictureTypes
<1>1. CASE UNCHANGED pictureVars
  BY <1>1 DEF pictureVars
<1>2. ASSUME NEW c \in Callers, Ask(c)
      PROVE  PictureTypes'
  BY <1>2 DEF Ask, TakeSlot, Calls
<1>3. ASSUME NEW c \in Callers, Send(c)
      PROVE  PictureTypes'
  <2>1. call' \in [Callers -> Calls]
    BY <1>3 DEF Send, Calls, Idle
  <2>2. answers' \in Seq(T)
    BY <1>3, SeqFacts DEF Send
  <2> QED
    BY <2>1, <2>2, <1>3 DEF Send
<1>4. ASSUME NEW c \in Callers, Over(c)
      PROVE  PictureTypes'
  <2>1. Len(answers) \in Nat /\ answers' \in [1 .. Len(answers) -> T]
    BY <1>4, LenProperties DEF Over
  <2>2. answers' \in Seq(T)
    BY <2>1, MappedSeq
  <2>3. call' \in [Callers -> Calls] /\ doubt' \in [Callers -> BOOLEAN]
    BY <1>4 DEF Over, Calls
  <2> QED
    BY <2>2, <2>3, <1>4 DEF Over
<1>5. ASSUME NEW result \in {"picture", "failed"}, Answer(result)
      PROVE  PictureTypes'
  <2>1. answers' \in Seq(T)
    BY <1>5, SeqFacts DEF Answer
  <2>2. call' \in [Callers -> Calls]
    BY <1>5 DEF Answer, Waits, Calls, Idle
  <2> QED
    BY <2>1, <2>2, <1>5 DEF Answer
<1>6. CASE LinkBreaks
  BY <1>6, EmptySeq DEF LinkBreaks
<1> QED
  BY <1>1, <1>2, <1>3, <1>4, <1>5, <1>6, PictureSteps

-----------------------------------------------------------------------------
(* The timers of the touches *)

Timer == [age : 0 .. CalmAfter, latest : BOOLEAN]

\* The timers are kept in the order in which they run down, and only the timer
\* of the last touch has its generation.
TimersInOrder ==
    /\ calming \in Seq(Timer)
    /\ \A i, j \in 1 .. Len(calming) : i <= j => calming[j].age <= calming[i].age
    /\ \A i \in 1 .. Len(calming) : calming[i].latest => i = Len(calming)

\* A new touch starts the last timer and outdates the others.
LEMMA NewTimerInOrder ==
    ASSUME TimersInOrder, NewTimer
    PROVE  TimersInOrder' /\ Len(calming') = Len(calming) + 1
<1> DEFINE old == [i \in DOMAIN calming |-> [calming[i] EXCEPT !.latest = FALSE]]
           new == [age |-> 0, latest |-> TRUE]
<1>1. Len(calming) \in Nat /\ DOMAIN calming = 1 .. Len(calming)
  BY SeqFacts DEF TimersInOrder
<1>2. /\ old \in [1 .. Len(calming) -> Timer]
      /\ \A i \in 1 .. Len(calming) : old[i].age = calming[i].age /\ ~old[i].latest
  <2>1. \A i \in 1 .. Len(calming) : calming[i] \in Timer
    BY SeqFacts DEF TimersInOrder
  <2> QED
    BY <1>1, <2>1 DEF Timer
<1>3. old \in Seq(Timer) /\ Len(old) = Len(calming)
  BY <1>1, <1>2, MappedSeq
<1>4. new \in Timer
  BY DEF Timer, CalmAfter
<1>5. calming' = Append(old, new)
  BY DEF NewTimer
<1> HIDE DEF old, new
<1>6. /\ calming' \in Seq(Timer)
      /\ Len(calming') = Len(calming) + 1
      /\ calming'[Len(calming) + 1] = new
      /\ \A i \in 1 .. Len(calming) : calming'[i] = old[i]
  BY <1>3, <1>4, <1>5, SeqFacts
<1>7. \A i, j \in 1 .. Len(calming') : i <= j => calming'[j].age <= calming'[i].age
  <2> SUFFICES ASSUME NEW i \in 1 .. Len(calming'), NEW j \in 1 .. Len(calming'), i <= j
               PROVE  calming'[j].age <= calming'[i].age
    OBVIOUS
  <2>1. CASE j = Len(calming) + 1
    <3>1. calming'[j].age = 0
      BY <2>1, <1>6 DEF new
    <3>2. calming'[i] \in Timer
      BY <1>6, SeqFacts
    <3>3. calming'[i].age \in 0 .. CalmAfter
      BY <3>2 DEF Timer
    <3> QED
      BY <3>1, <3>3 DEF CalmAfter
  <2>2. CASE j # Len(calming) + 1
    <3>1. i \in 1 .. Len(calming) /\ j \in 1 .. Len(calming)
      BY <2>2, <1>1, <1>6
    <3> QED
      BY <3>1, <1>2, <1>6 DEF TimersInOrder
  <2> QED
    BY <2>1, <2>2
<1>8. \A i \in 1 .. Len(calming') : calming'[i].latest => i = Len(calming')
  BY <1>1, <1>2, <1>6
<1> QED
  BY <1>6, <1>7, <1>8 DEF TimersInOrder

\* A timer that is due is the first.
LEMMA TailInOrder ==
    ASSUME TimersInOrder, calming # <<>>, calming' = Tail(calming)
    PROVE  TimersInOrder' /\ Len(calming') = Len(calming) - 1
<1>1. /\ Len(calming) \in Nat /\ Len(calming) >= 1
      /\ calming' \in Seq(Timer) /\ Len(calming') = Len(calming) - 1
      /\ \A i \in 1 .. Len(calming) - 1 : calming'[i] = calming[i + 1]
  BY SeqFacts DEF TimersInOrder
<1>3. ASSUME NEW i \in 1 .. Len(calming'), NEW j \in 1 .. Len(calming'), i <= j
      PROVE  calming'[j].age <= calming'[i].age
  <2>1. /\ i + 1 \in 1 .. Len(calming) /\ j + 1 \in 1 .. Len(calming) /\ i + 1 <= j + 1
        /\ calming'[i] = calming[i + 1] /\ calming'[j] = calming[j + 1]
    BY <1>1, <1>3
  <2> QED
    BY <2>1 DEF TimersInOrder
<1>4. ASSUME NEW i \in 1 .. Len(calming'), calming'[i].latest
      PROVE  i = Len(calming')
  <2>1. i + 1 \in 1 .. Len(calming) /\ calming'[i] = calming[i + 1]
    BY <1>1
  <2>2. i + 1 = Len(calming)
    BY <2>1, <1>4 DEF TimersInOrder
  <2> QED
    BY <2>2, <1>1
<1> QED
  BY <1>1, <1>3, <1>4 DEF TimersInOrder

\* Time passes for all of them, while none is due.
LEMMA TickInOrder ==
    ASSUME TimersInOrder, Tick
    PROVE  TimersInOrder' /\ Len(calming') = Len(calming)
<1>1. Len(calming) \in Nat /\ DOMAIN calming = 1 .. Len(calming)
  BY SeqFacts DEF TimersInOrder
<1>2. \A i \in 1 .. Len(calming) : calming[i] \in Timer
  BY ElementOfSeq DEF TimersInOrder
<1>3. \A i \in 1 .. Len(calming) : calming[i].age < CalmAfter
  <2> SUFFICES ASSUME NEW i \in 1 .. Len(calming)
               PROVE  calming[i].age < CalmAfter
    OBVIOUS
  <2>1. Len(calming) # 0 /\ 1 \in 1 .. Len(calming) /\ 1 <= i
    BY <1>1
  <2>4. calming # <<>> /\ Head(calming) = calming[1]
    BY <2>1, SeqFacts DEF TimersInOrder
  <2>2. calming[1].age # CalmAfter
    BY <2>4 DEF Tick, TimerDue
  <2>3. calming[i].age <= calming[1].age
    BY <2>1 DEF TimersInOrder
  <2> QED
    BY <2>1, <2>2, <2>3, <1>2 DEF Timer, CalmAfter
<1>4. /\ calming' \in [1 .. Len(calming) -> Timer]
      /\ \A i \in 1 .. Len(calming) : /\ calming'[i].age = calming[i].age + 1
                                      /\ calming'[i].latest = calming[i].latest
  BY <1>1, <1>2, <1>3 DEF Tick, Timer, CalmAfter
<1>5. calming' \in Seq(Timer) /\ Len(calming') = Len(calming)
  BY <1>1, <1>4, MappedSeq
<1>6. ASSUME NEW i \in 1 .. Len(calming'), NEW j \in 1 .. Len(calming'), i <= j
      PROVE  calming'[j].age <= calming'[i].age
  <2>1. i \in 1 .. Len(calming) /\ j \in 1 .. Len(calming)
    BY <1>5
  <2>2. calming[i].age \in Nat /\ calming[j].age \in Nat
    BY <1>2, <2>1 DEF Timer, CalmAfter
  <2>3. calming[j].age <= calming[i].age
    BY <2>1, <1>6 DEF TimersInOrder
  <2> QED
    BY <1>4, <2>1, <2>2, <2>3
<1>7. \A i \in 1 .. Len(calming') : calming'[i].latest => i = Len(calming')
  BY <1>4, <1>5 DEF TimersInOrder
<1> QED
  BY <1>5, <1>6, <1>7 DEF TimersInOrder

\* The other steps leave the timers alone.
LEMMA TimerSteps ==
    ASSUME TimersInOrder, [Next]_vars
    PROVE  /\ TimersInOrder'
           /\ Len(calming') < Len(calming) =>
                 TouchTimer
<1>0. Len(calming) \in Nat
  BY SeqFacts DEF TimersInOrder
<1>1. CASE calming' = calming
  BY <1>0, <1>1 DEF TimersInOrder
<1>2. CASE NewTimer
  BY <1>0, <1>2, NewTimerInOrder
<1>3. CASE TouchTimer
  BY <1>3, TailInOrder DEF TouchTimer
<1>4. CASE Tick
  BY <1>0, <1>4, TickInOrder
<1>5. \/ calming' = calming
      \/ NewTimer
      \/ TouchTimer
      \/ Tick
  <2>1. CASE Event
    BY <2>1 DEF Event, WakingTouch, WakingShake, EarlyTouch, Touch, Shake, SecondShake,
       reactionVars
  <2>2. CASE Sleep
    BY <2>2 DEF Sleep, SleepSent, WakeSent, AskToWake, AskToSleep, IdleSleep,
       HalfAnHourPasses, reactionVars
  <2>3. CASE Timers
    BY <2>3 DEF Timers, AngerTimer
  <2>4. CASE Tracking \/ Pictures \/ Link
    BY <2>4 DEF Tracking, Pictures, Link, NoReaction, reactionVars
  <2>5. CASE UNCHANGED vars
    BY <2>5 DEF vars, reactionVars
  <2> QED
    BY <2>1, <2>2, <2>3, <2>4, <2>5 DEF Next, Reactions
<1> QED
  BY <1>1, <1>2, <1>3, <1>4, <1>5

-----------------------------------------------------------------------------
(* Type correctness *)

TypesInv == TypeOK /\ TimersInOrder

ReactionTypes ==
    /\ touched \in 0 .. Debounce
    /\ shaken \in 0 .. ShakeWindow /\ angered \in 0 .. AngerPause
    /\ cooling \in BOOLEAN

SleepTypes ==
    /\ sleeping \in BOOLEAN /\ idle \in BOOLEAN /\ watcher \in BOOLEAN
    /\ mode \in {"none", "sleep", "wake"}
    /\ asleep \in BOOLEAN /\ missed \in BOOLEAN

SeenTypes == ws \in {"open", "lost", "none"} /\ shown \in Looks

\* What the reactions, the sleep mode, the tracker and the link change.
LEMMA OtherTypesKept ==
    ASSUME ReactionTypes, SleepTypes, SeenTypes, TrackerTypes, [Next]_vars
    PROVE  ReactionTypes' /\ SleepTypes' /\ SeenTypes' /\ TrackerTypes'
<1>1. CASE Event /\ NoTracking
  <2>1. ReactionTypes'
    <3>1. 0 \in 0 .. Debounce /\ 0 \in 0 .. ShakeWindow /\ ShakeWindow \in 0 .. ShakeWindow
          /\ 0 \in 0 .. AngerPause
      BY DEF Debounce, ShakeWindow, AngerPause
    <3> QED
      BY <1>1, <3>1 DEF Event, WakingTouch, WakingShake, EarlyTouch, Touch, Shake,
         SecondShake, reactionVars, ReactionTypes
  <2>2. SleepTypes'
    BY <1>1 DEF Event, WakingTouch, WakingShake, EarlyTouch, Touch, Shake, SecondShake,
       EventArrives, WakesUp, DeviceWakes, HandlerFails, Sends, deviceVars, SleepTypes
  <2>3. SeenTypes'
    BY <1>1 DEF Event, WakingTouch, WakingShake, EarlyTouch, Touch, Shake, SecondShake,
       EventArrives, WakesUp, DeviceWakes, HandlerFails, Sends, Shows, deviceVars,
       SeenTypes, Looks
  <2>4. TrackerTypes'
    BY <1>1 DEF NoTracking, trackerVars, TrackerTypes
  <2> QED
    BY <2>1, <2>2, <2>3, <2>4
<1>2. CASE Sleep /\ NoTracking
  <2>1. ReactionTypes'
    BY <1>2 DEF Sleep, SleepSent, WakeSent, AskToWake, AskToSleep, IdleSleep,
       HalfAnHourPasses, reactionVars, ReactionTypes
  <2>2. SleepTypes'
    BY <1>2 DEF Sleep, SleepSent, WakeSent, AskToWake, AskToSleep, IdleSleep,
       HalfAnHourPasses, DeviceSleeps, DeviceWakes, deviceVars, SleepTypes
  <2>3. SeenTypes'
    BY <1>2 DEF Sleep, SleepSent, WakeSent, AskToWake, AskToSleep, IdleSleep,
       HalfAnHourPasses, DeviceSleeps, DeviceWakes, Shows, deviceVars, SeenTypes, Looks
  <2>4. TrackerTypes'
    BY <1>2 DEF NoTracking, trackerVars, TrackerTypes
  <2> QED
    BY <2>1, <2>2, <2>3, <2>4
<1>3. CASE (Timers \/ Tick) /\ NoTracking
  <2>1. ReactionTypes'
    <3>1. CASE Timers
      BY <3>1 DEF Timers, TouchTimer, AngerTimer, ReactionTypes
    <3>2. CASE Tick
      <4>1. \A last \in Nat : \A age \in 0 .. last : Older(age, last) \in 0 .. last
        BY DEF Older
      <4>2. Debounce \in Nat /\ ShakeWindow \in Nat /\ AngerPause \in Nat
        BY DEF Debounce, ShakeWindow, AngerPause
      <4> QED
        BY <3>2, <4>1, <4>2 DEF Tick, ReactionTypes
    <3> QED
      BY <1>3, <3>1, <3>2
  <2>2. SleepTypes' /\ SeenTypes'
    BY <1>3 DEF Timers, TouchTimer, AngerTimer, BackToCalm, Tick, Sends, Shows,
       sleepVars, deviceVars, SleepTypes, SeenTypes, Looks
  <2>3. TrackerTypes'
    BY <1>3 DEF NoTracking, trackerVars, TrackerTypes
  <2> QED
    BY <2>1, <2>2, <2>3
<1>4. CASE Tracking
  <2>1. NoReaction /\ (TrackerLoop \/ HappyLongEnough \/ TrackStart \/ TrackStop)
    BY <1>4 DEF Tracking
  <2>2. TrackerTypes'
    <3>1. CASE NoFace
      <4>1. misses' \in 0 .. LostAfter - 1
        BY <3>1 DEF NoFace, CountMiss, TrackerTypes, LostAfter
      <4> QED
        BY <3>1, <4>1 DEF NoFace, TrackerTypes
    <3>2. CASE FaceFound
      BY <3>2 DEF FaceFound, TrackerTypes, LostAfter
    <3>3. CASE HeadHome \/ LoopEnds \/ LinkIsDown \/ TakePicture \/ NoPicture \/ Pause
      BY <3>3 DEF HeadHome, LoopEnds, LinkIsDown, TakePicture, NoPicture, Pause,
         TrackerTypes, LostAfter
    <3>4. CASE HappyLongEnough \/ TrackStart \/ TrackStop
      BY <3>4 DEF HappyLongEnough, TrackStart, TrackStop, TrackerTypes
    <3> QED
      BY <2>1, <3>1, <3>2, <3>3, <3>4 DEF TrackerLoop
  <2>3. SeenTypes'
    BY <2>1 DEF TrackerLoop, HeadHome, LoopEnds, LinkIsDown, TakePicture, NoPicture,
       FaceFound, NoFace, Pause, HappyLongEnough, TrackStart, TrackStop, Ask,
       Fails, Returns, Over, Shows, snapshotVars, SeenTypes, Looks
  <2>4. ReactionTypes' /\ SleepTypes'
    BY <2>1 DEF NoReaction, reactionVars, sleepVars, ReactionTypes, SleepTypes
  <2> QED
    BY <2>2, <2>3, <2>4
<1>5. CASE Pictures
  <2>1. SeenTypes'
    BY <1>5 DEF Pictures, Ask, Send, Fails, Returns, Over, Answer, SeenTypes
  <2>2. ReactionTypes' /\ SleepTypes' /\ TrackerTypes'
    BY <1>5 DEF Pictures, NoReaction, reactionVars, sleepVars, trackerVars,
       ReactionTypes, SleepTypes, TrackerTypes
  <2> QED
    BY <2>1, <2>2
<1>6. CASE Link
  <2>1. SeenTypes' /\ asleep' \in BOOLEAN
    BY <1>6 DEF Link, Connect, LinkBreaks, LossNoticed, deviceVars, SeenTypes, SleepTypes,
       Looks
  <2>2. ReactionTypes' /\ SleepTypes' /\ TrackerTypes'
    BY <1>6, <2>1 DEF Link, reactionVars, sleepVars, trackerVars, ReactionTypes,
       SleepTypes, TrackerTypes
  <2> QED
    BY <2>1, <2>2
<1>7. CASE UNCHANGED vars
  BY <1>7 DEF vars, snapshotVars, trackerVars, reactionVars, sleepVars, deviceVars,
     ReactionTypes, SleepTypes, SeenTypes, TrackerTypes
<1> QED
  BY <1>1, <1>2, <1>3, <1>4, <1>5, <1>6, <1>7 DEF Next, Reactions

LEMMA TypesInvariant == Spec => []TypesInv
<1>1. Init => TypesInv
  <2> SUFFICES ASSUME Init PROVE TypesInv
    OBVIOUS
  <2>1. SnapshotTypes
    BY EmptySeq DEF Init, SnapshotInit, SnapshotTypes, Calls
  <2>2. TimersInOrder
    <3>1. calming \in Seq(Timer) /\ Len(calming) = 0
      BY EmptySeq DEF Init
    <3> QED
      BY <3>1 DEF TimersInOrder
  <2>3. TrackerTypes /\ shown \in Looks
    <3>1. 0 \in 0 .. LostAfter - 1
      BY DEF LostAfter
    <3> QED
      BY <3>1 DEF Init, TrackerInit, TrackerTypes, Looks
  <2>4. ReactionTypes /\ SleepTypes
    <3>1. Debounce \in 0 .. Debounce /\ ShakeWindow \in 0 .. ShakeWindow
          /\ AngerPause \in 0 .. AngerPause
      BY DEF Debounce, ShakeWindow, AngerPause
    <3> QED
      BY <3>1 DEF Init, ReactionTypes, SleepTypes
  <2> QED
    BY <2>1, <2>2, <2>3, <2>4 DEF TypesInv, TypeOK, TimersInOrder, Timer, ReactionTypes,
       SleepTypes
<1>2. TypesInv /\ [Next]_vars => TypesInv'
  <2> SUFFICES ASSUME TypesInv, [Next]_vars PROVE TypesInv'
    OBVIOUS
  <2>1. PictureTypes
    BY DEF TypesInv, TypeOK, SnapshotTypes, PictureTypes
  <2>2. PictureTypes'
    BY <2>1, PictureTypesKept
  <2>3. TimersInOrder'
    BY TimerSteps DEF TypesInv
  <2>4. ReactionTypes' /\ SleepTypes' /\ SeenTypes' /\ TrackerTypes'
    BY OtherTypesKept DEF TypesInv, TypeOK, SnapshotTypes, ReactionTypes, SleepTypes,
       SeenTypes
  <2> QED
    BY <2>2, <2>3, <2>4 DEF TypesInv, TypeOK, SnapshotTypes, PictureTypes,
       TimersInOrder, Timer, ReactionTypes, SleepTypes, SeenTypes
<1> QED
  BY <1>1, <1>2, PTL DEF Spec

\* The bridge and the tracker are type-correct, for every set of clients: the
\* ages of the timers too, since a timer that is due runs before time passes.
THEOREM TypeCorrect == Spec => []TypeOK
<1>1. TypesInv => TypeOK
  BY DEF TypesInv
<1> QED
  BY <1>1, TypesInvariant, PTL

-----------------------------------------------------------------------------
(* A later touch takes over *)

\* The timer of an earlier touch never ends the reaction to a later one.
THEOREM LaterTouchTakesOver == Spec => TouchTakesOver
<1>1. ASSUME TypesInv, [Next]_vars, Len(calming') < Len(calming), shown' # shown
      PROVE  calming' = <<>>
  <2>1. TimersInOrder /\ Len(calming) \in Nat
    BY <1>1, SeqFacts DEF TypesInv, TimersInOrder
  <2>2. TouchTimer
    BY <1>1, <2>1, TimerSteps
  <2>3. calming # <<>> /\ calming' = Tail(calming)
    BY <2>2 DEF TouchTimer
  <2>4. calming' \in Seq(Timer) /\ Len(calming') = Len(calming) - 1
    BY <2>1, <2>3, SeqFacts DEF TimersInOrder
  <2>5. Head(calming) = calming[1] /\ Len(calming) >= 1
    BY <2>1, <2>3, SeqFacts DEF TimersInOrder
  <2>6. calming[1].latest
    BY <1>1, <2>2, <2>5 DEF TouchTimer, BackToCalm
  <2>7. Len(calming) = 1
    <3>1. 1 \in 1 .. Len(calming)
      BY <2>1, <2>5
    <3> QED
      BY <2>1, <2>6, <3>1 DEF TimersInOrder
  <2> QED
    BY <2>4, <2>7, SeqFacts
<1>2. TypesInv /\ [Next]_vars
        => [Len(calming') < Len(calming) /\ shown' # shown => calming' = <<>>]_vars
  BY <1>1
<1> QED
  BY <1>2, TypesInvariant, PTL DEF Spec, TouchTakesOver

-----------------------------------------------------------------------------
(* What the flag of the sleep mode tells *)

\* A sleep command that is still to be sent leaves the flag set, unless an
\* event has taken it back.
SleepInv == SleepingIsKnown /\ (mode = "sleep" => sleeping \/ missed)

LEMMA SleepStep ==
    ASSUME TypeOK, SleepInv, [Next]_vars
    PROVE  SleepInv'
<1> USE DEF SleepInv, SleepingIsKnown, TypeOK
<1>1. CASE Event
  BY <1>1 DEF Event, WakingTouch, WakingShake, EarlyTouch, Touch, Shake, SecondShake,
     EventArrives, WakesUp, DeviceWakes, HandlerFails, Sends, deviceVars
<1>2. CASE Sleep
  BY <1>2 DEF Sleep, SleepSent, WakeSent, AskToWake, AskToSleep, IdleSleep,
     HalfAnHourPasses, DeviceSleeps, DeviceWakes, deviceVars
<1>3. CASE Timers \/ Tick
  BY <1>3 DEF Timers, TouchTimer, AngerTimer, Tick, Sends, sleepVars, deviceVars
<1>4. CASE Tracking \/ Pictures \/ Link
  BY <1>4 DEF Tracking, Pictures, Link, NoReaction, sleepVars, deviceVars
<1>5. CASE UNCHANGED vars
  BY <1>5 DEF vars, sleepVars, deviceVars
<1> QED
  BY <1>1, <1>2, <1>3, <1>4, <1>5 DEF Next, Reactions

\* Whatever touches, threads and the idle watcher do, the flag is set while the
\* device sleeps, or a wake command is on its way or was overtaken.
THEOREM SleepIsKnown == Spec => []SleepingIsKnown
<1>1. Init => SleepInv
  BY DEF Init, SleepInv, SleepingIsKnown
<1>2. TypeOK /\ SleepInv /\ [Next]_vars => SleepInv'
  BY SleepStep
<1>3. SleepInv => SleepingIsKnown
  BY DEF SleepInv
<1> QED
  BY <1>1, <1>2, <1>3, TypeCorrect, PTL DEF Spec

-----------------------------------------------------------------------------
(* Whose picture a caller gets *)

\* While the future of a caller without doubt is in the slot, every answer that
\* the device owes is for that caller, and nobody else is about to ask.
Unmixed(c) ==
    slot = c /\ call[c].at # "idle" /\ ~doubt[c] =>
        /\ \A i \in 1 .. Len(answers) : answers[i] = c
        /\ \A d \in Callers : call[d].at = "sending" => d = c

AllUnmixed == \A c \in Callers : Unmixed(c)

LEMMA UnmixedStep ==
    ASSUME PictureTypes, AllUnmixed, [Next]_vars
    PROVE  AllUnmixed'
<1> DEFINE T == Callers \cup {"nobody"}
<1> SUFFICES ASSUME NEW c \in Callers, slot' = c, call'[c].at # "idle", ~doubt'[c]
             PROVE  /\ \A i \in 1 .. Len(answers') : answers'[i] = c
                    /\ \A d \in Callers : call'[d].at = "sending" => d = c
  BY DEF AllUnmixed, Unmixed
<1>0. Len(answers) \in Nat /\ DOMAIN answers = 1 .. Len(answers)
  BY SeqFacts DEF PictureTypes
<1>1. CASE UNCHANGED pictureVars
  BY <1>1 DEF pictureVars, AllUnmixed, Unmixed
<1>2. ASSUME NEW d \in Callers, Ask(d)
      PROVE  /\ \A i \in 1 .. Len(answers') : answers'[i] = c
             /\ \A e \in Callers : call'[e].at = "sending" => e = c
  <2>1. d = c
    BY <1>2 DEF Ask, TakeSlot
  <2>2. answers' = <<>> /\ Sending = {}
    BY <1>2, <2>1 DEF Ask, PictureTypes
  <2>3. \A e \in Callers : call'[e].at = "sending" => e = c
    BY <1>2, <2>1, <2>2 DEF Ask, Sending, PictureTypes
  <2> QED
    BY <2>2, <2>3, EmptySeq
<1>3. ASSUME NEW d \in Callers, Send(d)
      PROVE  /\ \A i \in 1 .. Len(answers') : answers'[i] = c
             /\ \A e \in Callers : call'[e].at = "sending" => e = c
  <2>1. slot = c /\ ~doubt[c] /\ call[c].at # "idle"
    BY <1>3 DEF Send, PictureTypes
  <2>2. d = c /\ \A i \in 1 .. Len(answers) : answers[i] = c
    BY <1>3, <2>1 DEF Send, AllUnmixed, Unmixed
  <2>3. \A e \in Callers : call'[e].at = "sending" => e = c
    BY <1>3, <2>1 DEF Send, AllUnmixed, Unmixed, PictureTypes
  <2>4. \A i \in 1 .. Len(answers') : answers'[i] = c
    <3>1. CASE answers' = answers
      BY <2>2, <3>1
    <3>2. CASE answers' = Append(answers, c)
      <4>1. /\ Len(answers') = Len(answers) + 1 /\ answers'[Len(answers) + 1] = c
            /\ \A i \in 1 .. Len(answers) : answers'[i] = answers[i]
        BY <3>2, SeqFacts DEF PictureTypes
      <4> QED
        BY <1>0, <4>1, <2>2
    <3> QED
      BY <1>3, <2>2, <3>1, <3>2 DEF Send
  <2> QED
    BY <2>3, <2>4
<1>4. ASSUME NEW d \in Callers, Over(d)
      PROVE  /\ \A i \in 1 .. Len(answers') : answers'[i] = c
             /\ \A e \in Callers : call'[e].at = "sending" => e = c
  <2>1. d # c
    BY <1>4 DEF Over, Idle, PictureTypes
  <2>2. slot = c /\ ~doubt[c] /\ call[c].at # "idle"
    BY <1>4, <2>1 DEF Over, PictureTypes
  <2>3. /\ \A i \in 1 .. Len(answers) : answers[i] = c
        /\ \A e \in Callers : call[e].at = "sending" => e = c
    BY <2>2 DEF AllUnmixed, Unmixed
  <2>4. answers' \in [1 .. Len(answers) -> T]
    BY <1>0, <1>4, LenProperties DEF Over, PictureTypes
  <2>5. Len(answers') = Len(answers)
    BY <1>0, <2>4, MappedSeq
  <2>6. \A i \in 1 .. Len(answers') : answers'[i] = c
    BY <1>0, <1>4, <2>1, <2>3, <2>5 DEF Over
  <2>7. \A e \in Callers : call'[e].at = "sending" => e = c
    BY <1>4, <2>3 DEF Over, Idle, PictureTypes
  <2> QED
    BY <2>6, <2>7
<1>5. ASSUME NEW result \in {"picture", "failed"}, Answer(result)
      PROVE  FALSE
  BY <1>5, SnapshotAssumption DEF Answer
<1>6. CASE LinkBreaks
  <2>1. answers' = <<>> /\ slot = c /\ ~doubt[c] /\ call' = call
    BY <1>6 DEF LinkBreaks
  <2>2. \A d \in Callers : call'[d].at = "sending" => d = c
    BY <2>1 DEF AllUnmixed, Unmixed
  <2> QED
    BY <2>1, <2>2, EmptySeq
<1> QED
  BY <1>1, <1>2, <1>3, <1>4, <1>5, <1>6, PictureSteps

\* For any number of callers: request_snapshot gives a caller the picture it
\* asked for, unless an older request was on its way when it asked.
THEOREM OwnPictureGiven == Spec => OwnPicture
<1> DEFINE P == \A c \in Callers :
                  call[c].result = "none" /\ call'[c].result = "picture"
                      => Head(answers) = c \/ doubt[c]
<1>1. Init => AllUnmixed
  BY DEF Init, SnapshotInit, AllUnmixed, Unmixed, Idle
<1>2. TypeOK => PictureTypes
  BY DEF TypeOK, SnapshotTypes, PictureTypes
<1>3. TypeOK /\ AllUnmixed /\ [Next]_vars => AllUnmixed'
  BY <1>2, UnmixedStep
<1>4. TypeOK /\ AllUnmixed /\ [Next]_vars => [P]_snapshotVars
  <2> SUFFICES ASSUME TypeOK, AllUnmixed, [Next]_vars, NEW c \in Callers,
                      call[c].result = "none", call'[c].result = "picture", ~doubt[c]
               PROVE  Head(answers) = c
    OBVIOUS
  <2>0. PictureTypes
    BY <1>2
  <2>1. PICK result \in {"picture", "failed"} : Answer(result)
    <3>1. ~UNCHANGED pictureVars /\ ~LinkBreaks
      BY DEF pictureVars, LinkBreaks
    <3>2. ASSUME NEW d \in Callers, Ask(d) \/ Send(d) \/ Over(d)
          PROVE  FALSE
      BY <2>0, <3>2 DEF Ask, Send, Over, Idle, PictureTypes, Calls
    <3> QED
      BY <3>1, <3>2, PictureSteps
  <2>2. slot = c /\ call[c].at # "idle" /\ answers # <<>>
    BY <2>0, <2>1 DEF Answer, Waits, PictureTypes
  <2>3. Len(answers) >= 1 /\ Head(answers) = answers[1] /\ Len(answers) \in Nat
    BY <2>0, <2>2, SeqFacts DEF PictureTypes
  <2> QED
    BY <2>2, <2>3 DEF AllUnmixed, Unmixed
<1> QED
  BY <1>1, <1>3, <1>4, TypeCorrect, PTL DEF Spec, OwnPicture
=============================================================================
