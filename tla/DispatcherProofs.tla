--------------------------- MODULE DispatcherProofs ---------------------------
(***************************************************************************)
(* Proofs about the dispatcher for every set of faces, every field layout  *)
(* of the countdown and every clock: its types, that the countdown is in   *)
(* its settings only while it is the face on screen, that a pending timer  *)
(* has its task in the table, and that a due task is noticed in time.      *)
(***************************************************************************)
EXTENDS Dispatcher, TLAPS

(* All of the countdown's type that the argument needs.                    *)
HasFields(c) ==
  DOMAIN c = {"mode", "selection", "left", "set", "target", "nowTs", "repeat"}

IInv == HasFields(countdown) /\ SettingOnlyOnScreen

(* Drawing changes no mode, and the arms that schedule or cancel a task    *)
(* leave a mode other than Setting.                                        *)
LEMMA DrawnKeepsMode ==
  ASSUME NEW c, HasFields(c)
  PROVE  HasFields(Drawn(c)) /\ Drawn(c).mode = c.mode
  BY DEF HasFields, Drawn

LEMMA StoppedIsReset ==
  ASSUME NEW c, HasFields(c)
  PROVE  /\ HasFields(Stopped(c)) /\ Stopped(c).mode = "Reset"
         /\ HasFields(Stored(c)) /\ Stored(c).mode = "Reset"
  BY DEF HasFields, Stopped, Stored

(* Of all events only a button can open the settings.                      *)
LEMMA ShownOpensSettingsByButton ==
  ASSUME NEW c, HasFields(c), NEW e
  PROVE  /\ HasFields(CountdownShown(c, e))
         /\ CountdownShown(c, e).mode = "Setting" => c.mode = "Setting" \/ e = "LightUp"
<1>1. HasFields(Counted(c)) /\ Counted(c).mode = c.mode
  BY DEF HasFields, Counted
<1>2. CASE e = "Tick"
  BY <1>1, <1>2 DEF CountdownShown
<1>3. CASE e = "LightUp"
  BY <1>3, StoppedIsReset DEF CountdownShown, HasFields
<1>4. CASE e \notin {"Tick", "LightUp"}
  BY <1>4 DEF CountdownShown, HasFields
<1>5. QED
  BY <1>2, <1>3, <1>4

(* So a whole call of the countdown's loop_ ends in Setting only if it     *)
(* began there or was given a button.                                      *)
LEMMA LoopOpensSettingsByButton ==
  ASSUME NEW e, NEW t, NEW q, HasFields(countdown), CountdownLoop(e, t, q)
  PROVE  /\ HasFields(countdown')
         /\ countdown'.mode = "Setting" => countdown.mode = "Setting" \/ e = "LightUp"
<1> USE DEF HasFields
<1>1. CASE e = "AlarmUp" /\ countdown.mode \in {"Reset", "Paused"} /\ countdown.left > 0
  <2> DEFINE c == [countdown EXCEPT !.mode = "Running"]
             d == [c EXCEPT !.target = now + c.left, !.nowTs = now]
  <2>1. HasFields(d) /\ d.mode = "Running"
    OBVIOUS
  <2>2. countdown' = Drawn(d)
    BY <1>1 DEF CountdownLoop, CountdownSchedules
  <2>3. QED
    BY <2>1, <2>2, DrawnKeepsMode
<1>2. CASE e = "AlarmUp" /\ countdown.mode = "Running"
  <2> DEFINE c == [countdown EXCEPT !.mode = "Paused"]
  <2>1. HasFields(c) /\ c.mode = "Paused"
    OBVIOUS
  <2>2. countdown' = Drawn(c)
    BY <1>2 DEF CountdownLoop, CountdownCancels
  <2>3. QED
    BY <2>1, <2>2, DrawnKeepsMode
<1>3. CASE e = "LightUp" /\ countdown.mode = "Paused"
  <2>1. countdown' = Drawn(Stopped(countdown))
    BY <1>3 DEF CountdownLoop, CountdownCancels
  <2>2. QED
    BY <2>1, StoppedIsReset, DrawnKeepsMode
<1>4. CASE e = "BackgroundTask" /\ countdown.repeat
  <2> DEFINE c == [countdown EXCEPT !.left = countdown.set]
             d == [c EXCEPT !.target = now + c.left, !.nowTs = now]
  <2>1. HasFields(d) /\ d.mode = countdown.mode
    OBVIOUS
  <2>2. countdown' = Drawn(d)
    BY <1>4 DEF CountdownLoop, CountdownSchedules
  <2>3. QED
    BY <2>1, <2>2, DrawnKeepsMode
<1>5. CASE e = "BackgroundTask" /\ ~countdown.repeat
  <2>1. countdown' = Drawn(Stopped(countdown))
    BY <1>5 DEF CountdownLoop, CountdownCancels
  <2>2. QED
    BY <2>1, StoppedIsReset, DrawnKeepsMode
<1>6. CASE /\ ~(e = "AlarmUp" /\ countdown.mode \in {"Reset", "Paused"} /\ countdown.left > 0)
           /\ ~(e = "AlarmUp" /\ countdown.mode = "Running")
           /\ ~(e = "LightUp" /\ countdown.mode = "Paused")
           /\ e # "BackgroundTask"
  <2>1. countdown' = Drawn(CountdownShown(countdown, e))
    BY <1>6 DEF CountdownLoop
  <2>2. QED
    BY <2>1, ShownOpensSettingsByButton, DrawnKeepsMode
<1>7. QED
  BY <1>1, <1>2, <1>3, <1>4, <1>5, <1>6

(* The other faces do not touch the countdown.                             *)
LEMMA OthersLeaveCountdown ==
  ASSUME NEW f, NEW e, NEW t, NEW q, f # CountdownFace, FaceLoop(f, e, t, q)
  PROVE  countdown' = countdown
<1>1. CASE f = TomatoFace
  <2>1. TomatoLoop(e, t, q)
    BY <1>1, DispatcherAssumption DEF FaceLoop
  <2>2. QED
    BY <2>1 DEF TomatoLoop
<1>2. CASE f # TomatoFace
  <2>1. ClockLoop(e, t, q)
    BY <1>2 DEF FaceLoop
  <2>2. QED
    BY <2>1 DEF ClockLoop
<1>3. QED
  BY <1>1, <1>2

(* A call of any face keeps the invariant, as long as a button reaches     *)
(* only the face on screen.                                                *)
LEMMA FaceLoopKeepsIInv ==
  ASSUME NEW f, NEW e, NEW t, NEW q, IInv, FaceLoop(f, e, t, q), current' = current,
         f = current \/ e # "LightUp"
  PROVE  IInv'
<1>1. CASE f = CountdownFace
  <2>1. CountdownLoop(e, t, q)
    BY <1>1, DispatcherAssumption DEF FaceLoop
  <2>2. /\ HasFields(countdown')
        /\ countdown'.mode = "Setting" => countdown.mode = "Setting" \/ e = "LightUp"
    BY <2>1, LoopOpensSettingsByButton DEF IInv
  <2>3. QED
    BY <1>1, <2>2 DEF IInv, SettingOnlyOnScreen, HasFields
<1>2. CASE f # CountdownFace
  BY <1>2, OthersLeaveCountdown DEF IInv, SettingOnlyOnScreen, HasFields
<1>3. QED
  BY <1>1, <1>2

LEMMA SwitchFaceKeepsIInv ==
  ASSUME IInv, SwitchFace
  PROVE  IInv'
<1> DEFINE left == IF current = CountdownFace THEN Resigned(countdown) ELSE countdown
<1>1. CASE ~changed
  BY <1>1 DEF SwitchFace, IInv, SettingOnlyOnScreen, HasFields
<1>2. CASE changed
  <2>1. HasFields(left) /\ left.mode # "Setting"
    BY StoppedIsReset DEF IInv, SettingOnlyOnScreen, Resigned
  <2>2. HasFields(Activated(left)) /\ Activated(left).mode = left.mode
    BY <2>1 DEF HasFields, Activated
  <2>3. countdown' = Activated(left) \/ countdown' = left
    BY <1>2 DEF SwitchFace
  <2> HIDE DEF left
  <2>4. HasFields(countdown') /\ countdown'.mode # "Setting"
    BY <2>1, <2>2, <2>3
  <2>5. QED
    BY <2>4 DEF IInv, SettingOnlyOnScreen, HasFields
<1>3. QED
  BY <1>1, <1>2

(* A scheduled task hands its face no button, the main loop hands buttons  *)
(* to the face on screen only, and a face change resigns the countdown     *)
(* before another face appears.                                            *)
LEMMA IInvInductive == IInv /\ [Next]_vars => IInv'
<1> SUFFICES ASSUME IInv, [Next]_vars
             PROVE  IInv'
  OBVIOUS
<1>1. CASE UNCHANGED <<countdown, current>>
  BY <1>1 DEF IInv, SettingOnlyOnScreen, HasFields
<1>2. CASE SwitchFace
  BY <1>2, SwitchFaceKeepsIInv
<1>3. CASE RunTask
  <2>1. PICK f \in Face : FaceLoop(f, "BackgroundTask", [tasks EXCEPT ![f] = 0], fifo)
    BY <1>3 DEF RunTask
  <2>2. current' = current
    BY <1>3 DEF RunTask
  <2>3. QED
    BY <2>1, <2>2, FaceLoopKeepsIInv
<1>4. CASE React
  <2>1. FaceLoop(current, Front(fifo), tasks, Dequeue(fifo)) /\ current' = current
    BY <1>4 DEF React
  <2>2. QED
    BY <2>1, FaceLoopKeepsIInv
<1>5. CASE FinishTasks \/ EnterStandby \/ SecondPasses \/ FastTick \/ AlarmFired
  BY <1>1, <1>5 DEF FinishTasks, EnterStandby, SecondPasses, FastTick, AlarmFired,
                    faceVars, timerVars
<1>6. CASE \E e \in ButtonEvent : PressButton(e)
  BY <1>1, <1>6 DEF PressButton, faceVars, timerVars
<1>7. CASE UNCHANGED vars
  BY <1>1, <1>7 DEF vars, faceVars, timerVars
<1>8. QED
  BY <1>2, <1>3, <1>4, <1>5, <1>6, <1>7 DEF Next, MainStep

(* The countdown is never left in its settings while another face is on    *)
(* screen, whatever the user presses and whatever tasks run meanwhile.     *)
THEOREM SettingsCloseWithFace == Spec => []SettingOnlyOnScreen
<1>1. Init => IInv
  BY DEF Init, IInv, HasFields, SettingOnlyOnScreen
<1>2. IInv => SettingOnlyOnScreen
  BY DEF IInv
<1>3. QED
  BY <1>1, <1>2, IInvInductive, PTL DEF Spec

-----------------------------------------------------------------------------
(* The types.                                                              *)

Queue == {q \in Seq(Event) : Len(q) <= Capacity}

CountdownState ==
  [mode : {"Running", "Reset", "Paused", "Setting"}, selection : Selection,
   left : Nat, set : Nat, target : Nat, nowTs : Nat, repeat : BOOLEAN]

TomatoState == [mode : {"Run", "Ready"}, target : Nat]

Flags ==
  /\ lag \in BOOLEAN /\ tickOn \in BOOLEAN /\ minuteOn \in BOOLEAN
  /\ showSeconds \in BOOLEAN /\ alarmArmed \in BOOLEAN /\ changed \in BOOLEAN

LoopTypes ==
  /\ now \in Second /\ dateTime \in Second /\ index \in 0 .. NumFaces
  /\ pc \in {"switch", "tasks", "react", "sleep", "asleep"}
  /\ fifo \in Queue /\ current \in Face /\ next \in Face

TimerTypes ==
  /\ tasks \in [Face -> Nat] /\ countdown \in CountdownState /\ tomato \in TomatoState
  /\ robbed \subseteq Face

Types == Flags /\ LoopTypes /\ TimerTypes

LEMMA TypesAreTypeOK == Types => TypeOK
  BY DEF Types, Flags, LoopTypes, TimerTypes, TypeOK, Queue, CountdownState, TomatoState

(* What the queue operators do to a queue.                                 *)
LEMMA QueueOperators ==
  ASSUME NEW q \in Queue
  PROVE  /\ \A e \in Event : Enqueue(q, e) \in Queue
         /\ Dequeue(q) \in Queue /\ Front(q) \in Event
<1>1. q \in Seq(Event) /\ Len(q) <= Capacity /\ Len(q) \in Nat
      /\ Capacity \in Nat \ {0} /\ Tick \in Event
  BY EventFifoAssumption DEF Queue
<1>2. ASSUME NEW e \in Event PROVE Enqueue(q, e) \in Queue
  <2>1. CASE Len(q) = Capacity
    <3>1. q # <<>>
      BY <1>1, <2>1
    <3>2. Tail(q) \in Seq(Event) /\ Len(Tail(q)) = Len(q) - 1
      BY <1>1, <3>1
    <3>3. Append(Tail(q), e) \in Seq(Event) /\ Len(Append(Tail(q), e)) = Len(q)
      BY <1>1, <3>2
    <3>4. QED
      BY <1>1, <2>1, <3>3 DEF Enqueue, Queue
  <2>2. CASE Len(q) # Capacity
    <3>1. Append(q, e) \in Seq(Event) /\ Len(Append(q, e)) = Len(q) + 1
      BY <1>1
    <3>2. QED
      BY <1>1, <2>2, <3>1 DEF Enqueue, Queue
  <2>3. QED
    BY <2>1, <2>2
<1>3. CASE q = <<>>
  BY <1>1, <1>2, <1>3 DEF Dequeue, Front
<1>4. CASE q # <<>>
  <2>1. Tail(q) \in Seq(Event) /\ Len(Tail(q)) = Len(q) - 1 /\ Head(q) \in Event
    BY <1>1, <1>4
  <2>2. QED
    BY <1>1, <1>2, <1>4, <2>1 DEF Dequeue, Front, Queue
<1>5. QED
  BY <1>3, <1>4

LEMMA EdgePostsQueue ==
  ASSUME NEW q \in Queue, NEW t
  PROVE  EdgePosts(q, t) \in Queue
<1>1. Tick \in Event
  BY EventFifoAssumption
<1> DEFINE ticked == IF tickOn THEN Enqueue(q, Tick) ELSE q
<1>2. ticked \in Queue
  BY <1>1, QueueOperators
<1>3. Enqueue(ticked, Tick) \in Queue
  <2> HIDE DEF ticked
  <2>1. QED
    BY <1>1, <1>2, QueueOperators
<1>4. QED
  BY <1>2, <1>3 DEF EdgePosts

(* Every face the mode button can lead to is a face.                       *)
LEMMA FacesAreFaces ==
  ASSUME current \in Face
  PROVE  NextFace \in Face /\ LongPressFace \in Face
<1>1. /\ NumFaces \in Nat /\ Secondary \in 0 .. NumFaces - 1
      /\ current \in 0 .. NumFaces - 1
  BY DispatcherAssumption DEF Face
<1>2. ASSUME NEW n \in Nat \ {0}, n <= NumFaces PROVE (current + 1) % n \in 0 .. NumFaces - 1
  <2>1. (current + 1) % n \in 0 .. n - 1
    BY <1>1
  <2>2. QED
    BY <1>1, <1>2, <2>1
<1>3. NextFace \in Face
  <2>1. CASE Secondary # 0 /\ current < Secondary
    BY <1>1, <1>2, <2>1 DEF NextFace, Face
  <2>2. CASE ~(Secondary # 0 /\ current < Secondary)
    BY <1>1, <1>2, <2>2 DEF NextFace, Face
  <2>3. QED
    BY <2>1, <2>2
<1>4. LongPressFace \in Face
  BY <1>1 DEF LongPressFace, Face
<1>5. QED
  BY <1>3, <1>4

(* Taking one digit of the countdown out leaves no negative time.          *)
LEMMA Digits ==
  ASSUME NEW v \in Nat, NEW s \in Selection
  PROVE  /\ \A d \in Nat : WithDigit(v, s, d) \in Nat
         /\ (Digit(v, s) + 1) % Modulus[s] \in Nat
<1> DEFINE w == Weight[s]
           m == Modulus[s]
           k == v \div w
           d0 == k % m
<1>1. w \in Nat \ {0} /\ m \in Nat \ {0}
  BY DispatcherAssumption
<1>2. k \in Nat /\ k * w \in Nat /\ k * w <= v
  <2> HIDE DEF w
  <2>1. QED
    BY <1>1
<1>3. d0 \in Nat /\ d0 <= k
  <2> HIDE DEF m, k
  <2>1. QED
    BY <1>1, <1>2
<1>4. d0 * w \in Nat /\ d0 * w <= k * w
  <2> HIDE DEF m, k, w, d0
  <2>1. QED
    BY <1>1, <1>2, <1>3
<1>5. v - d0 * w \in Nat
  <2> HIDE DEF d0, w
  <2> DEFINE x == d0 * w
             y == k * w
  <2>1. x \in Nat /\ y \in Nat /\ x <= y /\ y <= v
    BY <1>2, <1>4
  <2> HIDE DEF x, y, k
  <2>2. v - x \in Nat
    BY <2>1
  <2>3. QED
    BY <2>2 DEF x
<1>6. ASSUME NEW d \in Nat PROVE WithDigit(v, s, d) \in Nat
  <2>1. d * w \in Nat
    <3> HIDE DEF w
    <3>1. QED
      BY <1>1
  <2>2. WithDigit(v, s, d) = v - d0 * w + d * w
    BY DEF WithDigit, Digit
  <2>3. QED
    <3> DEFINE x == v - d0 * w
               y == d * w
    <3>1. x \in Nat /\ y \in Nat /\ WithDigit(v, s, d) = x + y
      BY <1>5, <2>1, <2>2
    <3> HIDE DEF x, y
    <3>2. QED
      BY <3>1
<1>7. (Digit(v, s) + 1) % Modulus[s] \in Nat
  <2>1. Digit(v, s) = d0
    BY DEF Digit
  <2> HIDE DEF d0, m
  <2>2. (d0 + 1) % m \in Nat
    BY <1>1, <1>3
  <2>3. QED
    BY <2>1, <2>2 DEF m
<1>8. QED
  BY <1>6, <1>7

-----------------------------------------------------------------------------
(* What a call of a face's loop_ may do to the clock, the queue and the    *)
(* task table.  A second passes during at most one call of a pass.         *)
TimePasses ==
  /\ now' \in Second /\ lag' \in BOOLEAN
  /\ \/ now' = now /\ lag' = lag
     \/ ~lag /\ lag' /\ now <= now' /\ now' <= now + 1

LEMMA NoEdgeTypes ==
  ASSUME Types, NEW q \in Queue, NoEdge(q)
  PROVE  TimePasses /\ now' = now /\ fifo' \in Queue
  BY DEF Types, LoopTypes, Flags, NoEdge, TimePasses

LEMMA NextSecondTypes ==
  ASSUME Types
  PROVE  NextSecond \in Second /\ now <= NextSecond /\ NextSecond <= now + 1
  BY DispatcherAssumption DEF Types, LoopTypes, Second, NextSecond

LEMMA ScheduleTypes ==
  ASSUME Types, NEW q \in Queue, NEW t \in [Face -> Nat], NEW f \in Face, NEW due \in Nat,
         Schedule(t, f, due, q)
  PROVE  /\ TimePasses /\ fifo' \in Queue /\ tasks' \in [Face -> Nat]
         /\ tasks' = IF due > now' THEN [t EXCEPT ![f] = due] ELSE t
<1>1. [t EXCEPT ![f] = due] \in [Face -> Nat]
  OBVIOUS
<1>2. CASE /\ tasks' = IF due > now THEN [t EXCEPT ![f] = due] ELSE t
           /\ NoEdge(q)
  BY <1>1, <1>2, NoEdgeTypes
<1>3. CASE /\ ~lag /\ lag' = TRUE
           /\ now' = NextSecond
           /\ fifo' = EdgePosts(q, now')
           /\ tasks' = IF due > now' THEN [t EXCEPT ![f] = due] ELSE t
  BY <1>1, <1>3, NextSecondTypes, EdgePostsQueue DEF TimePasses
<1>4. QED
  BY <1>2, <1>3 DEF Schedule

-----------------------------------------------------------------------------
(* The countdown.                                                          *)

LEMMA DrawnTypes ==
  ASSUME NEW c \in CountdownState
  PROVE  /\ Drawn(c) \in CountdownState /\ Drawn(c).mode = c.mode
         /\ Drawn(c).target = IF c.mode = "Running" THEN c.target ELSE 0
<1>1. CASE c.mode # "Running"
  BY <1>1 DEF Drawn, CountdownState
<1>2. CASE c.mode = "Running"
  <2> DEFINE left == IF c.nowTs < c.target THEN c.target - c.nowTs ELSE 0
  <2>1. left \in Nat
    BY DEF CountdownState
  <2>2. Drawn(c) = [c EXCEPT !.left = left]
    BY <1>2 DEF Drawn
  <2> HIDE DEF left
  <2>3. QED
    BY <1>2, <2>1, <2>2 DEF CountdownState
<1>3. QED
  BY <1>1, <1>2

LEMMA StoppedTypes ==
  ASSUME NEW c \in CountdownState
  PROVE  /\ Stopped(c) \in CountdownState /\ Stopped(c).mode = "Reset"
         /\ Stored(c) \in CountdownState /\ Stored(c).mode = "Reset"
<1>1. 0 \in Selection
  BY DispatcherAssumption DEF Selection
<1>2. QED
  BY <1>1 DEF CountdownState, Stopped, Stored

(* The arms that neither schedule nor cancel start no countdown and move   *)
(* no target.                                                              *)
LEMMA ShownTypes ==
  ASSUME NEW c \in CountdownState, NEW e
  PROVE  /\ CountdownShown(c, e) \in CountdownState
         /\ CountdownShown(c, e).mode = "Running" =>
              c.mode = "Running" /\ CountdownShown(c, e).target = c.target
<1> DEFINE Fits(d) == d \in CountdownState /\ (d.mode = "Running" =>
                       c.mode = "Running" /\ d.target = c.target)
<1>1. Fits(c) /\ Fits(Stored(c))
  BY StoppedTypes
<1>2. Fits(Counted(c))
  BY DEF Counted, CountdownState
<1>3. Fits([c EXCEPT !.mode = "Setting"])
  BY DEF CountdownState
<1>4. c.selection + 1 \in Selection => Fits([c EXCEPT !.selection = @ + 1])
  BY DEF CountdownState
<1>5. Fits([c EXCEPT !.repeat = ~@])
  BY DEF CountdownState
<1>6. \A d \in Nat : Fits([c EXCEPT !.left = WithDigit(@, c.selection, d)])
  <2> SUFFICES ASSUME NEW d \in Nat PROVE Fits([c EXCEPT !.left = WithDigit(@, c.selection, d)])
    OBVIOUS
  <2>1. c.left \in Nat /\ c.selection \in Selection
    BY DEF CountdownState
  <2>2. WithDigit(c.left, c.selection, d) \in Nat
    BY <2>1, Digits
  <2>3. QED
    BY <2>2 DEF CountdownState
<1>7. (Digit(c.left, c.selection) + 1) % Modulus[c.selection] \in Nat
  <2>1. c.left \in Nat /\ c.selection \in Selection
    BY DEF CountdownState
  <2>2. QED
    BY <2>1, Digits
<1>8. Fits([c EXCEPT !.left = WithDigit(@, c.selection,
                                (Digit(@, c.selection) + 1) % Modulus[c.selection])])
  <2> DEFINE d == (Digit(c.left, c.selection) + 1) % Modulus[c.selection]
  <2>1. d \in Nat
    BY <1>7
  <2>2. Fits([c EXCEPT !.left = WithDigit(@, c.selection, d)])
    <3> HIDE DEF d, Fits
    <3>1. QED
      BY <1>6, <2>1
  <2>3. QED
    BY <2>2
<1>9. Fits([c EXCEPT !.left = WithDigit(@, c.selection, 0)])
  BY <1>6
<1>10. Fits(CountdownShown(c, e))
  <2> HIDE DEF Fits
  <2>1. CASE e = "Tick"
    BY <1>2, <2>1 DEF CountdownShown
  <2>2. CASE e = "LightUp"
    BY <1>1, <1>3, <1>4, <2>2 DEF CountdownShown
  <2>3. CASE e = "AlarmUp"
    BY <1>1, <1>8, <2>3 DEF CountdownShown
  <2>4. CASE e = "AlarmLongPress"
    BY <1>1, <1>5, <2>4 DEF CountdownShown
  <2>5. CASE e = "LightLongPress"
    BY <1>1, <1>9, <2>5 DEF CountdownShown
  <2>6. CASE e \notin {"Tick", "LightUp", "AlarmUp", "AlarmLongPress", "LightLongPress"}
    BY <1>1, <2>6 DEF CountdownShown
  <2>7. QED
    BY <2>1, <2>2, <2>3, <2>4, <2>5, <2>6
<1>11. QED
  BY <1>10

(* A call of the countdown's loop_ schedules a task for now plus what is   *)
(* left, or cancels it and does not run, or leaves the table alone.        *)
LEMMA CountdownLoopCases ==
  ASSUME Types, NEW e, NEW t, NEW q, CountdownLoop(e, t, q)
  PROVE  \/ \E c \in CountdownState :
              /\ countdown' = Drawn([c EXCEPT !.target = now + c.left, !.nowTs = now])
              /\ Schedule(t, CountdownFace, now + c.left, q)
         \/ \E c \in CountdownState : c.mode # "Running" /\ CountdownCancels(c, t, q)
         \/ /\ e # "BackgroundTask"
            /\ countdown' = Drawn(CountdownShown(countdown, e)) /\ tasks' = t /\ NoEdge(q)
<1>1. countdown \in CountdownState
  BY DEF Types, TimerTypes
<1>2. CASE e = "AlarmUp" /\ countdown.mode \in {"Reset", "Paused"} /\ countdown.left > 0
  <2> DEFINE c == [countdown EXCEPT !.mode = "Running"]
  <2>1. c \in CountdownState
    BY <1>1 DEF CountdownState
  <2>2. CountdownSchedules(c, t, q)
    BY <1>2 DEF CountdownLoop
  <2> HIDE DEF c
  <2>3. QED
    BY <2>1, <2>2 DEF CountdownSchedules
<1>3. CASE e = "AlarmUp" /\ countdown.mode = "Running"
  <2> DEFINE c == [countdown EXCEPT !.mode = "Paused"]
  <2>1. c \in CountdownState /\ c.mode # "Running"
    BY <1>1 DEF CountdownState
  <2>2. CountdownCancels(c, t, q)
    BY <1>3 DEF CountdownLoop
  <2> HIDE DEF c
  <2>3. QED
    BY <2>1, <2>2
<1>4. CASE e = "LightUp" /\ countdown.mode = "Paused"
  <2>1. CountdownCancels(Stopped(countdown), t, q)
    BY <1>4 DEF CountdownLoop
  <2>2. QED
    BY <1>1, <2>1, StoppedTypes
<1>5. CASE e = "BackgroundTask" /\ countdown.repeat
  <2> DEFINE c == [countdown EXCEPT !.left = countdown.set]
  <2>1. c \in CountdownState
    BY <1>1 DEF CountdownState
  <2>2. CountdownSchedules(c, t, q)
    BY <1>5 DEF CountdownLoop
  <2> HIDE DEF c
  <2>3. QED
    BY <2>1, <2>2 DEF CountdownSchedules
<1>6. CASE e = "BackgroundTask" /\ ~countdown.repeat
  <2>1. CountdownCancels(Stopped(countdown), t, q)
    BY <1>6 DEF CountdownLoop
  <2>2. QED
    BY <1>1, <2>1, StoppedTypes
<1>7. CASE /\ ~(e = "AlarmUp" /\ countdown.mode \in {"Reset", "Paused"} /\ countdown.left > 0)
           /\ ~(e = "AlarmUp" /\ countdown.mode = "Running")
           /\ ~(e = "LightUp" /\ countdown.mode = "Paused")
           /\ e # "BackgroundTask"
  BY <1>7 DEF CountdownLoop
<1>8. QED
  BY <1>2, <1>3, <1>4, <1>5, <1>6, <1>7

-----------------------------------------------------------------------------
(* What every face's loop_ keeps: the types, some way to be woken, and in  *)
(* the table each task, or nothing, or a task of the future.               *)
LoopKeeps(t) ==
  /\ TimePasses /\ fifo' \in Queue
  /\ tickOn' \in BOOLEAN /\ minuteOn' \in BOOLEAN /\ showSeconds' \in BOOLEAN
  /\ tickOn \/ minuteOn => tickOn' \/ minuteOn'
  /\ tasks' \in [Face -> Nat] /\ countdown' \in CountdownState /\ tomato' \in TomatoState
  /\ robbed' \subseteq Face
  /\ \A g \in Face : tasks'[g] = t[g] \/ tasks'[g] = 0 \/ tasks'[g] > now'

LEMMA ClockLoopKeeps ==
  ASSUME Types, NEW e, NEW t \in [Face -> Nat], NEW q \in Queue, ClockLoop(e, t, q)
  PROVE  LoopKeeps(t) /\ tasks' = t /\ now' = now /\ UNCHANGED <<countdown, tomato, robbed>>
<1>1. tasks' = t /\ NoEdge(q) /\ UNCHANGED <<countdown, tomato, robbed>>
  BY DEF ClockLoop
<1>2. TimePasses /\ now' = now /\ fifo' \in Queue
  BY <1>1, NoEdgeTypes
<1>3. /\ tickOn' \in BOOLEAN /\ minuteOn' \in BOOLEAN /\ showSeconds' \in BOOLEAN
      /\ tickOn \/ minuteOn => tickOn' \/ minuteOn'
  <2>1. tickOn \in BOOLEAN /\ minuteOn \in BOOLEAN /\ showSeconds \in BOOLEAN
    BY DEF Types, Flags
  <2>2. CASE e = "AlarmUp"
    <3>1. showSeconds' = ~showSeconds /\ tickOn' = ~showSeconds /\ minuteOn' = ~~showSeconds
      BY <2>2 DEF ClockLoop, SetTickRate
    <3>2. QED
      BY <2>1, <3>1, Zenon
  <2>3. CASE e = "Tick" /\ ~showSeconds
    <3>1. showSeconds' = showSeconds /\ tickOn' = FALSE /\ minuteOn' = ~FALSE
      BY <2>3 DEF ClockLoop, SetTickRate
    <3>2. QED
      BY <2>1, <3>1, Zenon
  <2>4. CASE e # "AlarmUp" /\ ~(e = "Tick" /\ ~showSeconds)
    <3>1. tickOn' = tickOn /\ minuteOn' = minuteOn /\ showSeconds' = showSeconds
      BY <2>4 DEF ClockLoop, rateVars
    <3>2. QED
      BY <2>1, <3>1, Zenon
  <2>5. QED
    BY <2>2, <2>3, <2>4
<1>4. QED
  BY <1>1, <1>2, <1>3 DEF LoopKeeps, Types, TimerTypes

LEMMA CountdownLoopKeeps ==
  ASSUME Types, NEW e, NEW t \in [Face -> Nat], NEW q \in Queue, CountdownLoop(e, t, q)
  PROVE  /\ LoopKeeps(t) /\ tomato' = tomato
         /\ \A g \in Face \ {CountdownFace} : tasks'[g] = t[g]
<1>1. CountdownFace \in Face
  BY DispatcherAssumption
<1>2. tomato' = tomato /\ UNCHANGED rateVars /\ (robbed' \subseteq Face)
  BY DEF CountdownLoop, Types, TimerTypes
<1>3. now \in Nat
  BY DispatcherAssumption DEF Types, LoopTypes, Second
<1>4. /\ TimePasses /\ fifo' \in Queue
      /\ tasks' \in [Face -> Nat] /\ countdown' \in CountdownState
      /\ \A g \in Face \ {CountdownFace} : tasks'[g] = t[g]
      /\ \A g \in Face : tasks'[g] = t[g] \/ tasks'[g] = 0 \/ tasks'[g] > now'
  <2>1. CASE \E c \in CountdownState :
               /\ countdown' = Drawn([c EXCEPT !.target = now + c.left, !.nowTs = now])
               /\ Schedule(t, CountdownFace, now + c.left, q)
    <3>1. PICK c \in CountdownState :
            /\ countdown' = Drawn([c EXCEPT !.target = now + c.left, !.nowTs = now])
            /\ Schedule(t, CountdownFace, now + c.left, q)
      BY <2>1
    <3>2. now + c.left \in Nat
      BY <1>3 DEF CountdownState
    <3>3. [c EXCEPT !.target = now + c.left, !.nowTs = now] \in CountdownState
      BY <1>3, <3>2 DEF CountdownState
    <3>4. countdown' \in CountdownState
      BY <3>1, <3>3, DrawnTypes
    <3>5. /\ TimePasses /\ fifo' \in Queue /\ tasks' \in [Face -> Nat]
          /\ tasks' = IF now + c.left > now' THEN [t EXCEPT ![CountdownFace] = now + c.left]
                      ELSE t
      BY <1>1, <3>1, <3>2, ScheduleTypes
    <3>6. QED
      BY <1>1, <3>4, <3>5
  <2>2. CASE \E c \in CountdownState : c.mode # "Running" /\ CountdownCancels(c, t, q)
    <3>1. PICK c \in CountdownState : CountdownCancels(c, t, q)
      BY <2>2
    <3>2. /\ countdown' = Drawn(c) /\ tasks' = [t EXCEPT ![CountdownFace] = 0] /\ NoEdge(q)
      BY <3>1 DEF CountdownCancels
    <3>3. QED
      BY <1>1, <3>2, DrawnTypes, NoEdgeTypes
  <2>3. CASE countdown' = Drawn(CountdownShown(countdown, e)) /\ tasks' = t /\ NoEdge(q)
    <3>1. CountdownShown(countdown, e) \in CountdownState
      BY ShownTypes DEF Types, TimerTypes
    <3>2. QED
      BY <2>3, <3>1, DrawnTypes, NoEdgeTypes
  <2>4. QED
    BY <2>1, <2>2, <2>3, CountdownLoopCases
<1>5. /\ tickOn' \in BOOLEAN /\ minuteOn' \in BOOLEAN /\ showSeconds' \in BOOLEAN
      /\ tickOn \/ minuteOn => tickOn' \/ minuteOn'
  BY <1>2 DEF Types, Flags, rateVars
<1>6. QED
  BY <1>2, <1>4, <1>5 DEF LoopKeeps, Types, TimerTypes

LEMMA TomatoLoopKeeps ==
  ASSUME Types, NEW e, NEW t \in [Face -> Nat], NEW q \in Queue, TomatoLoop(e, t, q)
  PROVE  /\ LoopKeeps(t) /\ countdown' = countdown
         /\ \A g \in Face \ {current} : tasks'[g] = t[g]
<1>1. current \in Face /\ now \in Nat /\ robbed \subseteq Face /\ tomato \in TomatoState
  BY DispatcherAssumption DEF Types, LoopTypes, TimerTypes, Second
<1>2. countdown' = countdown /\ UNCHANGED rateVars
  BY DEF TomatoLoop
<1>3. /\ TimePasses /\ fifo' \in Queue
      /\ tasks' \in [Face -> Nat] /\ tomato' \in TomatoState /\ robbed' \subseteq Face
      /\ \A g \in Face \ {current} : tasks'[g] = t[g]
      /\ \A g \in Face : tasks'[g] = t[g] \/ tasks'[g] = 0 \/ tasks'[g] > now'
  <2>1. CASE TomatoStarts(t, q)
    <3>1. PICK length \in TomatoLengths :
            /\ tomato' = [mode |-> "Run", target |-> now + length]
            /\ Schedule(t, current, now + length, q)
            /\ UNCHANGED robbed
      BY <2>1 DEF TomatoStarts
    <3>2. now + length \in Nat
      BY <1>1, DispatcherAssumption
    <3>3. /\ TimePasses /\ fifo' \in Queue /\ tasks' \in [Face -> Nat]
          /\ tasks' = IF now + length > now' THEN [t EXCEPT ![current] = now + length]
                      ELSE t
      BY <1>1, <3>1, <3>2, ScheduleTypes
    <3>4. tomato' \in TomatoState
      BY <3>1, <3>2 DEF TomatoState
    <3>5. QED
      BY <1>1, <3>1, <3>3, <3>4
  <2>2. CASE TomatoCancels(t, q)
    <3>1. /\ tomato' = [mode |-> "Ready", target |-> 0]
          /\ tasks' = [t EXCEPT ![current] = 0] /\ robbed' \subseteq Face /\ NoEdge(q)
      BY <1>1, <2>2 DEF TomatoCancels
    <3>2. tomato' \in TomatoState
      BY <3>1 DEF TomatoState
    <3>3. QED
      BY <1>1, <3>1, <3>2, NoEdgeTypes
  <2>3. CASE tasks' = t /\ NoEdge(q) /\ UNCHANGED <<tomato, robbed>>
    BY <1>1, <2>3, NoEdgeTypes
  <2>4. QED
    BY <2>1, <2>2, <2>3 DEF TomatoLoop
<1>4. /\ tickOn' \in BOOLEAN /\ minuteOn' \in BOOLEAN /\ showSeconds' \in BOOLEAN
      /\ tickOn \/ minuteOn => tickOn' \/ minuteOn'
  BY <1>2 DEF Types, Flags, rateVars
<1>5. QED
  BY <1>2, <1>3, <1>4 DEF LoopKeeps, Types, TimerTypes

LEMMA FaceLoopKeeps ==
  ASSUME Types, NEW f, NEW e, NEW t \in [Face -> Nat], NEW q \in Queue, FaceLoop(f, e, t, q)
  PROVE  LoopKeeps(t) /\ next' \in Face /\ changed' \in BOOLEAN
<1>1. next' \in Face /\ changed' \in BOOLEAN
  <2>1. NextFace \in Face /\ LongPressFace \in Face
    BY FacesAreFaces DEF Types, LoopTypes
  <2>2. Navigate(e)
    BY DEF FaceLoop
  <2>3. QED
    BY <2>1, <2>2 DEF Navigate, Types, LoopTypes, Flags
<1>2. CASE f = CountdownFace
  <2>1. CountdownLoop(e, t, q)
    BY <1>2, DispatcherAssumption DEF FaceLoop
  <2>2. QED
    BY <1>1, <2>1, CountdownLoopKeeps
<1>3. CASE f = TomatoFace
  <2>1. TomatoLoop(e, t, q)
    BY <1>3, DispatcherAssumption DEF FaceLoop
  <2>2. QED
    BY <1>1, <2>1, TomatoLoopKeeps
<1>4. CASE f \notin {CountdownFace, TomatoFace}
  <2>1. ClockLoop(e, t, q)
    BY <1>4 DEF FaceLoop
  <2>2. QED
    BY <1>1, <2>1, ClockLoopKeeps
<1>5. QED
  BY <1>2, <1>3, <1>4

-----------------------------------------------------------------------------
(* The types are inductive by themselves.                                  *)

LEMMA InitTypes == Init => Types
<1> SUFFICES ASSUME Init PROVE Types
  OBVIOUS
<1>1. /\ NumFaces \in Nat /\ 0 \in Face /\ 0 \in Selection /\ DefaultLeft \in Nat
      /\ 0 \in Second /\ 0 \in 0 .. NumFaces
  BY DispatcherAssumption DEF Face, Selection, Second
<1>2. Flags
  BY DEF Init, Flags
<1>3. fifo \in Queue
  BY EventFifoAssumption DEF Init, Queue
<1>4. LoopTypes
  BY <1>1, <1>3 DEF Init, LoopTypes
<1>5. TimerTypes
  <2>1. countdown \in CountdownState
    BY <1>1 DEF Init, CountdownState
  <2>2. tasks \in [Face -> Nat] /\ tomato \in TomatoState /\ robbed \subseteq Face
    BY DEF Init, TomatoState
  <2>3. QED
    BY <2>1, <2>2 DEF TimerTypes
<1>6. QED
  BY <1>2, <1>4, <1>5 DEF Types

(* A call of a face leaves the types of what it may write.                 *)
LEMMA LoopKeepsTypes ==
  ASSUME Types, NEW t, LoopKeeps(t), next' \in Face, changed' \in BOOLEAN,
         UNCHANGED <<alarmArmed, current, dateTime>>,
         index' \in 0 .. NumFaces, pc' \in {"switch", "tasks", "react", "sleep", "asleep"}
  PROVE  Types'
<1>1. Flags'
  BY DEF Types, Flags, LoopKeeps, TimePasses
<1>2. LoopTypes'
  BY DEF Types, LoopTypes, LoopKeeps, TimePasses
<1>3. TimerTypes'
  BY DEF LoopKeeps, TimerTypes
<1>4. QED
  BY <1>1, <1>2, <1>3 DEF Types

LEMMA SwitchFaceTypes ==
  ASSUME Types, SwitchFace
  PROVE  /\ Types'
         /\ countdown'.mode = "Running" =>
              countdown.mode = "Running" /\ countdown'.target = countdown.target
<1> DEFINE left == IF current = CountdownFace THEN Resigned(countdown) ELSE countdown
<1>1. countdown \in CountdownState /\ now \in Nat
  BY DispatcherAssumption DEF Types, LoopTypes, TimerTypes, Second
<1>2. left \in CountdownState /\ (left.mode = "Running" => left = countdown)
  BY <1>1, StoppedTypes DEF Resigned
<1>3. /\ countdown' \in CountdownState
      /\ countdown'.mode = "Running" =>
           countdown.mode = "Running" /\ countdown'.target = countdown.target
  <2>1. countdown' = countdown \/ countdown' = left \/ countdown' = Activated(left)
    BY DEF SwitchFace
  <2> HIDE DEF left
  <2>2. /\ Activated(left) \in CountdownState /\ Activated(left).mode = left.mode
        /\ Activated(left).target = left.target
    BY <1>1, <1>2 DEF Activated, CountdownState
  <2>3. QED
    BY <1>1, <1>2, <2>1, <2>2
<1>4. current' \in Face /\ changed' \in BOOLEAN
  BY DEF SwitchFace, Types, LoopTypes, Flags
<1>5. pc' \in {"tasks", "react"} /\ dateTime' \in Second
  BY DEF SwitchFace, Types, LoopTypes
<1>6. UNCHANGED <<now, lag, alarmArmed, tickOn, minuteOn, showSeconds, next, tasks,
                  tomato, robbed, fifo, index>>
  BY DEF SwitchFace, clockVars, rateVars
<1>7. Flags'
  BY <1>4, <1>6 DEF Types, Flags
<1>8. LoopTypes'
  BY <1>4, <1>5, <1>6 DEF Types, LoopTypes
<1>9. TimerTypes'
  BY <1>3, <1>6 DEF Types, TimerTypes
<1>10. QED
  BY <1>3, <1>7, <1>8, <1>9 DEF Types

(* What wakes the CPU changes nothing but where the main loop stands.      *)
LEMMA WakeUpTypes ==
  ASSUME Types, WakeUp
  PROVE  /\ pc' \in {"switch", "tasks", "react", "sleep", "asleep"} /\ lag' \in BOOLEAN
         /\ pc # "asleep" => pc' = pc /\ lag' = lag
         /\ pc = "asleep" => pc' = "switch" /\ ~lag'
<1>1. lag \in BOOLEAN /\ pc \in {"switch", "tasks", "react", "sleep", "asleep"}
  BY DEF Types, Flags, LoopTypes
<1>2. pc' = IF pc = "asleep" THEN "switch" ELSE pc
  BY DEF WakeUp
<1>3. lag' = (pc # "asleep" /\ lag)
  BY DEF WakeUp
<1>4. lag' \in BOOLEAN /\ (pc # "asleep" => lag' = lag) /\ (pc = "asleep" => ~lag')
  <2>1. CASE pc = "asleep"
    BY <1>3, <2>1
  <2>2. CASE pc # "asleep"
    <3>1. lag' = lag
      BY <1>1, <1>3, <2>2, Zenon
    <3>2. QED
      BY <1>1, <2>2, <3>1
  <2>3. QED
    BY <2>1, <2>2
<1>5. QED
  BY <1>1, <1>2, <1>4

LEMMA TypesInductive == Types /\ [Next]_vars => Types'
<1> SUFFICES ASSUME Types, [Next]_vars PROVE Types'
  OBVIOUS
<1>1. CASE SwitchFace
  BY <1>1, SwitchFaceTypes
<1>2. CASE RunTask
  <2>1. PICK f \in Face :
          /\ FaceLoop(f, "BackgroundTask", [tasks EXCEPT ![f] = 0], fifo)
          /\ index' = f + 1
    BY <1>2 DEF RunTask
  <2>2. [tasks EXCEPT ![f] = 0] \in [Face -> Nat] /\ fifo \in Queue
    BY DEF Types, TimerTypes, LoopTypes
  <2>3. /\ LoopKeeps([tasks EXCEPT ![f] = 0]) /\ next' \in Face /\ changed' \in BOOLEAN
    BY <2>1, <2>2, FaceLoopKeeps
  <2>4. index' \in 0 .. NumFaces
    BY <2>1, DispatcherAssumption DEF Face
  <2>5. UNCHANGED <<pc, alarmArmed, current, dateTime>>
    BY <1>2 DEF RunTask
  <2>6. pc' \in {"switch", "tasks", "react", "sleep", "asleep"}
    BY <2>5 DEF Types, LoopTypes
  <2>7. QED
    BY <2>3, <2>4, <2>5, <2>6, LoopKeepsTypes
<1>3. CASE FinishTasks
  <2>1. /\ pc' = "react" /\ index' = 0 /\ dateTime' = 0
        /\ UNCHANGED <<clockVars, rateVars, faceVars, timerVars, fifo>>
    BY <1>3 DEF FinishTasks
  <2>2. 0 \in Second /\ 0 \in 0 .. NumFaces
    BY DispatcherAssumption DEF Second
  <2>3. QED
    BY <2>1, <2>2 DEF Types, Flags, LoopTypes, TimerTypes,
                      clockVars, rateVars, faceVars, timerVars
<1>4. CASE React
  <2>1. FaceLoop(current, Front(fifo), tasks, Dequeue(fifo))
    BY <1>4 DEF React
  <2>2. Dequeue(fifo) \in Queue /\ tasks \in [Face -> Nat]
    BY QueueOperators DEF Types, LoopTypes, TimerTypes
  <2>3. LoopKeeps(tasks) /\ next' \in Face /\ changed' \in BOOLEAN
    BY <2>1, <2>2, FaceLoopKeeps
  <2>4. pc' = "sleep" /\ UNCHANGED <<alarmArmed, current, dateTime, index>>
    BY <1>4 DEF React
  <2>5. index' \in 0 .. NumFaces
    BY <2>4 DEF Types, LoopTypes
  <2>6. QED
    BY <2>3, <2>4, <2>5, LoopKeepsTypes
<1>5. CASE EnterStandby
  BY <1>5 DEF EnterStandby, Types, Flags, LoopTypes, TimerTypes, rateVars, faceVars, timerVars
<1>6. CASE SecondPasses
  <2>1. NextSecond \in Second /\ EdgePosts(fifo, now') \in Queue
    BY NextSecondTypes, EdgePostsQueue DEF Types, LoopTypes
  <2>2. now' \in Second /\ fifo' \in Queue
    BY <1>6, <2>1 DEF SecondPasses
  <2>3. lag' \in BOOLEAN /\ pc' \in {"switch", "tasks", "react", "sleep", "asleep"}
    BY <1>6 DEF SecondPasses, Types, LoopTypes
  <2>4. UNCHANGED <<alarmArmed, rateVars, faceVars, timerVars, dateTime, index>>
    BY <1>6 DEF SecondPasses
  <2>5. QED
    BY <2>2, <2>3, <2>4 DEF Types, Flags, LoopTypes, TimerTypes, rateVars, faceVars, timerVars
<1>7. CASE FastTick \/ AlarmFired \/ \E e \in ButtonEvent : PressButton(e)
  <2>1. WakeUp /\ UNCHANGED <<now, rateVars, faceVars, timerVars, dateTime, index>>
    BY <1>7 DEF FastTick, AlarmFired, PressButton
  <2>2. alarmArmed' \in BOOLEAN
    BY <1>7 DEF FastTick, AlarmFired, PressButton, Types, Flags
  <2>3. "BackgroundTask" \in Event /\ ButtonEvent \subseteq Event
    BY DispatcherAssumption DEF FaceEvent
  <2>4. fifo' \in Queue
    BY <1>7, <2>3, QueueOperators DEF FastTick, AlarmFired, PressButton, Types, LoopTypes
  <2>5. pc' \in {"switch", "tasks", "react", "sleep", "asleep"} /\ lag' \in BOOLEAN
    BY <2>1, WakeUpTypes
  <2>6. Flags'
    BY <2>1, <2>2, <2>5 DEF Types, Flags, rateVars, faceVars
  <2>7. LoopTypes'
    BY <2>1, <2>4, <2>5 DEF Types, LoopTypes, faceVars
  <2>8. TimerTypes'
    BY <2>1 DEF Types, TimerTypes, timerVars
  <2>9. QED
    BY <2>6, <2>7, <2>8 DEF Types
<1>8. CASE UNCHANGED vars
  BY <1>8 DEF vars, Types, Flags, LoopTypes, TimerTypes,
              clockVars, rateVars, faceVars, timerVars
<1>9. QED
  BY <1>1, <1>2, <1>3, <1>4, <1>5, <1>6, <1>7, <1>8 DEF Next, MainStep

(* Every face index app_loop and the task table use names a face, the      *)
(* queue stays within its capacity and no second becomes negative, for any *)
(* number of faces and any fields of the countdown.                        *)
THEOREM DispatcherTypes == Spec => []TypeOK
<1>1. Spec => []Types
  BY InitTypes, TypesInductive, PTL DEF Spec
<1>2. QED
  BY <1>1, TypesAreTypeOK, PTL

-----------------------------------------------------------------------------
(* A pending run and its task.  The two halves of PendingRunIsScheduled,   *)
(* for any task table: a scheduled task is called with its slot emptied.   *)

CountdownIsIn(t) ==
  countdown.mode = "Running" /\ now < countdown.target /\ CountdownFace \notin robbed
    => t[CountdownFace] = countdown.target

TomatoIsIn(t) ==
  tomato.mode = "Run" /\ now < tomato.target => t[TomatoFace] = tomato.target

(* The countdown finds its own task again whatever it does with it, and    *)
(* leaves the tomato timer's alone.                                        *)
LEMMA CountdownLoopSchedules ==
  ASSUME Types, NEW e, NEW t \in [Face -> Nat], NEW q \in Queue, CountdownLoop(e, t, q),
         e # "BackgroundTask" => CountdownIsIn(t), TomatoIsIn(t)
  PROVE  PendingRunIsScheduled'
<1>1. /\ CountdownFace \in Face /\ TomatoFace \in Face \ {CountdownFace}
      /\ now \in Nat /\ countdown \in CountdownState
  BY DispatcherAssumption DEF Types, LoopTypes, TimerTypes, Second
<1>2. LoopKeeps(t) /\ tomato' = tomato /\ tasks'[TomatoFace] = t[TomatoFace]
  BY <1>1, CountdownLoopKeeps
<1>3. now' \in Nat /\ now <= now'
  BY <1>1, <1>2, DispatcherAssumption DEF LoopKeeps, TimePasses, Second
<1>4. robbed' = IF tasks'[CountdownFace] # t[CountdownFace]
                THEN robbed \ {CountdownFace} ELSE robbed
  BY DEF CountdownLoop
<1>5. countdown'.mode = "Running" /\ now' < countdown'.target /\ CountdownFace \notin robbed'
        => tasks'[CountdownFace] = countdown'.target
  <2>1. CASE \E c \in CountdownState :
               /\ countdown' = Drawn([c EXCEPT !.target = now + c.left, !.nowTs = now])
               /\ Schedule(t, CountdownFace, now + c.left, q)
    <3>1. PICK c \in CountdownState :
            /\ countdown' = Drawn([c EXCEPT !.target = now + c.left, !.nowTs = now])
            /\ Schedule(t, CountdownFace, now + c.left, q)
      BY <2>1
    <3> DEFINE due == now + c.left
               d == [c EXCEPT !.target = due, !.nowTs = now]
    <3>2. due \in Nat
      BY <1>1 DEF CountdownState
    <3>3. d \in CountdownState /\ d.target = due
      BY <1>1, <3>2 DEF CountdownState
    <3>4. countdown'.mode = "Running" => countdown'.target = due
      <4>1. countdown' = Drawn(d)
        BY <3>1
      <4>2. Drawn(d).mode = d.mode
            /\ Drawn(d).target = IF d.mode = "Running" THEN d.target ELSE 0
        <5> HIDE DEF d
        <5>1. QED
          BY <3>3, DrawnTypes
      <4>3. QED
        <5> HIDE DEF d, due
        <5>1. QED
          BY <3>3, <4>1, <4>2
    <3>5. tasks' = IF due > now' THEN [t EXCEPT ![CountdownFace] = due] ELSE t
      BY <1>1, <3>1, <3>2, ScheduleTypes
    <3>6. QED
      <4> HIDE DEF due
      <4>1. QED
        BY <1>1, <1>3, <3>2, <3>4, <3>5
  <2>2. CASE \E c \in CountdownState : c.mode # "Running" /\ CountdownCancels(c, t, q)
    <3>1. PICK c \in CountdownState : c.mode # "Running" /\ countdown' = Drawn(c)
      BY <2>2 DEF CountdownCancels
    <3>2. QED
      BY <3>1, DrawnTypes
  <2>3. CASE /\ e # "BackgroundTask"
             /\ countdown' = Drawn(CountdownShown(countdown, e)) /\ tasks' = t /\ NoEdge(q)
    <3> DEFINE c == CountdownShown(countdown, e)
    <3>1. /\ c \in CountdownState
          /\ c.mode = "Running" =>
               countdown.mode = "Running" /\ c.target = countdown.target
      BY <1>1, ShownTypes
    <3>2. /\ Drawn(c).mode = c.mode
          /\ Drawn(c).target = IF c.mode = "Running" THEN c.target ELSE 0
      <4> HIDE DEF c
      <4>1. QED
        BY <3>1, DrawnTypes
    <3>3. /\ CountdownIsIn(t) /\ tasks' = t /\ now' = now /\ robbed' = robbed
          /\ countdown' = Drawn(c)
      BY <1>4, <2>3 DEF NoEdge
    <3>4. QED
      <4> HIDE DEF c
      <4>1. QED
        BY <3>1, <3>2, <3>3 DEF CountdownIsIn
  <2>4. QED
    BY <2>1, <2>2, <2>3, CountdownLoopCases
<1>6. tomato'.mode = "Run" /\ now' < tomato'.target => tasks'[TomatoFace] = tomato'.target
  <2>1. tomato.target \in Nat
    BY DEF Types, TimerTypes, TomatoState
  <2>2. QED
    BY <1>1, <1>2, <1>3, <2>1 DEF TomatoIsIn
<1>7. QED
  BY <1>5, <1>6 DEF PendingRunIsScheduled

(* The tomato timer schedules only while it is on screen; what it cancels  *)
(* of another face is accounted for in `robbed`.                           *)
LEMMA TomatoLoopSchedules ==
  ASSUME Types, NEW e, NEW t \in [Face -> Nat], NEW q \in Queue, TomatoLoop(e, t, q),
         current = TomatoFace \/ e = "BackgroundTask",
         CountdownIsIn(t), e # "BackgroundTask" => TomatoIsIn(t)
  PROVE  PendingRunIsScheduled'
<1>1. /\ CountdownFace \in Face /\ TomatoFace \in Face \ {CountdownFace}
      /\ now \in Nat /\ current \in Face
      /\ countdown \in CountdownState /\ tomato \in TomatoState
  BY DispatcherAssumption DEF Types, LoopTypes, TimerTypes, Second
<1>2. LoopKeeps(t) /\ countdown' = countdown
      /\ \A g \in Face \ {current} : tasks'[g] = t[g]
  BY TomatoLoopKeeps
<1>3. now' \in Nat /\ now <= now' /\ countdown.target \in Nat
  BY <1>1, <1>2, DispatcherAssumption DEF LoopKeeps, TimePasses, Second, CountdownState
<1>4. CASE TomatoCancels(t, q)
  <2>1. /\ tomato' = [mode |-> "Ready", target |-> 0]
        /\ tasks' = [t EXCEPT ![current] = 0]
        /\ robbed' = IF current # TomatoFace /\ t[current] # 0
                      THEN robbed \cup {current} ELSE robbed
        /\ now' = now
    BY <1>4 DEF TomatoCancels, NoEdge
  <2>2. countdown'.mode = "Running" /\ now' < countdown'.target
          /\ CountdownFace \notin robbed' => tasks'[CountdownFace] = countdown'.target
    <3> SUFFICES ASSUME countdown.mode = "Running", now < countdown.target,
                        CountdownFace \notin robbed'
                 PROVE  tasks'[CountdownFace] = countdown.target
      BY <1>2, <2>1
    <3>1. t[CountdownFace] = countdown.target
      BY <2>1 DEF CountdownIsIn
    <3>2. t[CountdownFace] # 0
      BY <1>1, <1>3, <3>1
    <3>3. current # CountdownFace
      BY <1>1, <2>1, <3>2
    <3>4. QED
      BY <1>1, <1>2, <3>1, <3>3
  <2>3. QED
    BY <2>1, <2>2 DEF PendingRunIsScheduled
<1>5. CASE current = TomatoFace /\ TomatoStarts(t, q)
  <2>1. PICK length \in TomatoLengths :
          /\ tomato' = [mode |-> "Run", target |-> now + length]
          /\ Schedule(t, TomatoFace, now + length, q)
          /\ robbed' = robbed
    BY <1>5 DEF TomatoStarts
  <2>2. now + length \in Nat
    BY <1>1, DispatcherAssumption
  <2>3. tasks' = IF now + length > now' THEN [t EXCEPT ![TomatoFace] = now + length] ELSE t
    BY <1>1, <2>1, <2>2, ScheduleTypes
  <2>4. tasks'[CountdownFace] = t[CountdownFace]
    BY <1>1, <1>2, <1>5
  <2>5. tomato'.mode = "Run" /\ now' < tomato'.target => tasks'[TomatoFace] = tomato'.target
    BY <1>1, <1>3, <2>1, <2>2, <2>3
  <2>6. countdown'.mode = "Running" /\ now' < countdown'.target
          /\ CountdownFace \notin robbed' => tasks'[CountdownFace] = countdown'.target
    BY <1>1, <1>2, <1>3, <2>1, <2>4 DEF CountdownIsIn
  <2>7. QED
    BY <2>5, <2>6 DEF PendingRunIsScheduled
<1>6. CASE /\ e # "BackgroundTask"
           /\ tasks' = t /\ NoEdge(q) /\ UNCHANGED <<tomato, robbed>>
  <2>1. TomatoIsIn(t) /\ now' = now
    BY <1>6 DEF NoEdge
  <2>2. QED
    BY <1>2, <1>6, <2>1 DEF PendingRunIsScheduled, CountdownIsIn, TomatoIsIn
<1>7. QED
  <2>1. CASE e = "BackgroundTask"
    BY <1>4, <2>1 DEF TomatoLoop
  <2>2. CASE e # "BackgroundTask"
    <3>1. \/ TomatoStarts(t, q)
          \/ TomatoCancels(t, q)
          \/ tasks' = t /\ NoEdge(q) /\ UNCHANGED <<tomato, robbed>>
      BY DEF TomatoLoop
    <3>2. QED
      BY <1>4, <1>5, <1>6, <2>2, <3>1
  <2>3. QED
    BY <2>1, <2>2

LEMMA FaceLoopSchedules ==
  ASSUME Types, NEW f \in Face, NEW e, NEW t \in [Face -> Nat], NEW q \in Queue,
         FaceLoop(f, e, t, q), f = current \/ e = "BackgroundTask",
         CountdownIsIn(t) \/ (f = CountdownFace /\ e = "BackgroundTask"),
         TomatoIsIn(t) \/ (f = TomatoFace /\ e = "BackgroundTask")
  PROVE  PendingRunIsScheduled'
<1>1. CountdownFace # TomatoFace
  BY DispatcherAssumption
<1>2. CASE f = CountdownFace
  <2>1. CountdownLoop(e, t, q)
    BY <1>1, <1>2 DEF FaceLoop
  <2>2. QED
    BY <1>1, <1>2, <2>1, CountdownLoopSchedules
<1>3. CASE f = TomatoFace
  <2>1. TomatoLoop(e, t, q)
    BY <1>1, <1>3 DEF FaceLoop
  <2>2. QED
    BY <1>1, <1>3, <2>1, TomatoLoopSchedules
<1>4. CASE f \notin {CountdownFace, TomatoFace}
  <2>1. ClockLoop(e, t, q)
    BY <1>4 DEF FaceLoop
  <2>2. /\ tasks' = t /\ now' = now /\ countdown' = countdown /\ tomato' = tomato
        /\ robbed' = robbed
    BY <2>1, ClockLoopKeeps
  <2>3. QED
    BY <1>4, <2>2 DEF PendingRunIsScheduled, CountdownIsIn, TomatoIsIn
<1>5. QED
  BY <1>2, <1>3, <1>4

(* The tables and the timers change together only in a face's loop_; the   *)
(* clock can only make a pending run due.                                  *)
LEMMA PendingInductive ==
  Types /\ PendingRunIsScheduled /\ [Next]_vars => PendingRunIsScheduled'
<1> SUFFICES ASSUME Types, PendingRunIsScheduled, [Next]_vars PROVE PendingRunIsScheduled'
  OBVIOUS
<1>1. /\ CountdownIsIn(tasks) /\ TomatoIsIn(tasks)
      /\ CountdownFace \in Face /\ TomatoFace \in Face /\ CountdownFace # TomatoFace
      /\ current \in Face /\ tasks \in [Face -> Nat] /\ fifo \in Queue /\ now \in Nat
      /\ countdown \in CountdownState /\ tomato \in TomatoState
  BY DispatcherAssumption
     DEF PendingRunIsScheduled, CountdownIsIn, TomatoIsIn, Types, LoopTypes, TimerTypes, Second
<1>2. CASE SwitchFace
  <2>1. /\ countdown'.mode = "Running" =>
             countdown.mode = "Running" /\ countdown'.target = countdown.target
        /\ now' = now /\ tasks' = tasks /\ tomato' = tomato /\ robbed' = robbed
    BY <1>2, SwitchFaceTypes DEF SwitchFace, clockVars
  <2>2. QED
    BY <2>1 DEF PendingRunIsScheduled
<1>3. CASE RunTask
  <2>1. PICK f \in Face : FaceLoop(f, "BackgroundTask", [tasks EXCEPT ![f] = 0], fifo)
    BY <1>3 DEF RunTask
  <2>2. CountdownIsIn([tasks EXCEPT ![f] = 0]) \/ f = CountdownFace
    BY <1>1 DEF CountdownIsIn
  <2>3. TomatoIsIn([tasks EXCEPT ![f] = 0]) \/ f = TomatoFace
    BY <1>1 DEF TomatoIsIn
  <2>4. [tasks EXCEPT ![f] = 0] \in [Face -> Nat]
    BY <1>1
  <2>5. QED
    BY <1>1, <2>1, <2>2, <2>3, <2>4, FaceLoopSchedules
<1>4. CASE React
  <2>1. FaceLoop(current, Front(fifo), tasks, Dequeue(fifo)) /\ Dequeue(fifo) \in Queue
    BY <1>1, <1>4, QueueOperators DEF React
  <2>2. QED
    BY <1>1, <2>1, FaceLoopSchedules
<1>5. CASE SecondPasses
  <2>1. now' = NextSecond /\ UNCHANGED timerVars
    BY <1>5 DEF SecondPasses
  <2>2. now' \in Nat /\ now <= now'
    BY <2>1, NextSecondTypes, DispatcherAssumption DEF Second
  <2>3. countdown.target \in Nat /\ tomato.target \in Nat
    BY <1>1 DEF CountdownState, TomatoState
  <2>4. QED
    BY <1>1, <2>1, <2>2, <2>3 DEF PendingRunIsScheduled, timerVars
<1>6. CASE \/ FinishTasks \/ EnterStandby \/ FastTick \/ AlarmFired \/ UNCHANGED vars
           \/ \E e \in ButtonEvent : PressButton(e)
  <2>1. UNCHANGED <<now, timerVars>>
    BY <1>6 DEF FinishTasks, EnterStandby, FastTick, AlarmFired, PressButton, vars, clockVars
  <2>2. QED
    BY <2>1 DEF PendingRunIsScheduled, timerVars
<1>7. QED
  BY <1>2, <1>3, <1>4, <1>5, <1>6 DEF Next, MainStep

(* A countdown or tomato that is running and not yet due has exactly its   *)
(* target in its own slot of SCHEDULED_TASKS, unless another face has      *)
(* cancelled its task.                                                     *)
THEOREM PendingRunsAreScheduled == Spec => []PendingRunIsScheduled
<1>1. Init => PendingRunIsScheduled
  BY DEF Init, PendingRunIsScheduled
<1>2. Spec => [](Types /\ PendingRunIsScheduled)
  BY <1>1, InitTypes, TypesInductive, PendingInductive, PTL DEF Spec
<1>3. QED
  BY <1>2, PTL

-----------------------------------------------------------------------------
(* When a due task is noticed.  A pass that ends leaves no task that was   *)
(* due when it read the clock; then the CPU sleeps through no top of a     *)
(* minute, and the pass that wakes up finds what has become due since.     *)

(* No minute has begun since second d.                                     *)
QuietSince(d) == \A m \in d + 1 .. now : m % Minute # 0

(* set_tick_rate leaves either the tick or the minute wake on.             *)
WakesComeBack == tickOn \/ minuteOn

(* The tasks are gone through against a reading of the clock that is at    *)
(* most one second old.                                                    *)
ReadingIsFresh ==
  /\ pc # "tasks" => index = 0
  /\ pc = "tasks" => dateTime <= now /\ now <= dateTime + 1 /\ (~lag => dateTime = now)

(* A task due at d, wherever the main loop stands; i is the task's face.   *)
IsNoticed(d, i) ==
  /\ pc = "asleep" => QuietSince(d)
  /\ pc \in {"switch", "tasks"} =>
       now <= d + Minute + 1 /\ (~lag => now <= d + Minute)
  /\ pc = "tasks" /\ i < index => dateTime < d
  /\ pc \in {"react", "sleep"} => now <= d /\ (~lag => now < d)

TasksAreNoticed == \A f \in Face : tasks[f] # 0 => IsNoticed(tasks[f], f)

NInv == Types /\ WakesComeBack /\ ReadingIsFresh /\ TasksAreNoticed

(* Of a minute's worth of seconds one is the top of a minute.              *)
LEMMA MinuteBegins ==
  ASSUME NEW a \in Nat, NEW n \in Nat, n >= a + Minute
  PROVE  \E m \in a + 1 .. n : m % Minute = 0
<1> DEFINE M == Minute
           k == a \div M
           m == M * k + M
<1>1. M \in Nat \ {0}
  BY DispatcherAssumption
<1>2. k \in Nat /\ M * k \in Nat /\ M * k <= a /\ a < M * k + M
  <2> HIDE DEF M
  <2>1. QED
    BY <1>1
<1>3. m % M = 0
  <2> HIDE DEF k, M
  <2>1. m = M * (k + 1)
    BY <1>1, <1>2
  <2>2. (M * (k + 1)) % M = 0
    BY <1>1, <1>2
  <2>3. QED
    BY <2>1, <2>2
<1>4. m \in a + 1 .. n
  <2> DEFINE x == M * k
  <2>1. x \in Nat /\ x <= a /\ a < x + M /\ m = x + M
    BY <1>2
  <2> HIDE DEF x, m, k
  <2>2. QED
    BY <1>1, <2>1
<1>5. QED
  BY <1>3, <1>4

(* So whoever sleeps has not been overdue for a minute.                    *)
LEMMA QuietIsShort ==
  ASSUME Types, NEW d \in Nat, QuietSince(d)
  PROVE  now < d + Minute
<1>1. now \in Nat /\ Minute \in Nat
  BY DispatcherAssumption DEF Types, LoopTypes, Second
<1>2. ~(now >= d + Minute)
  <2> SUFFICES ASSUME now >= d + Minute PROVE FALSE
    OBVIOUS
  <2>1. \E m \in d + 1 .. now : m % Minute = 0
    BY <1>1, MinuteBegins
  <2>2. QED
    BY <2>1 DEF QuietSince
<1>3. QED
  BY <1>1, <1>2

(* The theorem's bound follows wherever the main loop stands.              *)
LEMMA NoticedInTime == NInv => NoticedWithinAMinute
<1> SUFFICES ASSUME NInv, NEW f \in Face, tasks[f] # 0
             PROVE  now <= tasks[f] + Minute + 1
  BY DEF NoticedWithinAMinute
<1>1. /\ now \in Nat /\ Minute \in Nat /\ tasks[f] \in Nat
      /\ pc \in {"switch", "tasks", "react", "sleep", "asleep"} /\ IsNoticed(tasks[f], f)
  BY DispatcherAssumption DEF NInv, Types, LoopTypes, TimerTypes, Second, TasksAreNoticed
<1>2. pc = "asleep" => now < tasks[f] + Minute
  BY <1>1, QuietIsShort DEF IsNoticed, NInv
<1>3. QED
  BY <1>1, <1>2 DEF IsNoticed

LEMMA InitNInv == Init => NInv
  BY InitTypes DEF Init, NInv, WakesComeBack, ReadingIsFresh, TasksAreNoticed

(* A call of a face in the middle of a pass: what it enters into the table *)
(* lies in the future, and the second that may pass is noted in `lag`.     *)
LEMMA LoopKeepsNoticed ==
  ASSUME NInv, NEW t \in [Face -> Nat], LoopKeeps(t), NEW g \in Face,
         t[g] # 0 => IsNoticed(t[g], g),
         dateTime' = dateTime, (pc = "tasks" /\ pc' = pc) \/ (pc = "react" /\ pc' = "sleep"),
         index' \in Nat,
         pc = "tasks" /\ g < index' => t[g] = 0 \/ dateTime < t[g],
         NEW d, tasks'[g] = d, d # 0
  PROVE  IsNoticed(d, g)'
<1>1. /\ now \in Nat /\ dateTime \in Nat /\ Minute \in Nat \ {0} /\ lag \in BOOLEAN
      /\ index \in Nat /\ g \in Nat
  BY DispatcherAssumption DEF NInv, Types, LoopTypes, Flags, Second, Face
<1>2. /\ now' \in Nat /\ d \in Nat /\ lag' \in BOOLEAN /\ t[g] \in Nat
      /\ \/ now' = now /\ lag' = lag
         \/ ~lag /\ lag' /\ now <= now' /\ now' <= now + 1
  BY DispatcherAssumption DEF LoopKeeps, TimePasses, Second
<1>3. pc = "tasks" => dateTime <= now
  BY DEF NInv, ReadingIsFresh
<1>4. d = t[g] \/ d > now'
  BY DEF LoopKeeps
<1>5. CASE d > now'
  BY <1>1, <1>2, <1>3, <1>5 DEF IsNoticed
<1>6. CASE d = t[g]
  <2>1. IsNoticed(d, g)
    BY <1>6
  <2>2. CASE pc = "tasks"
    BY <1>1, <1>2, <1>6, <2>1, <2>2 DEF IsNoticed
  <2>3. CASE pc = "react"
    BY <1>1, <1>2, <1>6, <2>1, <2>3 DEF IsNoticed
  <2>4. QED
    BY <2>2, <2>3
<1>7. QED
  BY <1>4, <1>5, <1>6

(* What a call of a face in the middle of a pass leaves besides.           *)
LEMMA LoopKeepsFresh ==
  ASSUME NInv, NEW t, LoopKeeps(t),
         dateTime' = dateTime, pc' = pc, pc = "tasks"
  PROVE  ReadingIsFresh'
<1>1. now \in Nat /\ dateTime \in Nat /\ lag \in BOOLEAN
  BY DispatcherAssumption DEF NInv, Types, LoopTypes, Flags, Second
<1>2. /\ now' \in Nat /\ lag' \in BOOLEAN
      /\ \/ now' = now /\ lag' = lag
         \/ ~lag /\ lag' /\ now <= now' /\ now' <= now + 1
  BY DispatcherAssumption DEF LoopKeeps, TimePasses, Second
<1>3. dateTime <= now /\ now <= dateTime + 1 /\ (~lag => dateTime = now)
  BY DEF NInv, ReadingIsFresh
<1>4. QED
  BY <1>1, <1>2, <1>3 DEF ReadingIsFresh

LEMMA NoticedByFace ==
  ASSUME \A f \in Face : \A d : tasks'[f] = d /\ d # 0 => IsNoticed(d, f)'
  PROVE  TasksAreNoticed'
<1> SUFFICES ASSUME NEW f \in Face, tasks'[f] # 0 PROVE IsNoticed(tasks[f], f)'
  BY DEF TasksAreNoticed
<1>1. PICK d : d = tasks'[f]
  OBVIOUS
<1>2. IsNoticed(d, f)'
  BY <1>1
<1>3. QED
  BY <1>1, <1>2 DEF IsNoticed, QuietSince

(* A handler that scheduled nothing and a step that only moves on.         *)
LEMMA RunTaskKeepsNInv == NInv /\ RunTask => NInv'
<1> SUFFICES ASSUME NInv, RunTask PROVE NInv'
  OBVIOUS
<1>1. Types'
  BY TypesInductive DEF NInv, Next, MainStep
<1>2. PICK f \in Face :
        /\ IsDue(f) /\ \A g \in Face : IsDue(g) => f <= g
        /\ FaceLoop(f, "BackgroundTask", [tasks EXCEPT ![f] = 0], fifo)
        /\ index' = f + 1
  BY DEF RunTask
<1>3. pc = "tasks" /\ pc' = pc /\ dateTime' = dateTime
  BY DEF RunTask
<1> DEFINE t == [tasks EXCEPT ![f] = 0]
<1>4. /\ t \in [Face -> Nat] /\ fifo \in Queue /\ tasks \in [Face -> Nat]
      /\ dateTime \in Nat /\ index \in Nat /\ Face \subseteq Nat
  BY DispatcherAssumption DEF NInv, Types, LoopTypes, TimerTypes, Second, Face
<1>5. LoopKeeps(t)
  BY <1>2, <1>4, FaceLoopKeeps DEF NInv
<1>6. WakesComeBack'
  BY <1>5 DEF LoopKeeps, NInv, WakesComeBack
<1>7. ReadingIsFresh'
  BY <1>3, <1>5, LoopKeepsFresh
<1>8. ASSUME NEW g \in Face, NEW d, tasks'[g] = d, d # 0 PROVE IsNoticed(d, g)'
  <2>1. t[g] # 0 => IsNoticed(t[g], g)
    BY <1>4 DEF NInv, TasksAreNoticed
  <2>2. g < index' => t[g] = 0 \/ dateTime < t[g]
    <3> SUFFICES ASSUME g < index', t[g] # 0 PROVE dateTime < t[g]
      OBVIOUS
    <3>1. g # f /\ t[g] = tasks[g] /\ tasks[g] \in Nat /\ g \in Nat /\ f \in Nat
      BY <1>4
    <3>2. g < f
      BY <1>2, <3>1
    <3>3. ~IsDue(g)
      BY <1>2, <3>1, <3>2
    <3>4. CASE g < index
      <4>1. IsNoticed(tasks[g], g)
        BY <2>1, <3>1
      <4>2. QED
        BY <1>3, <3>1, <3>4, <4>1 DEF IsNoticed
    <3>5. CASE g >= index
      BY <1>4, <3>1, <3>3, <3>5 DEF IsDue, IsFuture
    <3>6. QED
      BY <1>4, <3>1, <3>4, <3>5
  <2>3. index' \in Nat
    BY <1>2, <1>4
  <2> HIDE DEF t
  <2>4. QED
    BY <1>3, <1>4, <1>5, <1>8, <2>1, <2>2, <2>3, LoopKeepsNoticed
<1>9. TasksAreNoticed'
  BY <1>8, NoticedByFace
<1>10. QED
  BY <1>1, <1>6, <1>7, <1>9 DEF NInv

LEMMA ReactKeepsNInv == NInv /\ React => NInv'
<1> SUFFICES ASSUME NInv, React PROVE NInv'
  OBVIOUS
<1>1. Types'
  BY TypesInductive DEF NInv, Next, MainStep
<1>2. /\ pc = "react" /\ pc' = "sleep" /\ dateTime' = dateTime /\ index' = index
      /\ FaceLoop(current, Front(fifo), tasks, Dequeue(fifo))
  BY DEF React
<1>3. tasks \in [Face -> Nat] /\ Dequeue(fifo) \in Queue /\ index \in Nat
  BY QueueOperators DEF NInv, Types, LoopTypes, TimerTypes
<1>4. LoopKeeps(tasks)
  BY <1>2, <1>3, FaceLoopKeeps DEF NInv
<1>5. WakesComeBack' /\ ReadingIsFresh'
  BY <1>2, <1>4 DEF LoopKeeps, NInv, WakesComeBack, ReadingIsFresh
<1>6. ASSUME NEW g \in Face, NEW d, tasks'[g] = d, d # 0 PROVE IsNoticed(d, g)'
  <2>1. tasks[g] # 0 => IsNoticed(tasks[g], g)
    BY DEF NInv, TasksAreNoticed
  <2>2. QED
    BY <1>2, <1>3, <1>4, <1>6, <2>1, LoopKeepsNoticed
<1>7. TasksAreNoticed'
  BY <1>6, NoticedByFace
<1>8. QED
  BY <1>1, <1>5, <1>7 DEF NInv

(* The steps of the main loop that call no face.                           *)
LEMMA PassKeepsNInv == NInv /\ (SwitchFace \/ FinishTasks \/ EnterStandby) => NInv'
<1> SUFFICES ASSUME NInv, SwitchFace \/ FinishTasks \/ EnterStandby PROVE NInv'
  OBVIOUS
<1>1. Types'
  BY TypesInductive DEF NInv, Next, MainStep
<1>2. UNCHANGED <<now, tickOn, minuteOn, showSeconds, tasks>>
  BY DEF SwitchFace, FinishTasks, EnterStandby, clockVars, rateVars, timerVars
<1>3. WakesComeBack'
  BY <1>2 DEF NInv, WakesComeBack
<1>4. /\ now \in Nat /\ dateTime \in Nat /\ index \in Nat /\ lag \in BOOLEAN
      /\ Minute \in Nat /\ Face \subseteq Nat
  BY DispatcherAssumption DEF NInv, Types, LoopTypes, Flags, Second, Face
<1>5. CASE SwitchFace
  <2>1. pc = "switch" /\ lag' = lag /\ index' = index
    BY <1>5 DEF SwitchFace, clockVars
  <2>2. \/ pc' = "tasks" /\ dateTime' = now
        \/ pc' = "react" /\ \A f \in Face : tasks[f] = 0
    BY <1>5 DEF SwitchFace
  <2>3. index = 0
    BY <2>1 DEF NInv, ReadingIsFresh
  <2>4. ReadingIsFresh'
    BY <1>2, <1>4, <2>1, <2>2, <2>3 DEF ReadingIsFresh
  <2>5. ASSUME NEW f \in Face, NEW d, tasks'[f] = d, d # 0 PROVE IsNoticed(d, f)'
    <3>1. IsNoticed(d, f) /\ pc' = "tasks"
      BY <1>2, <2>2, <2>5 DEF NInv, TasksAreNoticed
    <3>2. QED
      BY <1>2, <1>4, <2>1, <2>3, <3>1 DEF IsNoticed
  <2>6. QED
    BY <1>1, <1>3, <2>4, <2>5, NoticedByFace DEF NInv
<1>6. CASE FinishTasks
  <2>1. /\ pc = "tasks" /\ pc' = "react" /\ index' = 0 /\ lag' = lag
        /\ \A f \in Face : ~IsDue(f)
    BY <1>6 DEF FinishTasks, clockVars
  <2>2. dateTime <= now /\ now <= dateTime + 1 /\ (~lag => dateTime = now)
    BY <2>1 DEF NInv, ReadingIsFresh
  <2>3. ASSUME NEW f \in Face, NEW d, tasks'[f] = d, d # 0 PROVE IsNoticed(d, f)'
    <3>1. IsNoticed(d, f) /\ tasks[f] = d /\ d \in Nat /\ f \in Nat
      BY <1>2, <1>4, <2>3 DEF NInv, TasksAreNoticed, Types, TimerTypes
    <3>2. dateTime < d
      <4>1. CASE f < index
        BY <2>1, <3>1, <4>1 DEF IsNoticed
      <4>2. CASE f >= index
        <5>1. ~IsDue(f)
          BY <2>1
        <5>2. QED
          BY <1>4, <2>3, <3>1, <4>2, <5>1 DEF IsDue, IsFuture
      <4>3. QED
        BY <1>4, <3>1, <4>1, <4>2
    <3>3. now <= d /\ (~lag => now < d)
      BY <1>4, <2>2, <3>1, <3>2
    <3>4. QED
      BY <1>2, <2>1, <3>3 DEF IsNoticed
  <2>4. QED
    BY <1>1, <1>3, <2>1, <2>3, NoticedByFace DEF NInv, ReadingIsFresh
<1>7. CASE EnterStandby
  <2>1. pc = "sleep" /\ pc' = "asleep" /\ index' = index
    BY <1>7 DEF EnterStandby
  <2>2. ASSUME NEW f \in Face, NEW d, tasks'[f] = d, d # 0 PROVE IsNoticed(d, f)'
    <3>1. IsNoticed(d, f) /\ d \in Nat
      BY <1>2, <2>2 DEF NInv, TasksAreNoticed, Types, TimerTypes
    <3>2. now <= d
      BY <2>1, <3>1 DEF IsNoticed
    <3>3. QuietSince(d)'
      BY <1>2, <1>4, <3>1, <3>2 DEF QuietSince
    <3>4. QED
      BY <2>1, <3>3 DEF IsNoticed
  <2>3. QED
    BY <1>1, <1>3, <2>1, <2>2, NoticedByFace DEF NInv, ReadingIsFresh
<1>8. QED
  BY <1>5, <1>6, <1>7

(* A second passes: the sleeper is woken at the top of a minute.           *)
LEMMA SecondKeepsNInv == NInv /\ SecondPasses => NInv'
<1> SUFFICES ASSUME NInv, SecondPasses PROVE NInv'
  OBVIOUS
<1>1. Types'
  BY TypesInductive DEF NInv, Next
<1>2. now' = NextSecond /\ UNCHANGED <<rateVars, tasks, dateTime, index>>
  BY DEF SecondPasses, timerVars
<1>3. /\ now \in Nat /\ dateTime \in Nat /\ index \in Nat /\ lag \in BOOLEAN
      /\ Minute \in Nat /\ Face \subseteq Nat /\ now' \in {now, now + 1}
      /\ pc \in {"switch", "tasks", "react", "sleep", "asleep"}
  BY <1>2, DispatcherAssumption
     DEF NInv, Types, LoopTypes, Flags, Second, Face, NextSecond
<1>4. WakesComeBack /\ WakesComeBack'
  BY <1>2 DEF NInv, WakesComeBack, rateVars
<1>5. CASE pc = "asleep"
  <2>1. ~lag' /\ pc' = IF tickOn \/ (minuteOn /\ now' % Minute = 0) THEN "switch" ELSE pc
    BY <1>5 DEF SecondPasses
  <2>2. pc' = "switch" \/ (pc' = "asleep" /\ now' % Minute # 0)
    BY <1>4, <1>5, <2>1 DEF WakesComeBack
  <2>3. ReadingIsFresh'
    BY <1>2, <1>5, <2>2 DEF NInv, ReadingIsFresh
  <2>4. ASSUME NEW f \in Face, NEW d, tasks'[f] = d, d # 0 PROVE IsNoticed(d, f)'
    <3>1. d \in Nat /\ QuietSince(d)
      BY <1>2, <1>5, <2>4 DEF NInv, TasksAreNoticed, IsNoticed, Types, TimerTypes
    <3>2. CASE pc' = "switch"
      <4>1. now < d + Minute
        BY <3>1, QuietIsShort DEF NInv
      <4>2. now' <= d + Minute
        BY <1>3, <3>1, <4>1
      <4>3. QED
        BY <1>3, <3>1, <3>2, <4>2 DEF IsNoticed
    <3>3. CASE pc' = "asleep" /\ now' % Minute # 0
      <4>1. ASSUME NEW m \in d + 1 .. now' PROVE m % Minute # 0
        <5>1. m = now' \/ m \in d + 1 .. now
          BY <1>3, <3>1
        <5>2. QED
          BY <3>1, <3>3, <5>1 DEF QuietSince
      <4>2. QuietSince(d)'
        BY <4>1 DEF QuietSince
      <4>3. QED
        BY <3>3, <4>2 DEF IsNoticed
    <3>4. QED
      BY <2>2, <3>2, <3>3
  <2>5. QED
    BY <1>1, <1>4, <2>3, <2>4, NoticedByFace DEF NInv
<1>6. CASE pc # "asleep"
  <2>1. ~lag /\ lag' /\ pc' = pc
    BY <1>6 DEF SecondPasses
  <2>2. ReadingIsFresh'
    BY <1>2, <1>3, <2>1 DEF NInv, ReadingIsFresh
  <2>3. ASSUME NEW f \in Face, NEW d, tasks'[f] = d, d # 0 PROVE IsNoticed(d, f)'
    <3>1. d \in Nat /\ IsNoticed(d, f)
      BY <1>2, <2>3 DEF NInv, TasksAreNoticed, Types, TimerTypes
    <3>2. QED
      BY <1>2, <1>3, <1>6, <2>1, <3>1 DEF IsNoticed
  <2>4. QED
    BY <1>1, <1>4, <2>2, <2>3, NoticedByFace DEF NInv
<1>7. QED
  BY <1>5, <1>6

(* Whoever wakes the CPU early, the pass that follows is in time.          *)
LEMMA WakeUpKeepsNInv ==
  NInv /\ (FastTick \/ AlarmFired \/ \E e \in ButtonEvent : PressButton(e)) => NInv'
<1> SUFFICES ASSUME NInv, FastTick \/ AlarmFired \/ \E e \in ButtonEvent : PressButton(e)
             PROVE  NInv'
  OBVIOUS
<1>1. Types'
  BY TypesInductive DEF NInv, Next
<1>2. WakeUp /\ UNCHANGED <<now, rateVars, tasks, dateTime, index>>
  BY DEF FastTick, AlarmFired, PressButton, timerVars
<1>3. WakesComeBack'
  BY <1>2 DEF NInv, WakesComeBack, rateVars
<1>4. \/ pc # "asleep" /\ pc' = pc /\ lag' = lag
      \/ pc = "asleep" /\ pc' = "switch" /\ ~lag'
  BY <1>2, WakeUpTypes DEF NInv
<1>5. ReadingIsFresh'
  BY <1>2, <1>4 DEF NInv, ReadingIsFresh
<1>6. ASSUME NEW f \in Face, NEW d, tasks'[f] = d, d # 0 PROVE IsNoticed(d, f)'
  <2>1. d \in Nat /\ IsNoticed(d, f)
    BY <1>2, <1>6 DEF NInv, TasksAreNoticed, Types, TimerTypes
  <2>2. CASE pc # "asleep" /\ pc' = pc /\ lag' = lag
    BY <1>2, <2>1, <2>2 DEF IsNoticed
  <2>3. CASE pc = "asleep" /\ pc' = "switch" /\ ~lag'
    <3>1. now < d + Minute /\ now \in Nat /\ Minute \in Nat
      BY <2>1, <2>3, QuietIsShort, DispatcherAssumption
         DEF IsNoticed, NInv, Types, LoopTypes, Second
    <3>2. now' <= d + Minute /\ now' <= d + Minute + 1
      BY <1>2, <2>1, <3>1
    <3>3. QED
      BY <2>3, <3>2 DEF IsNoticed
  <2>4. QED
    BY <1>4, <2>2, <2>3
<1>7. QED
  BY <1>1, <1>3, <1>5, <1>6, NoticedByFace DEF NInv

LEMMA NInvInductive == NInv /\ [Next]_vars => NInv'
<1> SUFFICES ASSUME NInv, [Next]_vars PROVE NInv'
  OBVIOUS
<1>1. CASE UNCHANGED vars
  BY <1>1 DEF vars, clockVars, rateVars, faceVars, timerVars, NInv, Types, Flags, LoopTypes,
              TimerTypes, WakesComeBack, ReadingIsFresh, TasksAreNoticed, IsNoticed, QuietSince
<1>2. CASE Next
  BY <1>2, RunTaskKeepsNInv, ReactKeepsNInv, PassKeepsNInv, SecondKeepsNInv, WakeUpKeepsNInv
     DEF Next, MainStep
<1>3. QED
  BY <1>1, <1>2

(* Nothing arms an alarm for a scheduled task, and still none is overdue   *)
(* by more than a minute and the second that may begin before the pass     *)
(* that handles it reads the clock, however the wakes of the main loop     *)
(* fall and whichever of tick and minute wake the clock face has chosen.   *)
THEOREM DueTasksAreNoticed == Spec => []NoticedWithinAMinute
<1>1. Spec => []NInv
  BY InitNInv, NInvInductive, PTL DEF Spec
<1>2. QED
  BY <1>1, NoticedInTime, PTL

=============================================================================
