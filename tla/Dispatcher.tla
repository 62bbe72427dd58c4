------------------------------ MODULE Dispatcher ------------------------------
(***************************************************************************)
(* The main loop of the watch (app_loop in src/src/movement/mod.rs), the   *)
(* interrupt handlers that feed it, the table of scheduled background      *)
(* tasks, and two faces that live by that table: the countdown             *)
(* (countdown.rs) and the tomato timer (tomato.rs).  Face 0 is the simple  *)
(* clock, which also chooses between a wake per second and one per minute. *)
(*                                                                         *)
(* One pass of app_loop is a few steps of `pc`; an interrupt handler may   *)
(* run between any two.  An interrupt that comes after the event was taken *)
(* does not keep the CPU out of STANDBY: what it posted waits for the next *)
(* wake, as the code's comment says.  The event queue is modelled by what    *)
(* EventFifo promises of it.                                               *)
(***************************************************************************)
EXTENDS FifoOperators, Integers

CONSTANTS
  NumFaces,       \* MOVEMENT_NUM_FACES
  Secondary,      \* MOVEMENT_SECONDARY_FACE_INDEX
  CountdownFace,  \* index of the countdown in WATCH_FACES
  TomatoFace,     \* index of the tomato timer in WATCH_FACES
  Selections,     \* CD_SELECTIONS, the countdown's fields
  Modulus,        \* how many values each countdown field has, by selection
  Weight,         \* how many seconds one unit of that field is worth
  DefaultLeft,    \* DEFAULT_MINUTES, in seconds
  TomatoLengths,  \* FOCUS_MIN and BREAK_MIN, in seconds
  Minute,         \* seconds in a minute
  MaxNow          \* bound: the second at which the model's clock stays put; where
                  \* something must still happen then, the top of a minute

Face == 0 .. NumFaces - 1
Selection == 0 .. Selections - 1

(* Event::Button(button, kind) for the pairs a modelled face reacts to.    *)
ButtonEvent == {"ModeUp", "ModeLongPress", "LightUp",
                "LightLongPress", "AlarmUp", "AlarmLongPress"}
FaceEvent == {"Tick", "BackgroundTask"} \cup ButtonEvent

ASSUME DispatcherAssumption ==
  /\ Event = FaceEvent /\ Tick = "Tick"
  /\ NumFaces \in Nat /\ Secondary \in Face
  /\ {CountdownFace, TomatoFace} \subseteq Face \ {0} /\ CountdownFace # TomatoFace
  /\ Selections \in Nat \ {0}
  /\ Modulus \in [Selection -> Nat \ {0}] /\ Weight \in [Selection -> Nat \ {0}]
  /\ DefaultLeft \in Nat
  /\ TomatoLengths \subseteq Nat \ {0, 1}
  /\ Minute \in Nat \ {0} /\ MaxNow \in Nat

VARIABLES
  now,            \* the RTC, in seconds since boot
  pc,             \* where the main loop stands
  lag,            \* a second edge fell into the current pass of the main loop
  tickOn,         \* the 1 Hz tick is registered
  minuteOn,       \* the minute wake is armed
  showSeconds,    \* settings.show_seconds
  alarmArmed,     \* the one-shot alarm of app_setup has not fired yet
  fifo,           \* the event queue, oldest event first
  current,        \* current_face_idx
  next,           \* next_face_idx
  changed,        \* watch_face_changed
  tasks,          \* SCHEDULED_TASKS: the second each face's task is due, 0 for none
  dateTime,       \* the clock reading handle_scheduled_tasks works with
  index,          \* the face its iteration has reached
  countdown,      \* CountdownFace
  tomato,         \* TomatoFace
  robbed          \* history: faces whose task another face cancelled

clockVars == <<now, lag, alarmArmed>>
rateVars == <<tickOn, minuteOn, showSeconds>>
faceVars == <<current, next, changed>>
timerVars == <<tasks, countdown, tomato, robbed>>
vars == <<clockVars, rateVars, faceVars, timerVars, pc, fifo, dateTime, index>>

Init ==
  /\ now = 0 /\ pc = "switch" /\ lag = FALSE
  /\ showSeconds \in BOOLEAN /\ minuteOn = ~showSeconds /\ tickOn = TRUE
  /\ alarmArmed = TRUE
  /\ fifo = <<>>
  /\ current = 0 /\ next = 0 /\ changed = FALSE
  /\ tasks = [f \in Face |-> 0] /\ dateTime = 0 /\ index = 0
  /\ countdown = [mode |-> "Reset", selection |-> 0, left |-> DefaultLeft,
                  set |-> DefaultLeft, target |-> 0, nowTs |-> 0, repeat |-> FALSE]
  /\ tomato = [mode |-> "Ready", target |-> 0]
  /\ robbed = {}

-----------------------------------------------------------------------------
(* Interrupt handlers.                                                     *)

(* Any interrupt ends STANDBY; main then runs app_loop once.               *)
WakeUp ==
  /\ pc' = IF pc = "asleep" THEN "switch" ELSE pc
  /\ lag' = (pc # "asleep" /\ lag)

(* The events the RTC handler posts on the edge that begins second t:      *)
(* cb_tick first, then cb_minute_tick at the top of a minute.              *)
EdgePosts(q, t) ==
  LET ticked == IF tickOn THEN Enqueue(q, Tick) ELSE q IN
  IF minuteOn /\ t % Minute = 0 THEN Enqueue(ticked, Tick) ELSE ticked

NextSecond == IF now < MaxNow THEN now + 1 ELSE now

(* A second passes.  With the 1 Hz tick off, only the top of a minute      *)
(* interrupts.  One pass of the main loop takes less than a second.        *)
SecondPasses ==
  /\ pc = "asleep" \/ ~lag
  /\ now' = NextSecond
  /\ fifo' = EdgePosts(fifo, now')
  /\ IF pc = "asleep"
       THEN /\ lag' = FALSE
            /\ pc' = IF tickOn \/ (minuteOn /\ now' % Minute = 0) THEN "switch" ELSE pc
       ELSE /\ lag' = TRUE /\ UNCHANGED pc
  /\ UNCHANGED <<alarmArmed, rateVars, faceVars, timerVars, dateTime, index>>

(* A debounced button event is posted by the EIC or the fast tick.         *)
PressButton(e) ==
  /\ fifo' = Enqueue(fifo, e)
  /\ WakeUp
  /\ UNCHANGED <<now, alarmArmed, rateVars, faceVars, timerVars, dateTime, index>>

(* The 128 Hz fast tick wakes the CPU and usually posts nothing.           *)
FastTick ==
  /\ WakeUp
  /\ UNCHANGED <<now, alarmArmed, rateVars, faceVars, timerVars, fifo, dateTime, index>>

(* cb_alarm_fired.  The RTC handler disables ALARM0 before it calls it,    *)
(* and nothing registers it again.                                         *)
AlarmFired ==
  /\ alarmArmed
  /\ alarmArmed' = FALSE
  /\ fifo' = Enqueue(fifo, "BackgroundTask")
  /\ WakeUp
  /\ UNCHANGED <<now, rateVars, faceVars, timerVars, dateTime, index>>

-----------------------------------------------------------------------------
(* What faces may do while they handle an event.                           *)

(* Wrong on purpose: the modulus forgotten.                                *)
NextFaceUnwrapped == current + 1

(* move_to_next_face: from the primary list to its next face, from the     *)
(* last face of all back to face 0.                                        *)
NextFace ==
  LET faceMax == IF Secondary # 0 /\ current < Secondary THEN Secondary ELSE NumFaces
  IN (current + 1) % faceMax

(* default_loop_handler on a long press of Mode.                           *)
LongPressFace == IF Secondary # 0 /\ current = 0 THEN Secondary ELSE 0

(* The mode button moves between faces from every modelled face.           *)
Navigate(e) ==
  CASE e = "ModeUp"        -> changed' = TRUE /\ next' = NextFace
    [] e = "ModeLongPress" -> changed' = TRUE /\ next' = LongPressFace
    [] OTHER               -> UNCHANGED <<changed, next>>

(* A handler during which no second passes; q is the event queue it finds. *)
NoEdge(q) == fifo' = q /\ UNCHANGED <<now, lag>>

(* Wrong on purpose: the slot emptied after the face was called, so that   *)
(* what its handler schedules is lost.                                     *)
ScheduleThenEmptied(t, f, due, q) ==
  /\ tasks' = IF due > now /\ pc = "react" THEN [t EXCEPT ![f] = due] ELSE t
  /\ NoEdge(q)

(* schedule_background_task_for_face: the clock is read again, so a second *)
(* edge may have passed since the face computed `due` from it; a task that *)
(* is no longer in the future is not entered.                              *)
Schedule(t, f, due, q) ==
  \/ /\ tasks' = IF due > now THEN [t EXCEPT ![f] = due] ELSE t
     /\ NoEdge(q)
  \/ /\ ~lag /\ lag' = TRUE
     /\ now' = NextSecond
     /\ fifo' = EdgePosts(q, now')
     /\ tasks' = IF due > now' THEN [t EXCEPT ![f] = due] ELSE t

(* Wrong on purpose: the tick disabled without arming the minute wake.     *)
SetTickRateUnarmed(show) == tickOn' = show /\ minuteOn' = FALSE

(* set_tick_rate: a wake per second, or one at the top of each minute.     *)
SetTickRate(show) == tickOn' = show /\ minuteOn' = ~show

-----------------------------------------------------------------------------
(* SimpleClockFace::loop_.  Every draw with the seconds hidden goes back   *)
(* to the minute wake.                                                     *)
ClockLoop(e, t, q) ==
  /\ CASE e = "AlarmUp" -> showSeconds' = ~showSeconds /\ SetTickRate(~showSeconds)
       [] e = "Tick" /\ ~showSeconds -> SetTickRate(FALSE) /\ UNCHANGED showSeconds
       [] OTHER -> UNCHANGED rateVars
  /\ tasks' = t
  /\ NoEdge(q)
  /\ UNCHANGED <<countdown, tomato, robbed>>

-----------------------------------------------------------------------------
(* CountdownFace.  `left` stands for hours, minutes and seconds together,  *)
(* `set` for the stored set_hours, set_minutes and set_seconds.            *)

Digit(v, s) == (v \div Weight[s]) % Modulus[s]
WithDigit(v, s, d) == v - Digit(v, s) * Weight[s] + d * Weight[s]

(* draw() recomputes the fields of a running countdown from its own idea   *)
(* of the time.  The two timestamps of one that is not running are dead:   *)
(* the next start sets both.                                               *)
Drawn(c) ==
  IF c.mode # "Running" THEN [c EXCEPT !.target = 0, !.nowTs = 0]
  ELSE [c EXCEPT !.left = IF c.nowTs < c.target THEN c.target - c.nowTs ELSE 0]

(* now_ts += 1.  Past the target more counting shows nothing new.          *)
Counted(c) ==
  IF c.mode = "Running" /\ c.nowTs < c.target THEN [c EXCEPT !.nowTs = @ + 1] ELSE c

Stopped(c) == [c EXCEPT !.mode = "Reset", !.left = c.set]

(* Leaving the settings, by the last selection or by resign: store().      *)
Stored(c) == [c EXCEPT !.mode = "Reset", !.selection = 0, !.set = c.left]

(* The arms of loop_ that neither schedule nor cancel a task.              *)
CountdownShown(c, e) ==
  CASE e = "Tick" -> Counted(c)
    [] e = "LightUp" /\ c.mode = "Reset" -> [c EXCEPT !.mode = "Setting"]
    [] e = "LightUp" /\ c.mode = "Setting" ->
         IF c.selection + 1 \in Selection THEN [c EXCEPT !.selection = @ + 1] ELSE Stored(c)
    [] e = "AlarmUp" /\ c.mode = "Setting" ->
         [c EXCEPT !.left = WithDigit(@, c.selection,
                                      (Digit(@, c.selection) + 1) % Modulus[c.selection])]
    [] e = "AlarmLongPress" /\ c.mode # "Setting" -> [c EXCEPT !.repeat = ~@]
    [] e = "LightLongPress" /\ c.mode = "Setting" ->
         [c EXCEPT !.left = WithDigit(@, c.selection, 0)]
    [] OTHER -> c

(* schedule(): both timestamps and the task are set from the clock.        *)
CountdownSchedules(c, t, q) ==
  /\ countdown' = Drawn([c EXCEPT !.target = now + c.left, !.nowTs = now])
  /\ Schedule(t, CountdownFace, now + c.left, q)

(* pause() and reset() cancel the task of the countdown's own slot.        *)
CountdownCancels(c, t, q) ==
  /\ countdown' = Drawn(c)
  /\ tasks' = [t EXCEPT ![CountdownFace] = 0]
  /\ NoEdge(q)

CountdownLoop(e, t, q) ==
  /\ CASE e = "AlarmUp" /\ countdown.mode \in {"Reset", "Paused"} /\ countdown.left > 0 ->
            CountdownSchedules([countdown EXCEPT !.mode = "Running"], t, q)
       [] e = "AlarmUp" /\ countdown.mode = "Running" ->
            CountdownCancels([countdown EXCEPT !.mode = "Paused"], t, q)
       [] e = "LightUp" /\ countdown.mode = "Paused" ->
            CountdownCancels(Stopped(countdown), t, q)
       [] e = "BackgroundTask" /\ countdown.repeat ->
            CountdownSchedules([countdown EXCEPT !.left = countdown.set], t, q)
       [] e = "BackgroundTask" /\ ~countdown.repeat ->
            CountdownCancels(Stopped(countdown), t, q)
       [] OTHER ->
            countdown' = Drawn(CountdownShown(countdown, e)) /\ tasks' = t /\ NoEdge(q)
  /\ robbed' = IF tasks'[CountdownFace] # t[CountdownFace]
                 THEN robbed \ {CountdownFace} ELSE robbed
  /\ UNCHANGED <<tomato, rateVars>>

-----------------------------------------------------------------------------
(* TomatoFace.  It schedules and cancels "for the current face".  Which of *)
(* the two lengths is next (`kind`) is left open.                          *)

(* reset(): also what ring() does when a background task is delivered.     *)
TomatoCancels(t, q) ==
  /\ tomato' = [mode |-> "Ready", target |-> 0]
  /\ tasks' = [t EXCEPT ![current] = 0]
  /\ robbed' = IF current # TomatoFace /\ t[current] # 0
                 THEN robbed \cup {current} ELSE robbed
  /\ NoEdge(q)

TomatoStarts(t, q) ==
  \E length \in TomatoLengths :
    /\ tomato' = [mode |-> "Run", target |-> now + length]
    /\ Schedule(t, current, now + length, q)
    /\ UNCHANGED robbed

TomatoLoop(e, t, q) ==
  /\ CASE e = "AlarmUp" /\ tomato.mode = "Ready" -> TomatoStarts(t, q)
       [] e = "AlarmUp" /\ tomato.mode = "Run"   -> TomatoCancels(t, q)
       [] e = "BackgroundTask"                   -> TomatoCancels(t, q)
       [] OTHER -> tasks' = t /\ NoEdge(q) /\ UNCHANGED <<tomato, robbed>>
  /\ UNCHANGED <<countdown, rateVars>>

(* face.loop_(e) of face f, with the task table t and the event queue q it *)
(* finds.                                                                  *)
FaceLoop(f, e, t, q) ==
  /\ CASE f = CountdownFace -> CountdownLoop(e, t, q)
       [] f = TomatoFace -> TomatoLoop(e, t, q)
       [] OTHER -> ClockLoop(e, t, q)
  /\ Navigate(e)

-----------------------------------------------------------------------------
(* One pass of app_loop.                                                   *)

(* Wrong on purpose: resign without the store.                             *)
ResignedUnstored(c) == c

(* CountdownFace::resign and CountdownFace::activate.                      *)
Resigned(c) == IF c.mode = "Setting" THEN Stored(c) ELSE c
Activated(c) == IF c.mode = "Running" THEN [c EXCEPT !.nowTs = now] ELSE c

(* A pending face change is carried out first; then the scheduled tasks    *)
(* are gone through if there is any, all against one clock reading.        *)
SwitchFace ==
  /\ pc = "switch"
  /\ IF changed
       THEN LET left == IF current = CountdownFace THEN Resigned(countdown) ELSE countdown IN
            /\ countdown' = IF next = CountdownFace THEN Activated(left) ELSE left
            /\ current' = next /\ changed' = FALSE
       ELSE UNCHANGED <<countdown, current, changed>>
  /\ IF \E f \in Face : tasks[f] # 0
       THEN pc' = "tasks" /\ dateTime' = now
       ELSE pc' = "react" /\ UNCHANGED dateTime
  /\ UNCHANGED <<clockVars, rateVars, next, tasks, tomato, robbed, fifo, index>>

(* Wrong on purpose: a task of the past taken for one of the next RTC      *)
(* cycle, as in the year the clock wraps.                                  *)
IsFutureUnlessNow(t, due) == due # t

(* background_task_is_future, away from the wrap of the RTC's year field.  *)
IsFuture(t, due) == due > t

IsDue(f) == f >= index /\ tasks[f] # 0 /\ ~IsFuture(dateTime, tasks[f])

(* handle_scheduled_tasks: the slot is emptied, then its face is called.   *)
RunTask ==
  /\ pc = "tasks"
  /\ \E f \in Face :
       /\ IsDue(f) /\ \A g \in Face : IsDue(g) => f <= g
       /\ FaceLoop(f, "BackgroundTask", [tasks EXCEPT ![f] = 0], fifo)
       /\ index' = f + 1
  /\ UNCHANGED <<pc, alarmArmed, current, dateTime>>

FinishTasks ==
  /\ pc = "tasks"
  /\ \A f \in Face : ~IsDue(f)
  /\ pc' = "react" /\ index' = 0 /\ dateTime' = 0
  /\ UNCHANGED <<clockVars, rateVars, faceVars, timerVars, fifo>>

(* take_background_task_request, then take_event, then the face on screen. *)
(* Of the modelled faces only the clock asks for the all-face background   *)
(* pass, to play its chime: the pass itself changes no modelled state.     *)
React ==
  /\ pc = "react"
  /\ FaceLoop(current, Front(fifo), tasks, Dequeue(fifo))
  /\ pc' = "sleep"
  /\ UNCHANGED <<alarmArmed, current, dateTime, index>>

(* The rest of the pass, the watchdog kick and enter_standby.              *)
EnterStandby ==
  /\ pc = "sleep"
  /\ pc' = "asleep"
  /\ lag' = FALSE
  /\ UNCHANGED <<now, alarmArmed, rateVars, faceVars, timerVars, fifo, dateTime, index>>

MainStep ==
  SwitchFace \/ RunTask \/ FinishTasks \/ React \/ EnterStandby

Next ==
  \/ MainStep
  \/ SecondPasses
  \/ FastTick
  \/ AlarmFired
  \/ \E e \in ButtonEvent : PressButton(e)

(* The main loop does not stop by itself, and seconds keep passing.        *)
Fairness == WF_vars(MainStep) /\ WF_vars(SecondPasses)

Spec == Init /\ [][Next]_vars
FairSpec == Spec /\ Fairness

-----------------------------------------------------------------------------
Second == 0 .. MaxNow

(* Every face index app_loop and the task table use names a face, the      *)
(* queue stays within its capacity, and no second of the countdown or of a *)
(* task is negative.                                                       *)
TypeOK ==
  /\ now \in Second /\ dateTime \in Second /\ index \in 0 .. NumFaces
  /\ pc \in {"switch", "tasks", "react", "sleep", "asleep"}
  /\ {lag, tickOn, minuteOn, showSeconds, alarmArmed, changed} \subseteq BOOLEAN
  /\ fifo \in Seq(Event) /\ Len(fifo) <= Capacity
  /\ current \in Face /\ next \in Face /\ robbed \subseteq Face
  /\ tasks \in [Face -> Nat]
  /\ countdown \in [mode : {"Running", "Reset", "Paused", "Setting"}, selection : Selection,
                    left : Nat, set : Nat, target : Nat, nowTs : Nat, repeat : BOOLEAN]
  /\ tomato \in [mode : {"Run", "Ready"}, target : Nat]

(* A countdown or tomato that is running and not yet due has exactly its   *)
(* target in its own slot of SCHEDULED_TASKS, whatever was started,        *)
(* paused, repeated or navigated meanwhile - unless another face has       *)
(* cancelled its task (TasksArePerFace).                                   *)
PendingRunIsScheduled ==
  /\ countdown.mode = "Running" /\ now < countdown.target /\ CountdownFace \notin robbed
       => tasks[CountdownFace] = countdown.target
  /\ tomato.mode = "Run" /\ now < tomato.target => tasks[TomatoFace] = tomato.target

(* The countdown is never left in its settings while another face is on    *)
(* screen, where no button could ever store them.                          *)
SettingOnlyOnScreen == countdown.mode = "Setting" => current = CountdownFace

(* Nothing arms an alarm for a scheduled task: it is noticed at the next   *)
(* wake, which is at most a minute away; one more second may begin before  *)
(* that pass reads the clock.                                              *)
NoticedWithinAMinute ==
  \A f \in Face : tasks[f] # 0 => now <= tasks[f] + Minute + 1

Overdue(f) == tasks[f] # 0 /\ tasks[f] <= now

(* A task that is due is run, or cancelled by the user, in the end: the    *)
(* table that handle_scheduled_tasks goes through leaves none behind.      *)
DueTaskRuns == \A f \in {CountdownFace, TomatoFace} : Overdue(f) ~> ~Overdue(f)

(* "Scheduled background tasks per face": no face loses its task to        *)
(* another face's cancel.  The tomato timer breaks it.                     *)
TasksArePerFace == robbed = {}

(* "The RTC ticked (once per second)": a countdown that counts Tick events *)
(* never gets ahead of the clock.  Every other wake delivers a Tick too.   *)
CountdownKeepsTime == countdown.mode = "Running" => countdown.nowTs <= now
=============================================================================
