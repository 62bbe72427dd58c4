-------------------------------- MODULE Buttons --------------------------------
(***************************************************************************)
(* One button of the watch: its pin, the edge interrupt (EIC) and the      *)
(* 128 Hz fast tick (RTC) that both feed debounce.rs, the long-press check *)
(* and the suspension of the fast tick when nobody touches a button        *)
(* (cb_*_btn_interrupt, cb_fast_tick, resume_fast_tick, suspend_fast_tick  *)
(* in src/src/movement/mod.rs).                                            *)
(*                                                                         *)
(* The RTC handler has the higher priority (irq.rs) and may run between    *)
(* any two steps of the EIC handler, once: the EIC handler takes less than *)
(* a fast tick.  Both work on the same DebounceState without a critical    *)
(* section.  `raced` remembers that the RTC handler ran between the EIC    *)
(* handler's decision to accept a level and its acceptance.                *)
(***************************************************************************)
EXTENDS Naturals

CONSTANTS
  DebounceSamples,   \* DEBOUNCE_SAMPLES
  LongTicks,         \* MOVEMENT_LONG_PRESS_TICKS
  ReallyLongTicks,   \* MOVEMENT_REALLY_LONG_PRESS_TICKS
  TickModulus,       \* FAST_TICKS counts modulo this (2^16)
  IdleSuspend        \* FAST_TICK_IDLE_SUSPEND

ASSUME ButtonsAssumption ==
  /\ {DebounceSamples, LongTicks, IdleSuspend} \subseteq Nat \ {0, 1}
  /\ ReallyLongTicks \in Nat /\ ReallyLongTicks > LongTicks
  /\ TickModulus \in Nat /\ TickModulus > ReallyLongTicks + 1
  /\ IdleSuspend > DebounceSamples

VARIABLES
  pin,          \* the level of the button's pin
  edge,         \* its EIC flag
  others,       \* some other button is held down
  ticks,        \* FAST_TICKS
  idle,         \* FAST_TICK_IDLE
  fastOn,       \* FAST_TICK_ON
  stable,       \* DebounceState: stable_level
  candidate,    \*   candidate_level
  count,        \*   sample_count; all that counts is whether it is enough
  downAt,       \*   down_timestamp
  longReported, reallyReported,
  eic,          \* where the EIC handler stands
  sample,       \* the level and FAST_TICKS it has read
  stamp,
  preempted,    \* the RTC handler has run since the EIC handler began
  raced,        \* history: see above
  phase,        \* history: what the posted events say of the button
  held          \* history: fast ticks since Down was posted

debounce == <<stable, candidate, count, downAt, longReported, reallyReported>>
tickVars == <<ticks, idle, fastOn>>
eicVars == <<eic, sample, stamp, preempted>>
buttonsVars == <<pin, edge, others, tickVars, debounce, eicVars, raced, phase, held>>

-----------------------------------------------------------------------------
(* The order in which a face expects the events of one button: what a      *)
(* press has come to so far, and what each event makes of it.              *)
After(p, event) ==
  CASE p = "up" /\ event = "Down" -> "down"
    [] p = "down" /\ event = "LongPress" -> "long"
    [] p = "long" /\ event = "ReallyLongPress" -> "really"
    [] p = "down" /\ event = "Up" -> "up"
    [] p \in {"long", "really"} /\ event = "LongUp" -> "up"
    [] event = "none" -> p
    [] OTHER -> "broken"

(* The debounce state as a record, for the operators that compute one.     *)
State == [stable |-> stable, candidate |-> candidate, count |-> count,
          downAt |-> downAt, long |-> longReported, really |-> reallyReported]

Becomes(s) ==
  /\ stable' = s.stable /\ candidate' = s.candidate /\ count' = s.count
  /\ downAt' = s.downAt /\ longReported' = s.long /\ reallyReported' = s.really

(* update(): a sample joins the candidate's or starts a new one.           *)
Counted(s, level) ==
  IF level = s.candidate
    THEN [s EXCEPT !.count = IF @ < DebounceSamples THEN @ + 1 ELSE @]
    ELSE [s EXCEPT !.candidate = level, !.count = 1]

Acceptable(s) == s.count = DebounceSamples /\ s.stable # s.candidate

(* Wrong on purpose: the flags of the last press are kept.                 *)
AcceptedKeepingFlags(s, level, t) ==
  [s EXCEPT !.stable = level, !.count = 0, !.downAt = IF level THEN t ELSE 0]

(* update(), the rest: the candidate becomes the stable level.             *)
Accepted(s, level, t) ==
  IF level
    THEN [s EXCEPT !.stable = TRUE, !.count = 0, !.downAt = t,
                   !.long = FALSE, !.really = FALSE]
    ELSE [s EXCEPT !.stable = FALSE, !.count = 0, !.downAt = 0]

ChangeEvent(s, level) ==
  IF level THEN "Down" ELSE IF s.long THEN "LongUp" ELSE "Up"

(* Wrong on purpose: the difference is not taken modulo the counter.       *)
HeldTicksUnwrapped(s, t) == IF t >= s.downAt THEN t - s.downAt ELSE 0

(* fast_ticks.wrapping_sub(down_timestamp).                                *)
HeldTicks(s, t) == (t + TickModulus - s.downAt) % TickModulus

(* check_long_press: at most one event a tick, the long press first.       *)
HoldEvent(s, t) ==
  IF s.stable /\ ~s.long /\ HeldTicks(s, t) >= LongTicks THEN "LongPress"
  ELSE IF s.stable /\ ~s.really /\ HeldTicks(s, t) >= ReallyLongTicks
    THEN "ReallyLongPress"
  ELSE "none"

Reported(s, event) ==
  CASE event = "LongPress" -> [s EXCEPT !.long = TRUE]
    [] event = "ReallyLongPress" -> [s EXCEPT !.really = TRUE]
    [] OTHER -> s

(* Wrong on purpose: the callback is registered anew only while idle ticks *)
(* are being counted.                                                      *)
ResumeWhileCounting == idle' = 0 /\ fastOn' = (fastOn \/ idle \in 1 .. IdleSuspend - 1)

(* resume_fast_tick.                                                       *)
ResumeFastTick == idle' = 0 /\ fastOn' = TRUE

-----------------------------------------------------------------------------
(* After app_setup: resume_fast_tick has run.                              *)
ButtonsInit ==
  /\ pin = FALSE /\ edge = FALSE /\ others = FALSE
  /\ ticks = 0 /\ idle = 0 /\ fastOn = TRUE
  /\ stable = FALSE /\ candidate = FALSE /\ count = 0 /\ downAt = 0
  /\ longReported = FALSE /\ reallyReported = FALSE
  /\ eic = "idle" /\ sample = FALSE /\ stamp = 0 /\ preempted = FALSE
  /\ raced = FALSE /\ phase = "up" /\ held = 0

(* The pin bounces as it likes; both edges raise the flag.                 *)
PinChanges ==
  /\ pin' = ~pin /\ edge' = TRUE
  /\ UNCHANGED <<others, tickVars, debounce, eicVars, raced, phase, held>>

(* Another button goes down or up, and its edge interrupt resumes the tick.*)
OtherButton ==
  /\ eic = "idle"
  /\ others' = ~others
  /\ ResumeFastTick
  /\ UNCHANGED <<pin, edge, ticks, debounce, eicVars, raced, phase, held>>

(* The history of what was posted.                                         *)
Posted(event) ==
  /\ phase' = After(phase, event)
  /\ held' = IF event = "Down" THEN 0 ELSE held

(* EIC(): the flag is cleared, then the callback resumes the fast tick,    *)
EdgeInterrupt ==
  /\ eic = "idle" /\ edge
  /\ edge' = FALSE
  /\ ResumeFastTick
  /\ eic' = "read" /\ preempted' = FALSE
  /\ UNCHANGED <<pin, others, ticks, debounce, sample, stamp, raced, phase, held>>

(* reads the pin and the tick counter,                                     *)
EdgeRead ==
  /\ eic = "read"
  /\ sample' = pin /\ stamp' = ticks
  /\ eic' = "count"
  /\ UNCHANGED <<pin, edge, others, tickVars, debounce, preempted, raced, phase, held>>

EdgeDone == eic' = "idle" /\ sample' = FALSE /\ stamp' = 0 /\ preempted' = FALSE

(* counts the sample, and either is done                                   *)
EdgeCount ==
  /\ eic = "count"
  /\ Becomes(Counted(State, sample))
  /\ IF Acceptable(Counted(State, sample))
       THEN eic' = "accept" /\ UNCHANGED <<sample, stamp, preempted>>
       ELSE EdgeDone
  /\ UNCHANGED <<pin, edge, others, tickVars, raced, phase, held>>

(* or accepts it.  candidate_level is shared: a build may read it again or *)
(* go on with the level it compared.                                       *)
EdgeAccept ==
  /\ eic = "accept"
  /\ \E level \in {sample, candidate} :
       /\ Becomes(Accepted(State, level, stamp))
       /\ Posted(ChangeEvent(State, level))
  /\ EdgeDone
  /\ UNCHANGED <<pin, edge, others, tickVars, raced>>

(* Wrong on purpose: the idle count goes on while a button is held.        *)
AnyButtonDownMissed == FALSE

(* any_button_down reads the pins.                                         *)
AnyButtonDown == pin \/ others

(* cb_fast_tick: count, sample, check for long presses (which resume the   *)
(* tick), then either nobody holds a button, for long enough, or not.      *)
FastTick ==
  /\ fastOn /\ ~preempted
  /\ ticks' = (ticks + 1) % TickModulus
  /\ LET counted == Counted(State, pin)
         accepted == IF Acceptable(counted) THEN Accepted(counted, pin, ticks')
                     ELSE counted
         change == IF Acceptable(counted) THEN ChangeEvent(counted, pin) ELSE "none"
         hold == HoldEvent(accepted, ticks')
         idled == (IF hold = "none" THEN idle ELSE 0) + 1
     IN /\ Becomes(Reported(accepted, hold))
        /\ phase' = After(After(phase, change), hold)
        /\ held' = IF change = "Down" THEN 0
                   ELSE IF held < TickModulus THEN held + 1 ELSE held
        /\ IF AnyButtonDown
             THEN idle' = 0 /\ UNCHANGED fastOn
             ELSE idle' = idled /\ fastOn' = (idled < IdleSuspend)
  /\ preempted' = (eic # "idle")
  /\ raced' = (raced \/ eic = "accept")
  /\ UNCHANGED <<pin, edge, others, eic, sample, stamp>>

EdgeStep == EdgeInterrupt \/ EdgeRead \/ EdgeCount \/ EdgeAccept

ButtonsNext == PinChanges \/ OtherButton \/ EdgeStep \/ FastTick

(* A pending interrupt is served and its handler finishes; the fast tick,  *)
(* while registered, keeps coming.                                         *)
ButtonsFairness == WF_buttonsVars(EdgeStep) /\ WF_buttonsVars(FastTick)

ButtonsSpec == ButtonsInit /\ [][ButtonsNext]_buttonsVars /\ ButtonsFairness

-----------------------------------------------------------------------------
(* The counters keep their ranges: sample_count saturates, FAST_TICKS      *)
(* wraps and FAST_TICK_IDLE stops at the suspension.                       *)
ButtonsTypeOK ==
  /\ {pin, edge, others, fastOn, stable, candidate, longReported, reallyReported,
      sample, preempted, raced} \subseteq BOOLEAN
  /\ {ticks, downAt, stamp} \subseteq 0 .. TickModulus - 1
  /\ idle \in 0 .. IdleSuspend /\ held \in 0 .. TickModulus
  /\ count \in 0 .. DebounceSamples
  /\ eic \in {"idle", "read", "count", "accept"}
  /\ phase \in {"up", "down", "long", "really", "broken"}

(* Whatever the pin does, and wherever the fast tick interrupts, a button's*)
(* events come in the one order faces are written for: Down, then perhaps  *)
(* LongPress and ReallyLongPress, then Up or LongUp - as long as the two   *)
(* handlers did not both accept one change, which posts its event twice.   *)
EventsInOrder == ~raced => phase # "broken"

(* The fast tick is suspended only while the button is released and known  *)
(* to be, or an edge interrupt is about to resume it: no press is missed   *)
(* and no release waits for the next press.                                *)
SuspendedOnlyAtRest == ~fastOn /\ ~edge => ~pin /\ ~stable

(* A long press is reported in the fast tick in which it is due, one tick  *)
(* early when the down timestamp is the one the edge interrupt had read    *)
(* before it was preempted; the wrap of FAST_TICKS does not matter.        *)
LongPressOnTime ==
  ~raced =>
    /\ phase = "down" => held < LongTicks
    /\ phase = "long" => held \in LongTicks - 1 .. ReallyLongTicks - 1
    /\ phase = "really" => held >= ReallyLongTicks - 1

(* A level that the pin keeps is accepted in the end, suspended or not.    *)
SteadyLevelIsAccepted ==
  \A level \in BOOLEAN : <>[](pin = level) => <>[](stable = level)
=============================================================================
