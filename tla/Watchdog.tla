------------------------------- MODULE Watchdog -------------------------------
(***************************************************************************)
(* The hardware watchdog (src/src/watch/wdt.rs) against everything that    *)
(* wakes the processor: the 1 Hz tick or the minute wake (set_tick_rate in *)
(* src/src/movement/mod.rs), the 128 Hz fast tick that suspends itself     *)
(* and the button edges that resume it.  Only the main loop kicks          *)
(* (src/src/main.rs), after a whole reaction; the watchdog's period is     *)
(* short while the fast tick runs and long while it is suspended.          *)
(*                                                                         *)
(* Time advances in beats of the fast tick.  A reaction takes at most      *)
(* PassBeats beats unless the loop hangs; interrupts run even then.  A     *)
(* watchdog whose period is shortened below what it has counted resets.    *)
(***************************************************************************)
EXTENDS Naturals

CONSTANTS
  BeatsPerSecond,     \* 128
  SecondsPerMinute,   \* 60
  ShortPeriod,        \* Cyc2048, in beats
  LongPeriod,         \* Cyc16384, in beats
  SuspendAfter,       \* FAST_TICK_IDLE_SUSPEND
  PassBeats           \* bound on a reaction

ASSUME WatchdogAssumption ==
  /\ {BeatsPerSecond, SecondsPerMinute, SuspendAfter} \subseteq Nat \ {0}
  /\ PassBeats \in Nat
  /\ ShortPeriod \in Nat /\ ShortPeriod >= BeatsPerSecond + PassBeats
  /\ LongPeriod \in Nat /\ LongPeriod >= ShortPeriod

VARIABLES
  fraction, second,   \* the time within a minute: beats and seconds
  period,             \* the period the watchdog is set to
  unkicked,           \* beats since it was last kicked
  cpu,                \* standby, app_loop, or between the kick and WFI
  passing,            \* beats the reaction has taken
  hung,               \* the main loop does not complete any more
  pending,            \* RTC interrupts raised and not yet handled
  tickOn,             \* the 1 Hz tick is registered
  minuteOn,           \* the minute wake is armed
  button,             \* a button is held
  fastTickOn,         \* FAST_TICK_ON
  idleTicks           \* FAST_TICK_IDLE

wakeSources == <<tickOn, minuteOn, fastTickOn, idleTicks>>
watchdogVars == <<fraction, second, period, unkicked, cpu, passing, hung, pending,
                  wakeSources, button>>

Expired == unkicked > period

-----------------------------------------------------------------------------
(* resume_fast_tick and suspend_fast_tick: neither kicks.                  *)
Resume == idleTicks' = 0 /\ fastTickOn' = TRUE /\ period' = ShortPeriod

Suspend == fastTickOn' = FALSE /\ period' = LongPeriod

(* set_tick_rate(show): one of the two wake sources.                       *)
SetTickRate(show) == tickOn' = show /\ minuteOn' = ~show

Wake ==
  /\ cpu' = IF cpu = "standby" THEN "app_loop" ELSE cpu
  /\ passing' = IF cpu = "standby" THEN 0 ELSE passing

(* Wrong on purpose: an interrupt handler kicks.                           *)
WakeAndKick == Wake /\ unkicked' = 0

(* An interrupt handler returns to the loop it interrupted or woke.        *)
WakeOnly == Wake /\ UNCHANGED unkicked

(* main: app_setup sets the rate the settings ask for, then main registers *)
(* the 1 Hz tick in any case.                                              *)
TickAfterSetup(show) == tickOn' = TRUE /\ minuteOn' = ~show

(* Reset and boot, up to the loop.                                         *)
Boot ==
  /\ \E show \in BOOLEAN : TickAfterSetup(show)
  /\ Resume
  /\ unkicked' = 0 /\ cpu' = "app_loop" /\ passing' = 0
  /\ hung' = FALSE /\ pending' = {}

WatchdogInit ==
  /\ fraction = 0 /\ second = 0
  /\ period = ShortPeriod /\ unkicked = 0
  /\ cpu = "app_loop" /\ passing = 0 /\ hung = FALSE /\ pending = {}
  /\ tickOn = TRUE /\ minuteOn \in BOOLEAN /\ button = FALSE
  /\ fastTickOn = TRUE /\ idleTicks = 0

Reset ==
  /\ Expired
  /\ Boot
  /\ UNCHANGED <<fraction, second, button>>

(* A beat: the RTC raises what is due.                                     *)
Beat ==
  /\ ~Expired /\ pending = {} /\ cpu # "kicked"
  /\ cpu = "app_loop" /\ ~hung => passing < PassBeats
  /\ fraction' = (fraction + 1) % BeatsPerSecond
  /\ second' = IF fraction' = 0 THEN (second + 1) % SecondsPerMinute ELSE second
  /\ unkicked' = unkicked + 1
  /\ passing' = IF cpu = "app_loop" /\ ~hung THEN passing + 1 ELSE passing
  /\ pending' = (IF fastTickOn THEN {"fast"} ELSE {})
                \cup (IF tickOn /\ fraction' = 0 THEN {"tick"} ELSE {})
                \cup (IF minuteOn /\ fraction' = 0 /\ second' = 0 THEN {"minute"}
                      ELSE {})
  /\ UNCHANGED <<period, cpu, hung, wakeSources, button>>

(* cb_tick, and cb_minute_tick, which re-arms itself.                      *)
TickInterrupt(source) ==
  /\ ~Expired /\ source \in pending
  /\ pending' = pending \ {source}
  /\ WakeOnly
  /\ UNCHANGED <<fraction, second, period, hung, wakeSources, button>>

(* cb_fast_tick: a held button keeps it going (and a long press resumes it,*)
(* which changes nothing then).                                            *)
FastTickInterrupt ==
  /\ ~Expired /\ "fast" \in pending
  /\ pending' = pending \ {"fast"}
  /\ idleTicks' = IF button THEN 0 ELSE idleTicks + 1
  /\ IF idleTicks' >= SuspendAfter THEN Suspend ELSE UNCHANGED <<fastTickOn, period>>
  /\ WakeOnly
  /\ UNCHANGED <<fraction, second, hung, tickOn, minuteOn, button>>

(* The EIC handlers: each edge resumes the fast tick.                      *)
ButtonEdge ==
  /\ ~Expired
  /\ button' = ~button
  /\ Resume
  /\ WakeOnly
  /\ UNCHANGED <<fraction, second, hung, pending, tickOn, minuteOn>>

(* Wrong on purpose: no kick while the fast tick runs.                     *)
KickWhenSuspended == unkicked' = IF fastTickOn THEN unkicked ELSE 0

Kick == unkicked' = 0

(* app_loop, in which a face may set the rate or ask for a frequency       *)
(* (request_tick_frequency: 1 Hz hides the seconds), then the kick.        *)
AppLoop ==
  /\ ~Expired /\ cpu = "app_loop" /\ ~hung
  /\ Kick
  /\ cpu' = "kicked" /\ passing' = 0
  /\ \/ \E show \in BOOLEAN : SetTickRate(show)
     \/ UNCHANGED <<tickOn, minuteOn>>
  /\ UNCHANGED <<fraction, second, period, hung, pending, fastTickOn, idleTicks, button>>

(* enter_standby: WFI returns at once if an interrupt is pending; one that *)
(* was handled between the kick and WFI does not wake it.                  *)
EnterStandby ==
  /\ ~Expired /\ cpu = "kicked" /\ pending = {}
  /\ cpu' = "standby"
  /\ UNCHANGED <<fraction, second, period, unkicked, passing, hung, pending,
                 wakeSources, button>>

Hang ==
  /\ ~Expired /\ cpu = "app_loop" /\ ~hung
  /\ hung' = TRUE
  /\ UNCHANGED <<fraction, second, period, unkicked, cpu, passing, pending,
                 wakeSources, button>>

Interrupt == (\E source \in {"tick", "minute"} : TickInterrupt(source)) \/ FastTickInterrupt

WatchdogNext ==
  Beat \/ Reset \/ Interrupt \/ ButtonEdge \/ AppLoop \/ EnterStandby \/ Hang

(* Time passes, raised interrupts are handled, the hardware resets.        *)
WatchdogFairness ==
  /\ WF_watchdogVars(Beat) /\ WF_watchdogVars(Interrupt) /\ WF_watchdogVars(Reset)
  /\ WF_watchdogVars(EnterStandby)

WatchdogSpec == WatchdogInit /\ [][WatchdogNext]_watchdogVars /\ WatchdogFairness

-----------------------------------------------------------------------------
(* The variables keep their ranges; in particular the count of a watchdog  *)
(* that is about to expire is at most one beat past its period, or what it *)
(* was when the period was shortened.                                      *)
WatchdogTypeOK ==
  /\ fraction \in 0 .. BeatsPerSecond - 1 /\ second \in 0 .. SecondsPerMinute - 1
  /\ period \in {ShortPeriod, LongPeriod} /\ unkicked \in 0 .. LongPeriod + 1
  /\ cpu \in {"standby", "app_loop", "kicked"}
  /\ passing \in 0 .. PassBeats
  /\ {hung, tickOn, minuteOn, button, fastTickOn} \subseteq BOOLEAN
  /\ pending \subseteq {"fast", "tick", "minute"}
  /\ idleTicks \in 0 .. SuspendAfter

(* While the 1 Hz tick is registered, a loop that keeps completing its     *)
(* reactions is never reset, whichever period is set and whenever it was   *)
(* changed.                                                                *)
NoResetWhileTicking == Expired /\ tickOn => hung

(* A loop that hangs is cut off, although interrupts and buttons go on.    *)
HangIsCut == hung ~> ~hung

(* What the comment at src/src/watch/wdt.rs:70 asks of extend_timeout: the *)
(* period covers the longest expected sleep, the per-minute wake, so that  *)
(* the chip is not reset mid-sleep.                                        *)
CoversLongestSleep == cpu = "standby" => ~Expired
=============================================================================
