----------------------------- MODULE BootThrottle -----------------------------
(***************************************************************************)
(* The boot throttle of src/src/movement/fault.rs.  Each boot compares the *)
(* second of the minute with the one the last boot left in a backup        *)
(* register and counts boots that follow each other closely; too many drop *)
(* the watch into its safe state.  The register survives every reset but   *)
(* the loss of power; the safe state is in RAM.                            *)
(***************************************************************************)
EXTENDS PackedClock

CONSTANTS
  BootWindow,        \* BOOT_WINDOW_TICKS
  MaxBoots,          \* MAX_BOOTS_IN_WINDOW
  CountModulus       \* the boot count is kept in one byte

ASSUME BootThrottleAssumption ==
  /\ MaxBoots \in Nat \ {0}
  /\ BootWindow \in Nat /\ BootWindow < MinuteSeconds
  /\ CountModulus \in Nat /\ CountModulus > MaxBoots + 1

VARIABLES
  bootClock,       \* the RTC's second of the minute
  bootSecond,      \* REG_RESET_REASON: bytes 1-2,
  bootCount,       \*   byte 3
  cause,           \*   and byte 0
  fault,           \* REG_LAST_FAULT's low byte
  safe,            \* SAFE_STATE
  gap,             \* history: seconds since the last boot, up to a minute
  clockSet,        \* history: the clock was set since the last boot
  streak,          \* history: boots in a row in one minute, window by window
  wrapped          \* history: the boot count has run over its byte

registers == <<bootSecond, bootCount, cause, fault>>
throttleVars == <<bootClock, registers, safe, gap, clockSet, streak, wrapped>>

(* Wrong on purpose: a boot outside the window counts as none.             *)
BootsFromZero ==
  IF WrappingSub(bootClock, bootSecond) <= BootWindow THEN bootCount + 1 ELSE 0

(* The boots so far, by the second of the minute.                          *)
Boots ==
  IF WrappingSub(bootClock, bootSecond) <= BootWindow THEN bootCount + 1 ELSE 1

(* check_boot_throttle; the register keeps the reset reason.               *)
CheckBootThrottle ==
  /\ bootSecond' = bootClock
  /\ bootCount' = Boots % CountModulus
  /\ safe' = (Boots > MaxBoots)

-----------------------------------------------------------------------------
(* After power on: the registers were zero and the throttle ran.           *)
PoweredOn(s, boot, count, reason, last) ==
  s = 0 /\ boot = 0 /\ count = 1 /\ reason = "PowerOn" /\ last = "none"

ThrottleInit ==
  /\ PoweredOn(bootClock, bootSecond, bootCount, cause, fault) /\ safe = FALSE
  /\ gap = 0 /\ clockSet = FALSE /\ streak = 1 /\ wrapped = FALSE

BootClockAdvances ==
  /\ bootClock' = (bootClock + 1) % MinuteSeconds
  /\ gap' = IF gap < MinuteSeconds THEN gap + 1 ELSE gap
  /\ UNCHANGED <<registers, safe, clockSet, streak, wrapped>>

(* set_date_time.                                                          *)
BootClockSet ==
  /\ bootClock' \in 0 .. MinuteSeconds - 1 /\ clockSet' = TRUE
  /\ UNCHANGED <<registers, safe, gap, streak, wrapped>>

(* What the reset leaves in the record: check_reset_reason sees a watchdog *)
(* reset, the panic handler writes before it resets, a brown-out neither.  *)
Recorded(kind) ==
  CASE kind = "watchdog" -> cause' = "Watchdog" /\ fault' = "WatchdogReset"
    [] kind = "panic" -> cause' = "Panic" /\ fault' = "Panic"
    [] OTHER -> UNCHANGED <<cause, fault>>

(* A reset that keeps the backup registers, and the boot after it.         *)
WarmReset(kind) ==
  /\ Recorded(kind)
  /\ CheckBootThrottle
  /\ streak' = IF clockSet \/ gap > BootWindow \/ bootClock < bootSecond THEN 1
               ELSE IF streak <= MaxBoots THEN streak + 1 ELSE streak
  /\ wrapped' = (wrapped \/ Boots = CountModulus)
  /\ gap' = 0 /\ clockSet' = FALSE
  /\ UNCHANGED bootClock

(* The battery was out: registers and clock start again.                   *)
PowerOnReset ==
  /\ PoweredOn(bootClock', bootSecond', bootCount', cause', fault') /\ safe' = FALSE
  /\ gap' = 0 /\ clockSet' = FALSE /\ streak' = 1 /\ wrapped' = FALSE

ThrottleNext ==
  \/ BootClockAdvances \/ BootClockSet \/ PowerOnReset
  \/ \E kind \in {"watchdog", "panic", "brown-out"} : WarmReset(kind)

ThrottleSpec == ThrottleInit /\ [][ThrottleNext]_throttleVars

-----------------------------------------------------------------------------
(* The registers hold what their bytes can.                                *)
ThrottleTypeOK ==
  /\ {bootClock, bootSecond} \subseteq 0 .. MinuteSeconds - 1
  /\ bootCount \in 0 .. CountModulus - 1
  /\ cause \in {"PowerOn", "Watchdog", "Panic"}
  /\ fault \in {"none", "WatchdogReset", "Panic"}
  /\ {safe, clockSet, wrapped} \subseteq BOOLEAN
  /\ gap \in 0 .. MinuteSeconds /\ streak \in 1 .. MaxBoots + 1

(* Resets that follow each other within the window and within one minute   *)
(* lead to the safe state, as long as the count has not run over its byte. *)
QuickBootsAreSafe == streak > MaxBoots /\ ~wrapped => safe

(* Boots further apart than the window, but less than a minute, never do.  *)
SlowBootsAreNot ==
  safe' /\ gap' = 0 /\ ~clockSet => gap \notin BootWindow + 1 .. MinuteSeconds - 1

(* The safe state is for boots that follow each other quickly, although    *)
(* only the second of the minute is kept: both of the above.               *)
SafeStateForQuickBoots == [][QuickBootsAreSafe' /\ SlowBootsAreNot]_throttleVars
=============================================================================
