------------------------------ MODULE UartSession ------------------------------
(***************************************************************************)
(* The debug UART's session: consent from a face and the idle timeout      *)
(* (UartRuntimePolicy in src/src/movement/uart_policy.rs), the window in   *)
(* which the held Alarm button lets the shell change things                *)
(* (ShellAuthorization in shell_auth.rs), and the part of app_loop that    *)
(* steps both once per pass.                                               *)
(*                                                                         *)
(* Both count FAST_TICKS, a 16-bit counter that stops while the fast tick  *)
(* is suspended (module Buttons): passes come with or without ticks        *)
(* between them, at most PassTicks of them.  The session subtracts it in   *)
(* 32 bits, the window in 16.                                              *)
(***************************************************************************)
EXTENDS Naturals

CONSTANTS
  FastTickModulus,   \* 2^16
  IdleTimeout,       \* UART_IDLE_TIMEOUT_TICKS
  AuthWindow,        \* AUTH_WINDOW_TICKS
  PassTicks          \* bound on the fast ticks between two passes

ASSUME UartSessionAssumption ==
  /\ {FastTickModulus, IdleTimeout, AuthWindow, PassTicks} \subseteq Nat \ {0}
  /\ FastTickModulus > IdleTimeout + PassTicks
  /\ FastTickModulus > AuthWindow + PassTicks

VARIABLES
  fastTicks,       \* FAST_TICKS
  lag,             \* fast ticks since the last pass
  session,         \* UART_POLICY.enabled
  lastActivity,    \* UART_POLICY.last_activity
  preference,      \* settings.uart_shell_enabled
  powered,         \* the UART peripheral is enabled
  pressed,         \* SHELL_AUTH.held
  startedAt,       \* SHELL_AUTH.started_at
  mayMutate,       \* SHELL.mutation_authorized
  idleFor,         \* history: ticks since the session was enabled or had input
  heldFor,         \* history: ticks since the press was taken
  early            \* history: a session was cut before its time, with no wrap

authVars == <<pressed, startedAt, mayMutate, heldFor>>
sessionVars == <<session, lastActivity, preference, powered, idleFor, early>>
uartVars == <<fastTicks, lag, authVars, sessionVars>>

(* Wrong on purpose: one tick late.                                        *)
TimedOutLate == fastTicks < lastActivity \/ fastTicks - lastActivity > IdleTimeout

(* now.wrapping_sub(last_activity) >= UART_IDLE_TIMEOUT_TICKS in 32 bits:  *)
(* when FAST_TICKS has wrapped the difference is huge.                     *)
TimedOut == fastTicks < lastActivity \/ fastTicks - lastActivity >= IdleTimeout

(* now.wrapping_sub(started_at) >= AUTH_WINDOW_TICKS in 16 bits.           *)
WindowOver(start) ==
  (fastTicks + FastTickModulus - start) % FastTickModulus >= AuthWindow

-----------------------------------------------------------------------------
UartInit ==
  /\ fastTicks = 0 /\ lag = 0
  /\ session = FALSE /\ lastActivity = 0 /\ preference \in BOOLEAN /\ powered = FALSE
  /\ pressed = FALSE /\ startedAt = 0 /\ mayMutate = FALSE
  /\ idleFor = 0 /\ heldFor = 0 /\ early = FALSE

Tick ==
  /\ lag < PassTicks
  /\ fastTicks' = (fastTicks + 1) % FastTickModulus
  /\ lag' = lag + 1
  /\ idleFor' = IF session THEN idleFor + 1 ELSE 0
  /\ heldFor' = IF pressed THEN heldFor + 1 ELSE 0
  /\ UNCHANGED <<session, lastActivity, preference, powered, early, pressed, startedAt,
                 mayMutate>>

Revoke == pressed' = FALSE /\ startedAt' = 0 /\ mayMutate' = FALSE /\ heldFor' = 0

(* Wrong on purpose: an expired window is not revoked, only refused.       *)
AuthorizeWithoutRevoking(held, start, age) ==
  /\ pressed' = held /\ startedAt' = start /\ heldFor' = age
  /\ mayMutate' = (held /\ ~WindowOver(start))

(* ShellAuthorization::is_authorized, and what the shell is told.          *)
Authorize(held, start, age) ==
  IF ~held \/ WindowOver(start)
    THEN Revoke
    ELSE pressed' = TRUE /\ startedAt' = start /\ mayMutate' = TRUE /\ heldFor' = age

(* ShellAuthorization::observe of the event the pass has taken: the Alarm  *)
(* button's Down, its Up or LongUp, or another.  The queue may have lost   *)
(* any event.                                                              *)
ObserveAuth(event) ==
  CASE event = "down" -> Authorize(TRUE, fastTicks, 0)
    [] event = "up" -> Revoke
    [] event = "other" -> Authorize(pressed, startedAt, heldFor)

(* observe_poll after SHELL.poll, and app_loop's reaction to a timeout.    *)
ObservePoll(hadInput) ==
  \/ /\ hadInput
     /\ lastActivity' = fastTicks /\ idleFor' = 0
     /\ UNCHANGED <<session, preference, powered, early>>
  \/ /\ ~hadInput /\ ~TimedOut
     /\ UNCHANGED sessionVars
  \/ /\ ~hadInput /\ TimedOut
     /\ session' = FALSE /\ preference' = FALSE /\ powered' = FALSE /\ idleFor' = 0
     /\ early' = (early \/ (idleFor < IdleTimeout /\ fastTicks >= lastActivity))
     /\ UNCHANGED lastActivity

(* A pass in which the face leaves the session alone.                      *)
PassOnly(event, hadInput) ==
  /\ ObserveAuth(event)
  /\ IF session THEN ObservePoll(hadInput) ELSE UNCHANGED sessionVars
  /\ lag' = 0 /\ UNCHANGED fastTicks

(* A pass whose face gives consent (enable_uart_from_face); the poll of    *)
(* the same pass finds no time gone by.                                    *)
PassEnabling(event) ==
  /\ ObserveAuth(event)
  /\ session' = TRUE /\ lastActivity' = fastTicks /\ idleFor' = 0
  /\ preference' = TRUE /\ powered' = TRUE
  /\ lag' = 0 /\ UNCHANGED <<fastTicks, early>>

(* A pass whose face withdraws it (disable_uart_from_face).                *)
PassDisabling(event) ==
  /\ ObserveAuth(event)
  /\ session' = FALSE /\ lastActivity' = 0 /\ idleFor' = 0
  /\ preference' = FALSE /\ powered' = FALSE
  /\ lag' = 0 /\ UNCHANGED <<fastTicks, early>>

Pass ==
  \E event \in {"down", "up", "other"} :
    \/ \E hadInput \in BOOLEAN : PassOnly(event, hadInput)
    \/ ~preference /\ PassEnabling(event)
    \/ preference /\ PassDisabling(event)

(* A reset: the settings are loaded, the session is not (boot).            *)
UartReset ==
  /\ fastTicks' = 0 /\ lag' = 0
  /\ session' = FALSE /\ lastActivity' = 0 /\ powered' = FALSE /\ idleFor' = 0
  /\ Revoke
  /\ UNCHANGED <<preference, early>>

UartNext == Tick \/ Pass \/ UartReset

UartSpec == UartInit /\ [][UartNext]_uartVars

-----------------------------------------------------------------------------
(* The counters keep their ranges and the UART is powered for a session    *)
(* only.                                                                   *)
UartTypeOK ==
  /\ {fastTicks, lastActivity, startedAt} \subseteq 0 .. FastTickModulus - 1
  /\ lag \in 0 .. PassTicks
  /\ {session, preference, powered, pressed, mayMutate, early} \subseteq BOOLEAN
  /\ idleFor \in Nat /\ heldFor \in Nat
  /\ powered = session

(* A live session was used within the timeout as of the last pass, and a   *)
(* session is cut early only when the tick counter has wrapped under it.   *)
SessionBounded ==
  /\ session => idleFor < IdleTimeout + lag
  /\ ~early

(* The shell changes things only within the window after a press of the    *)
(* Alarm button that was not released since, however often the counter has *)
(* wrapped and however many events the queue has lost.                     *)
MutationWithinWindow == mayMutate => pressed /\ heldFor < AuthWindow + lag
=============================================================================
