------------------------------ MODULE MCServices ------------------------------
(* The services around the dispatcher, which share no state but the clocks *)
(* each models for itself: a behaviour steps one of them and leaves the    *)
(* others at rest, so that the states add up.                              *)
EXTENDS Watchdog, Heartbeat, BootThrottle, UartSession, Transfer, Optical, Buzzer, EventQueue,
        Buttons

CONSTANTS MaxPosts, tick, mode, alarm

VARIABLE service     \* the one that is stepped

serviceVars == <<service, watchdogVars, heartbeatVars, throttleVars, uartVars, transferVars,
                 opticalVars, buzzerVars, queueVars, buttonsVars>>

(* Three events, and at most MaxPosts of them.                             *)
MCEvent == {tick, mode, alarm}
MCQueueNext == (Len(log) < MaxPosts /\ \E e \in Event : Post(e)) \/ Take

(* Two uploads of one object and one of another, in two or three chunks.   *)
MCObjectOf == [a |-> "Settings", b |-> "Settings", c |-> "Activity"]
MCEnds == [a |-> <<1, 3>>, b |-> <<2, 3>>, c |-> <<1, 2, 3>>]

(* Melodies with and without a repetition, and sequences that are refused: *)
(* no end, no duration, a rest, a marker before any note, too many pairs,  *)
(* and, as the tunes of ping.rs and the beep of advanced_alarm.rs, an end  *)
(* without a duration.  The last two are cut off at the second of two      *)
(* markers, and end at once.                                               *)
Pair(note, duration) == [note |-> note, duration |-> duration]
MCMelodies ==
  {<<Pair(1, 1), Pair(2, 2), Pair(0, 0)>>,
   <<Pair(1, 1), Pair(2, 1), Pair(-2, 2), Pair(3, 1), Pair(0, 0)>>,
   <<Pair(1, 1), Pair(2, 1), Pair(-1, 1), Pair(0, 0), Pair(4, 1)>>,
   <<Pair(1, 1)>>, <<Pair(1, 0), Pair(0, 0)>>, <<Pair(1, 1), Pair(4, 1), Pair(0, 0)>>,
   <<Pair(-1, 1), Pair(0, 0)>>,
   <<Pair(1, 1), Pair(1, 1), Pair(1, 1), Pair(1, 1), Pair(1, 1), Pair(0, 0)>>,
   <<Pair(1, 2), Pair(2, 2), Pair(3, 2), [note |-> 0]>>,
   <<Pair(1, 1), Pair(-1, 1), Pair(1, 2), [note |-> 0]>>,
   <<Pair(1, 1), Pair(-1, 1), Pair(-1, 1), Pair(0, 0)>>,
   <<Pair(0, 0)>>}

Services == {"watchdog", "heartbeat", "throttle", "uart", "transfer", "optical", "buzzer",
             "queue", "buttons"}

MCInit ==
  /\ service \in Services
  /\ WatchdogInit /\ (service # "watchdog" => ~minuteOn)
  /\ HeartbeatInit /\ (service # "heartbeat" => now = 0)
  /\ ThrottleInit
  /\ UartInit /\ (service # "uart" => ~preference)
  /\ TransferInit /\ (service # "transfer" => sender = [upload |-> "a", step |-> 0])
  /\ OpticalInit /\ (service # "optical" => ~provisioned)
  /\ BuzzerInit /\ (service # "buzzer" => ~inSafeState)
  /\ QueueInit
  /\ ButtonsInit /\ (service # "buttons" => ~pin)

OthersRest ==
  /\ IF service = "watchdog" THEN TRUE ELSE UNCHANGED watchdogVars
  /\ IF service = "heartbeat" THEN TRUE ELSE UNCHANGED heartbeatVars
  /\ IF service = "throttle" THEN TRUE ELSE UNCHANGED throttleVars
  /\ IF service = "uart" THEN TRUE ELSE UNCHANGED uartVars
  /\ IF service = "transfer" THEN TRUE ELSE UNCHANGED transferVars
  /\ IF service = "optical" THEN TRUE ELSE UNCHANGED opticalVars
  /\ IF service = "buzzer" THEN TRUE ELSE UNCHANGED buzzerVars
  /\ IF service = "queue" THEN TRUE ELSE UNCHANGED queueVars
  /\ IF service = "buttons" THEN TRUE ELSE UNCHANGED buttonsVars

MCNext ==
  /\ UNCHANGED service
  /\ OthersRest
  /\ \/ service = "watchdog" /\ WatchdogNext
     \/ service = "heartbeat" /\ HeartbeatNext
     \/ service = "throttle" /\ ThrottleNext
     \/ service = "uart" /\ UartNext
     \/ service = "transfer" /\ TransferNext
     \/ service = "optical" /\ OpticalNext
     \/ service = "buzzer" /\ BuzzerNext
     \/ service = "queue" /\ MCQueueNext
     \/ service = "buttons" /\ ButtonsNext

MCFairness ==
  /\ WF_watchdogVars(service = "watchdog" /\ Beat)
  /\ WF_watchdogVars(service = "watchdog" /\ Interrupt)
  /\ WF_watchdogVars(service = "watchdog" /\ Reset)
  /\ WF_watchdogVars(service = "watchdog" /\ EnterStandby)
  /\ WF_buttonsVars(service = "buttons" /\ EdgeStep)
  /\ WF_buttonsVars(service = "buttons" /\ FastTick)

MCSpec == MCInit /\ [][MCNext]_serviceVars /\ MCFairness

(* Each service's variables keep the types and ranges its module states.   *)
TypesOK ==
  /\ WatchdogTypeOK /\ HeartbeatTypeOK /\ ThrottleTypeOK /\ UartTypeOK /\ TransferTypeOK
  /\ OpticalTypeOK /\ BuzzerTypeOK /\ QueueTypeOK /\ ButtonsTypeOK
=============================================================================
