-------------------------------- MODULE Buzzer --------------------------------
(***************************************************************************)
(* The piezo buzzer: note sequences played by the TC3 interrupt            *)
(* (src/src/watch/buzzer.rs) and the priorities that decide which sound    *)
(* may start (play_note, play_sequence, play_alarm_beeps and play_signal   *)
(* in src/src/movement/mod.rs).                                            *)
(*                                                                         *)
(* A melody is a sequence of pairs of a note and a duration, from play to  *)
(* its zero note; a negative note rewinds.  Rest, like every number from   *)
(* Notes on, is not a note of NOTE_PERIODS.  An odd number of bytes ends   *)
(* in a note without a duration.                                           *)
(***************************************************************************)
EXTENDS Integers, Sequences, SequencesExt

CONSTANTS
  Melodies,        \* what faces ask play_sequence to play
  MaxPairs,        \* MAX_SEQUENCE_BYTES, in pairs
  Notes            \* NOTE_PERIODS.len()

(* The bytes of a sequence are signed.                                     *)
Signed == -128 .. 127

ASSUME BuzzerAssumption ==
  /\ {Notes, MaxPairs} \subseteq Nat
  /\ \A m \in Melodies : m \in Seq([note : Signed, duration : Signed] \cup [note : Signed])

VARIABLES
  melody,          \* SEQUENCE
  position,        \* SEQ_POSITION, in pairs
  toneTicks,       \* TONE_TICKS
  repeatCounter,   \* REPEAT_COUNTER
  playing,         \* CALLBACK_RUNNING
  tone,            \* who drives the piezo: "off", "melody" or the priority of a note
  priority,        \* pending_sequence_priority
  inSafeState,     \* SAFE_STATE
  heard,           \* history: the pairs played since the melody began
  finished         \* history: it ended with its callback

buzzerVars == <<melody, position, toneTicks, repeatCounter, playing, tone, priority,
                inSafeState, heard, finished>>

Button == 0
Signal == 1
Alarm == 2

-----------------------------------------------------------------------------
(* validate_sequence: the length, and what comes before the first zero     *)
(* note.                                                                   *)
ValidPair(pair, index) ==
  \/ pair.note < 0 /\ -pair.note <= index - 1 /\ pair.duration > 0
  \/ pair.note \in 1 .. Notes - 1 /\ pair.duration > 0

EvenLength(m) == \A i \in 1 .. Len(m) : "duration" \in DOMAIN m[i]

ValidSequence(m) ==
  /\ Len(m) <= MaxPairs /\ EvenLength(m)
  /\ \E end \in 1 .. Len(m) :
       /\ m[end].note = 0
       /\ \A i \in 1 .. end - 1 : m[i].note # 0 /\ ValidPair(m[i], i)

BuzzerInit ==
  /\ melody = <<>> /\ position = 0 /\ toneTicks = 0 /\ repeatCounter = -1
  /\ playing = FALSE /\ tone = "off" /\ priority = Button
  /\ inSafeState \in BOOLEAN
  /\ heard = <<>> /\ finished = FALSE

(* movement::play_sequence: refused below an alarm's priority, which       *)
(* nothing lowers.  An invalid sequence silences the piezo and leaves a    *)
(* running one running.                                                    *)
PlaySequence(m) ==
  /\ ~inSafeState /\ priority <= Signal
  /\ priority' = Signal
  /\ tone' = "off"
  /\ IF ValidSequence(m)
       THEN /\ melody' = m /\ position' = 0 /\ toneTicks' = 0 /\ repeatCounter' = -1
            /\ playing' = TRUE
            /\ heard' = <<>> /\ finished' = FALSE
       ELSE UNCHANGED <<melody, position, toneTicks, repeatCounter, playing, heard, finished>>
  /\ UNCHANGED inSafeState

(* play_note's guards.                                                     *)
MayStart(p) == ~inSafeState /\ p >= priority

(* play_note.                                                              *)
PlayNote(p) ==
  /\ MayStart(p)
  /\ priority' = p
  /\ tone' = CASE p = Button -> "button" [] p = Signal -> "signal" [] p = Alarm -> "alarm"
  /\ UNCHANGED <<melody, position, toneTicks, repeatCounter, playing, inSafeState, heard,
                 finished>>

(* play_alarm_beeps: only the priority, and power for the timer.           *)
PlayAlarmBeeps ==
  /\ ~inSafeState
  /\ priority' = Alarm
  /\ UNCHANGED <<melody, position, toneTicks, repeatCounter, playing, tone, inSafeState,
                 heard, finished>>

-----------------------------------------------------------------------------
Abort == playing' = FALSE /\ tone' = "off"

(* Wrong on purpose: one rewind too many.                                  *)
RewindsOnceMore(count) == count >= 0

Rewinds(count) == count > 0

(* The repeat marker: the first time it takes its count, later one less.   *)
(* The rewind, the note as an unsigned number, always goes to the start.   *)
AtMarker == melody[position + 1].note < 0 /\ melody[position + 1].duration # 0
Count == IF repeatCounter = -1 THEN melody[position + 1].duration ELSE repeatCounter - 1
PassMarker ==
  IF AtMarker
    THEN IF Rewinds(Count)
           THEN [position |-> 0, count |-> Count]
           ELSE [position |-> position + 1, count |-> -1]
    ELSE [position |-> position, count |-> repeatCounter]

(* The note at a position: played, or the end, or none at all.             *)
ReadNote(at) ==
  LET pair == melody[at + 1]
  IN \/ /\ at < Len(melody) /\ pair.note # 0 /\ pair.duration # 0
        /\ pair.note \in 1 .. Notes - 1
        /\ tone' = "melody"
        /\ toneTicks' = pair.duration /\ position' = at + 1
        /\ heard' = Append(heard, pair)
        /\ UNCHANGED <<playing, finished>>
     \/ /\ \/ at >= Len(melody)
           \/ pair.note # 0 /\ pair.duration # 0 /\ pair.note \notin 1 .. Notes - 1
        /\ Abort /\ position' = at
        /\ UNCHANGED <<toneTicks, heard, finished>>
     \/ /\ at < Len(melody) /\ (pair.note = 0 \/ pair.duration = 0)
        /\ Abort /\ finished' = TRUE /\ position' = at
        /\ UNCHANGED <<toneTicks, heard>>

(* cb_watch_buzzer_seq, 64 times a second.                                 *)
SequenceCallback ==
  /\ playing
  /\ \/ /\ toneTicks > 0
        /\ toneTicks' = toneTicks - 1
        /\ UNCHANGED <<position, repeatCounter, playing, tone, heard, finished>>
     \/ /\ toneTicks = 0 /\ position >= Len(melody)
        /\ Abort
        /\ UNCHANGED <<position, toneTicks, repeatCounter, heard, finished>>
     \/ /\ toneTicks = 0 /\ position < Len(melody)
        /\ repeatCounter' = PassMarker.count
        /\ ReadNote(PassMarker.position)
  /\ UNCHANGED <<melody, priority, inSafeState>>

(* A reset, perhaps into the safe state (module BootThrottle).             *)
BuzzerReset ==
  /\ melody' = <<>> /\ position' = 0 /\ toneTicks' = 0 /\ repeatCounter' = -1
  /\ playing' = FALSE /\ tone' = "off" /\ priority' = Button
  /\ inSafeState' \in BOOLEAN
  /\ heard' = <<>> /\ finished' = FALSE

BuzzerNext ==
  \/ SequenceCallback \/ PlayAlarmBeeps \/ BuzzerReset
  \/ \E m \in Melodies : PlaySequence(m)
  \/ \E p \in {Button, Signal, Alarm} : PlayNote(p)

BuzzerSpec == BuzzerInit /\ [][BuzzerNext]_buzzerVars

-----------------------------------------------------------------------------
(* The counters keep their ranges, and nothing sounds in the safe state.   *)
BuzzerTypeOK ==
  /\ melody \in Melodies \cup {<<>>}
  /\ position \in 0 .. Len(melody)
  /\ toneTicks \in 0 .. 127 /\ repeatCounter \in -1 .. 127
  /\ priority \in {Button, Signal, Alarm}
  /\ tone \in {"off", "melody", "button", "signal", "alarm"}
  /\ {playing, finished, inSafeState} \subseteq BOOLEAN
  /\ inSafeState => tone = "off"

(* What a melody with at most one repeat marker says: what precedes the    *)
(* marker as often as its duration and once more, then the rest.           *)
End(m) == CHOOSE e \in 1 .. Len(m) : m[e].note = 0 /\ \A i \in 1 .. e - 1 : m[i].note # 0
Markers(m) == {i \in 1 .. End(m) - 1 : m[i].note < 0}
Repeated(part, times) == [i \in 1 .. times * Len(part) |-> part[1 + ((i - 1) % Len(part))]]
Unrolled(m) ==
  LET marker == CHOOSE i \in Markers(m) : TRUE
  IN IF Markers(m) = {} THEN SubSeq(m, 1, End(m) - 1)
     ELSE Repeated(SubSeq(m, 1, marker - 1), m[marker].duration + 1)
          \o SubSeq(m, marker + 1, End(m) - 1)

AsWritten ==
  (\A i, j \in Markers(melody) : i = j) =>
    /\ playing => IsPrefix(heard, Unrolled(melody))
    /\ ~playing => finished /\ heard = Unrolled(melody)

(* A melody is heard as it is written, whatever else is asked of the       *)
(* buzzer meanwhile: in order, each repetition counted, to the end, and    *)
(* never cut off in between; and no button's note sounds over it.          *)
MelodyIsHeard ==
  /\ melody # <<>> => AsWritten
  /\ playing => tone # "button"
=============================================================================
