------------------------------ MODULE WearStorage ------------------------------
(***************************************************************************)
(* The wear-levelled records of src/src/watch/storage.rs and their two     *)
(* users at boot: the firmware signature (src/src/watch/crc.rs) and the    *)
(* settings (src/src/movement/persist.rs, save_settings, app_init).  Each  *)
(* object rotates its writes over rows of its own; a write erases a row,   *)
(* programs a header carrying a generation, then programs the payload.     *)
(* Power may fail, the NVM controller may hang and a program operation may *)
(* fail its read-back at any of these steps.                               *)
(*                                                                         *)
(* A row is [head, gen, data]: head is the object whose complete header    *)
(* the row carries, "legacy" for the unnamespaced format, "blank", or      *)
(* "torn" for a header whose complements do not match.  The data of a row  *)
(* is the payload after the header, None when its magic is missing.        *)
(*                                                                         *)
(* `committed`, `unfinished` and `legacyAt` are history variables.         *)
(***************************************************************************)
EXTENDS Integers, FiniteSets

CONSTANTS
  Crc, Settings,   \* CRC_NAMESPACE and SETTINGS_NAMESPACE
  ObjectRows,      \* NAMESPACE_ROWS: rows per object
  Generations,     \* the generation counter is modulo this (2^32)
  Signature,       \* firmware_crc() of the installed image
  Garbage,         \* any other word in the place of a signature
  LegacyRows,      \* rows in which an old firmware may have left the settings
  None,
  MaxCrashes       \* bound: power failures, hangs and failed read-backs

ASSUME WearStorageAssumption ==
  /\ Crc # Settings
  /\ ObjectRows \in Nat \ {0, 1}
  /\ Generations \in Nat /\ Generations % 2 = 0 /\ Generations > 2 * ObjectRows
  /\ Signature # Garbage
  /\ LegacyRows \subseteq 0 .. 2 * ObjectRows - 1
  /\ {Crc, Settings} \cap {"blank", "torn", "legacy", None} = {}
  /\ None \notin {Signature, Garbage} /\ None \notin [reg : 0 .. 1, uart : BOOLEAN]
  /\ None \notin 0 .. 2 * ObjectRows - 1
  /\ MaxCrashes \in Nat

Object == {Crc, Settings}

(* The settings register, cut down to its lowest bit, and the UART consent *)
(* saved next to it.                                                       *)
SettingsValue == [reg : 0 .. 1, uart : BOOLEAN]

Default == [reg |-> 0, uart |-> FALSE]

Payload(o) == IF o = Crc THEN {Signature, Garbage} ELSE SettingsValue

Step == {"check", "load", "awake", "erase", "header", "payload"}

VARIABLES
  rows,         \* the RWW EEPROM area
  hung,         \* the NVM controller never becomes ready again in this boot
  pc,
  settings,     \* MOVEMENT_STATE.settings
  saved,        \* MOVEMENT_STATE.last_saved_settings_reg
  corrupt,      \* Fault::CorruptImage was recorded in this boot
  job,          \* the write under way: [of, value, row, gen]
  failed,       \* the last save of the settings of this boot failed
  committed,    \* history: per object, the payload last written completely
  unfinished,   \* history: rows with a header whose payload was not completed
  crashes,
  legacyAt      \* history: the row in which the old firmware left the settings

vars == <<rows, hung, pc, settings, saved, corrupt, job, failed, committed,
          unfinished, crashes, legacyAt>>

-----------------------------------------------------------------------------
(* The rows of an object: namespace_rows.                                  *)
First(o) == IF o = Crc THEN 0 ELSE ObjectRows

RowsOf(o) == First(o) .. First(o) + ObjectRows - 1

Row == 0 .. 2 * ObjectRows - 1

(* Wrong on purpose: the rotation runs out of the object's rows.           *)
NextRowOutside(o, r) == First(o) + (r - First(o) + 1)

NextRow(o, r) == First(o) + ((r - First(o) + 1) % ObjectRows)

NextGeneration(g) == (g + 1) % Generations

(* Wrong on purpose: generations compared as plain numbers.                *)
IsNewerUnwrapped(candidate, current) == candidate > current

(* generation_is_newer: comparison in serial-number space.                 *)
IsNewer(candidate, current) ==
  /\ candidate # current
  /\ (candidate - current) % Generations < Generations \div 2

(* find_last_entry(Some(o)): the newest row with a complete header of o.   *)
(* The scan keeps the newer of two rows, and generations lie within half a *)
(* cycle of each other, so it ends with the row newer than all the others. *)
Newest(o) ==
  LET valid == {r \in RowsOf(o) : rows[r].head = o}
  IN IF valid = {} THEN None
     ELSE CHOOSE r \in valid :
            \A q \in valid \ {r} : IsNewer(rows[r].gen, rows[q].gen)

(* find_last_entry(None): the one record of the unnamespaced format.       *)
LegacyRow ==
  IF \E r \in Row : rows[r].head = "legacy"
    THEN CHOOSE r \in Row : rows[r].head = "legacy"
    ELSE None

(* wear_leveled_read_namespaced followed by the caller's check of the      *)
(* payload magic: a row of the object's own hides the legacy record even   *)
(* when it holds no payload.  The only legacy record is the settings'.     *)
Stored(o) ==
  IF Newest(o) # None THEN rows[Newest(o)].data
  ELSE IF o = Settings /\ LegacyRow # None THEN rows[LegacyRow].data
  ELSE None

(* A hung controller fails every read, and so hides every record.          *)
Read(o) == IF hung THEN None ELSE Stored(o)

(* save_settings compares the register exclusive-or the UART consent.      *)
Key(s) == (s.reg + IF s.uart THEN 1 ELSE 0) % 2

Erased == [head |-> "blank", gen |-> 0, data |-> None]
Torn == [head |-> "torn", gen |-> 0, data |-> None]
Headed(o, g) == [head |-> o, gen |-> g, data |-> None]

NoJob == [of |-> None]

Init ==
  /\ \E legacy \in LegacyRows \cup {None}, v \in SettingsValue :
       /\ rows = [r \in Row |-> IF r = legacy
                                  THEN [head |-> "legacy", gen |-> 1, data |-> v]
                                  ELSE Erased]
       /\ legacyAt = legacy
       /\ committed = [o \in Object |-> IF o = Settings /\ legacy # None
                                          THEN v ELSE None]
  /\ hung = FALSE
  /\ pc = "check"
  /\ settings = Default
  /\ saved = Key(Default)
  /\ corrupt = FALSE
  /\ job = NoJob
  /\ failed = FALSE
  /\ unfinished = {}
  /\ crashes = 0

-----------------------------------------------------------------------------
(* Wrong on purpose: the rotation is forgotten, every record goes into the *)
(* first row.                                                              *)
BeginWriteAtFirst(o, v) ==
  LET previous == IF hung THEN None ELSE Newest(o)
  IN /\ job' = [of |-> o, value |-> v, row |-> First(o),
                gen |-> IF previous = None THEN 1
                        ELSE NextGeneration(rows[previous].gen)]
     /\ pc' = "erase"

(* wear_leveled_write_namespaced up to the erase: the record goes into the *)
(* row after the newest one, one generation on.                            *)
BeginWrite(o, v) ==
  LET previous == IF hung THEN None ELSE Newest(o)
  IN /\ job' = IF previous = None
                 THEN [of |-> o, value |-> v, row |-> First(o), gen |-> 1]
                 ELSE [of |-> o, value |-> v, row |-> NextRow(o, previous),
                       gen |-> NextGeneration(rows[previous].gen)]
     /\ pc' = "erase"

(* Where the caller of a write continues; both callers ignore its result.  *)
Resume == IF job.of = Crc THEN "load" ELSE "awake"

(* Wrong on purpose: a missing signature counts as a corrupt image.        *)
CheckImageStrictly ==
  /\ pc = "check"
  /\ IF Read(Crc) = None
       THEN BeginWrite(Crc, Signature)
       ELSE pc' = "load" /\ UNCHANGED job
  /\ corrupt' = (Read(Crc) # Signature)
  /\ UNCHANGED <<rows, hung, settings, saved, failed, committed, unfinished, crashes, legacyAt>>

(* check_firmware_integrity: with no signature the current one is stored,  *)
(* another signature is a corrupt image.                                   *)
CheckImage ==
  /\ pc = "check"
  /\ IF Read(Crc) = None
       THEN BeginWrite(Crc, Signature)
       ELSE pc' = "load" /\ UNCHANGED job
  /\ corrupt' = (Read(Crc) \notin {None, Signature})
  /\ UNCHANGED <<rows, hung, settings, saved, failed, committed, unfinished, crashes, legacyAt>>

(* Wrong on purpose: what was loaded is not remembered as saved.           *)
LoadSettingsUnremembered ==
  /\ pc = "load"
  /\ settings' = IF Read(Settings) = None THEN Default ELSE Read(Settings)
  /\ pc' = "awake"
  /\ UNCHANGED <<rows, hung, saved, corrupt, job, failed, committed, unfinished, crashes, legacyAt>>

(* app_init: load, or the defaults; what was loaded counts as saved.       *)
LoadSettings ==
  /\ pc = "load"
  /\ settings' = IF Read(Settings) = None THEN Default ELSE Read(Settings)
  /\ saved' = Key(settings')
  /\ pc' = "awake"
  /\ UNCHANGED <<rows, hung, corrupt, job, failed, committed, unfinished, crashes, legacyAt>>

(* A wake changes the settings as its handler likes and ends in            *)
(* save_settings, which records the new key before it tries to save.       *)
Wake ==
  /\ pc = "awake"
  /\ \E s \in SettingsValue :
       /\ s # settings
       /\ settings' = s
       /\ saved' = Key(s)
       /\ IF Key(s) # saved THEN BeginWrite(Settings, s) ELSE UNCHANGED <<pc, job>>
  /\ UNCHANGED <<rows, hung, corrupt, failed, committed, unfinished, crashes, legacyAt>>

(* The three NVM operations of a write, each complete.                     *)
EraseRow ==
  /\ pc = "erase" /\ ~hung
  /\ rows' = [rows EXCEPT ![job.row] = Erased]
  /\ unfinished' = unfinished \ {job.row}
  /\ pc' = "header"
  /\ UNCHANGED <<hung, settings, saved, corrupt, job, failed, committed, crashes, legacyAt>>

WriteHeader ==
  /\ pc = "header"
  /\ rows' = [rows EXCEPT ![job.row] = Headed(job.of, job.gen)]
  /\ unfinished' = unfinished \cup {job.row}
  /\ pc' = "payload"
  /\ UNCHANGED <<hung, settings, saved, corrupt, job, failed, committed, crashes, legacyAt>>

WritePayload ==
  /\ pc = "payload"
  /\ rows' = [rows EXCEPT ![job.row].data = job.value]
  /\ unfinished' = unfinished \ {job.row}
  /\ committed' = [committed EXCEPT ![job.of] = job.value]
  /\ failed' = (failed /\ job.of # Settings)
  /\ pc' = Resume
  /\ job' = NoJob
  /\ UNCHANGED <<hung, settings, saved, corrupt, crashes, legacyAt>>

(* A hung controller fails the first sync() of the erase.                  *)
EraseRefused ==
  /\ pc = "erase" /\ hung
  /\ failed' = (failed \/ job.of = Settings)
  /\ pc' = Resume
  /\ job' = NoJob
  /\ UNCHANGED <<rows, hung, settings, saved, corrupt, committed, unfinished, crashes, legacyAt>>

-----------------------------------------------------------------------------
(* What an operation cut short can leave in its row.                       *)
Partial ==
  CASE pc = "erase" -> {rows[job.row], Erased, Torn}
    [] pc = "header" -> {Erased, Torn, Headed(job.of, job.gen)}
    [] pc = "payload" -> {[rows[job.row] EXCEPT !.data = d] :
                            d \in Payload(job.of) \cup {None}}

CutShort ==
  /\ crashes < MaxCrashes
  /\ crashes' = crashes + 1
  /\ pc \in {"erase", "header", "payload"} /\ ~hung
  /\ \E left \in Partial :
       /\ rows' = [rows EXCEPT ![job.row] = left]
       /\ unfinished' = IF left = rows[job.row] THEN unfinished
                        ELSE IF left.head = job.of THEN unfinished \cup {job.row}
                        ELSE unfinished \ {job.row}
  /\ job' = NoJob
  /\ UNCHANGED <<committed, legacyAt>>

(* The operation times out (the controller then hangs until the reset) or, *)
(* a program operation only, fails its read-back; the write is abandoned.  *)
OperationFails ==
  /\ CutShort
  /\ hung' \in {TRUE} \cup (IF pc = "erase" THEN {} ELSE {FALSE})
  /\ failed' = (failed \/ job.of = Settings)
  /\ pc' = Resume
  /\ UNCHANGED <<settings, saved, corrupt>>

(* RAM is lost; the rows are all that remains.                             *)
Reboot ==
  /\ pc' = "check"
  /\ hung' = FALSE
  /\ settings' = Default
  /\ saved' = Key(Default)
  /\ corrupt' = FALSE
  /\ failed' = FALSE

PowerFailsInWrite == CutShort /\ Reboot

ResetBetweenWrites ==
  /\ pc \in {"load", "awake"}
  /\ Reboot
  /\ UNCHANGED <<rows, job, committed, unfinished, crashes, legacyAt>>

ControllerHangs ==
  /\ crashes < MaxCrashes
  /\ crashes' = crashes + 1
  /\ pc \in {"check", "load", "awake"} /\ ~hung
  /\ hung' = TRUE
  /\ UNCHANGED <<rows, pc, settings, saved, corrupt, job, failed,
                 committed, unfinished, legacyAt>>

Next ==
  \/ CheckImage \/ LoadSettings \/ Wake
  \/ EraseRow \/ WriteHeader \/ WritePayload \/ EraseRefused
  \/ OperationFails \/ PowerFailsInWrite \/ ResetBetweenWrites \/ ControllerHangs

Spec == Init /\ [][Next]_vars

-----------------------------------------------------------------------------
RowType ==
  [head : Object \cup {"blank", "torn", "legacy"}, gen : 0 .. Generations - 1,
   data : Payload(Crc) \cup Payload(Settings) \cup {None}]

JobType ==
  {NoJob} \cup [of : Object, value : Payload(Crc) \cup Payload(Settings),
                row : Row, gen : 0 .. Generations - 1]

(* Every row holds what one of the writers can have left in it, and a      *)
(* write never leaves the row area.                                        *)
TypeOK ==
  /\ rows \in [Row -> RowType]
  /\ hung \in BOOLEAN /\ corrupt \in BOOLEAN /\ failed \in BOOLEAN
  /\ pc \in Step
  /\ settings \in SettingsValue
  /\ saved \in 0 .. 1
  /\ job \in JobType
  /\ \A o \in Object : committed[o] \in Payload(o) \cup {None}
  /\ unfinished \subseteq Row
  /\ crashes \in 0 .. MaxCrashes
  /\ legacyAt \in Row \cup {None}

(* The records of an object are numbered along its rotation: a row `d`     *)
(* places behind the newest is either unreadable or `d` generations older, *)
(* across the wrap of the counter too.  The scan of find_last_entry relies *)
(* on it.                                                                  *)
GenerationsFollowRotation ==
  \A o \in Object : Newest(o) # None =>
    \A r \in RowsOf(o) : rows[r].head = o =>
      rows[r].gen = (rows[Newest(o)].gen - ((Newest(o) - r) % ObjectRows)) % Generations

(* The settings of an old firmware are gone although no record of the new  *)
(* format replaces them: they lay where a first write begins, or among the *)
(* rows of the signature, and that write erased them.                      *)
LegacyErased ==
  /\ legacyAt \in RowsOf(Crc) \cup {First(Settings)}
  /\ rows[legacyAt].head # "legacy"
  /\ Newest(Settings) = None

(* Unless the newest record of an object is one whose payload was cut      *)
(* short, a read returns exactly the payload of the last write that        *)
(* completed: never an older one, never another object's, never nothing.   *)
(* A record left by an old firmware, which wear_leveled_read_namespaced    *)
(* accepts, is lost only in the way LegacyErased says.                     *)
ReadsLastCommitted ==
  \A o \in Object :
    \/ Newest(o) \in unfinished
    \/ Stored(o) = committed[o]
    \/ o = Settings /\ LegacyErased /\ Stored(o) = None

(* "A malformed request must never destroy the previously committed entry" *)
(* and no other step does either: the newest record, once complete, is     *)
(* left alone until a newer header is in place (valid_wear_entry's call).  *)
NewestIsKept ==
  [][\A o \in Object :
       Newest(o) # None /\ Newest(o) \notin unfinished =>
         rows'[Newest(o)] = rows[Newest(o)]]_vars

(* save_settings: between wakes the record that the next boot will find    *)
(* agrees with the settings in RAM as far as save_settings can tell them   *)
(* apart, unless a write of this boot failed.                              *)
SavedUpToKey ==
  pc = "awake" /\ ~hung /\ ~failed =>
    Key(settings) = Key(IF Stored(Settings) = None THEN Default ELSE Stored(Settings))

(* The image never rots here, so a boot that records CorruptImage has read *)
(* a signature whose own write was cut short.                              *)
CorruptOnlyIfCutShort ==
  corrupt => Newest(Crc) \in unfinished

(* "Reset mid-write: Wear-leveled read finds the last valid entry"         *)
(* (docs/TESTING.md): a boot finds the settings of the last completed      *)
(* write, or those of the write that was cut short.                        *)
CrashFindsLastEntry ==
  pc = "load" /\ committed[Settings] # None => Stored(Settings) # None
=============================================================================
