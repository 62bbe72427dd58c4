--------------------------- MODULE WearStorageProofs ---------------------------
(***************************************************************************)
(* Proofs about the wear-levelled storage for every number of rows, every  *)
(* width of the generation counter and any number of crashes: the types,   *)
(* the rotation of the generations, that the newest record is kept and is  *)
(* what a read returns, and what the settings and the image check owe to   *)
(* that.                                                                   *)
(***************************************************************************)
EXTENDS WearStorage, TLAPS

(* What the proofs use of the constants.                                   *)
LEMMA Constants ==
  /\ ObjectRows \in Nat /\ ObjectRows > 1
  /\ Generations \in Nat /\ Generations > 2 * ObjectRows
  /\ Generations \div 2 \in Nat /\ 2 * (Generations \div 2) = Generations
  /\ Crc # Settings
  /\ \A o \in Object : o \notin {"blank", "torn", "legacy", None}
  /\ None \notin Row /\ None \notin SettingsValue /\ None \notin {Signature, Garbage}
<1> USE WearStorageAssumption DEF WearStorageAssumption
<1>1. /\ ObjectRows \in Nat /\ ObjectRows > 1
      /\ Generations \in Nat /\ Generations > 2 * ObjectRows /\ Generations % 2 = 0
  OBVIOUS
<1>2. \A n \in Nat : n % 2 = 0 => n \div 2 \in Nat /\ 2 * (n \div 2) = n
  OBVIOUS
<1>3. \A o \in Object : o \notin {"blank", "torn", "legacy", None}
  BY Zenon DEF Object
<1>4. None \notin Row /\ None \notin SettingsValue /\ None \notin {Signature, Garbage}
  BY Zenon DEF Row, SettingsValue
<1>5. QED
  BY <1>1, <1>2, <1>3, <1>4

(* A number at most a cycle outside of 0 .. n - 1 is brought back by one.  *)
LEMMA Residue ==
  ASSUME NEW n \in Nat \ {0}, NEW a \in Int, -n <= a, a < n + n
  PROVE  a % n = IF a < 0 THEN a + n ELSE IF a < n THEN a ELSE a - n
<1>1. CASE a < 0
  <2>1. a % n = a + n
    BY <1>1
  <2>2. QED
    BY <1>1, <2>1
<1>2. CASE a >= 0 /\ a < n
  <2>1. a % n = a
    BY <1>2
  <2>2. QED
    BY <1>2, <2>1
<1>3. CASE a >= n
  <2>1. a % n = a - n
    BY <1>3
  <2>2. QED
    BY <1>3, <2>1
<1>4. QED
  BY <1>1, <1>2, <1>3

(* The rows of the two objects.                                            *)
LEMMA RowsAre ==
  /\ \A o \in Object : First(o) \in RowsOf(o) /\ RowsOf(o) \subseteq Row /\ First(o) \in Nat
  /\ \A r \in RowsOf(Crc) : r \notin RowsOf(Settings)
  BY Constants DEF Object, First, RowsOf, Row

(* How far row q lies behind row r along the rotation.                     *)
LEMMA BehindValue ==
  ASSUME NEW o \in Object, NEW r \in RowsOf(o), NEW q \in RowsOf(o)
  PROVE  /\ (r - q) % ObjectRows = IF q <= r THEN r - q ELSE r - q + ObjectRows
         /\ (r - q) % ObjectRows \in 0 .. ObjectRows - 1
         /\ (r - q) % ObjectRows = 0 <=> r = q
<1>1. /\ First(o) \in Nat /\ r \in Int /\ q \in Int
      /\ First(o) <= r /\ r < First(o) + ObjectRows
      /\ First(o) <= q /\ q < First(o) + ObjectRows
  BY RowsAre, Constants DEF RowsOf
<1>2. /\ r - q \in Int /\ -ObjectRows <= r - q /\ r - q < ObjectRows + ObjectRows
      /\ ObjectRows \in Nat \ {0}
  BY <1>1, Constants
<1>3. (r - q) % ObjectRows = IF r - q < 0 THEN r - q + ObjectRows
                             ELSE IF r - q < ObjectRows THEN r - q
                             ELSE r - q - ObjectRows
  BY <1>2, Residue
<1>4. QED
  BY <1>1, <1>3, Constants

(* The next row is a row of the object, another one, and every other row   *)
(* lies one further behind it.                                             *)
LEMMA NextRowValue ==
  ASSUME NEW o \in Object, NEW r \in RowsOf(o)
  PROVE  /\ NextRow(o, r) \in RowsOf(o) /\ NextRow(o, r) # r
         /\ \A q \in RowsOf(o) \ {NextRow(o, r)} :
              (NextRow(o, r) - q) % ObjectRows = ((r - q) % ObjectRows) + 1
<1>1. /\ First(o) \in Nat /\ r \in Int /\ First(o) <= r /\ r < First(o) + ObjectRows
  BY RowsAre, Constants DEF RowsOf
<1>2. NextRow(o, r) = IF r = First(o) + ObjectRows - 1 THEN First(o) ELSE r + 1
  <2>1. CASE r = First(o) + ObjectRows - 1
    <3>1. r - First(o) + 1 = ObjectRows
      BY <2>1, <1>1, Constants
    <3>2. ObjectRows % ObjectRows = 0
      BY Constants
    <3>3. QED
      BY <3>1, <3>2, <2>1, <1>1, Constants DEF NextRow
  <2>2. CASE r # First(o) + ObjectRows - 1
    <3>1. r - First(o) + 1 \in 1 .. ObjectRows - 1
      BY <2>2, <1>1, Constants
    <3>2. (r - First(o) + 1) % ObjectRows = r - First(o) + 1
      BY <3>1, Constants
    <3>3. QED
      BY <3>2, <2>2, <1>1, Constants DEF NextRow
  <2>3. QED
    BY <2>1, <2>2
<1>3. NextRow(o, r) \in RowsOf(o) /\ NextRow(o, r) # r
  BY <1>1, <1>2, Constants DEF RowsOf
<1>4. ASSUME NEW q \in RowsOf(o) \ {NextRow(o, r)}
      PROVE  (NextRow(o, r) - q) % ObjectRows = ((r - q) % ObjectRows) + 1
  <2>1. q \in Int /\ First(o) <= q /\ q < First(o) + ObjectRows
    BY <1>1, Constants DEF RowsOf
  <2>2. (r - q) % ObjectRows = IF q <= r THEN r - q ELSE r - q + ObjectRows
    BY BehindValue
  <2>3. (NextRow(o, r) - q) % ObjectRows =
          IF q <= NextRow(o, r) THEN NextRow(o, r) - q ELSE NextRow(o, r) - q + ObjectRows
    BY <1>3, BehindValue
  <2>4. QED
    BY <1>1, <1>2, <2>1, <2>2, <2>3, Constants
<1>5. QED
  BY <1>3, <1>4

(* Going back from a generation, and from the next one a step more.        *)
LEMMA OlderValue ==
  ASSUME NEW g \in 0 .. Generations - 1, NEW k \in 0 .. ObjectRows
  PROVE  /\ (g - k) % Generations = IF k <= g THEN g - k ELSE g - k + Generations
         /\ (g - k) % Generations \in 0 .. Generations - 1
<1>1. /\ g - k \in Int /\ -Generations <= g - k /\ g - k < Generations + Generations
      /\ Generations \in Nat \ {0}
  BY Constants
<1>2. (g - k) % Generations = IF g - k < 0 THEN g - k + Generations
                              ELSE IF g - k < Generations THEN g - k
                              ELSE g - k - Generations
  BY <1>1, Residue
<1>3. QED
  BY <1>2, Constants

LEMMA NextGenerationValue ==
  ASSUME NEW g \in 0 .. Generations - 1
  PROVE  /\ NextGeneration(g) = IF g = Generations - 1 THEN 0 ELSE g + 1
         /\ NextGeneration(g) \in 0 .. Generations - 1
<1>1. CASE g = Generations - 1
  <2>1. (g + 1) % Generations = 0
    BY <1>1, Constants
  <2>2. QED
    BY <1>1, <2>1, Constants DEF NextGeneration
<1>2. CASE g # Generations - 1
  <2>1. (g + 1) % Generations = g + 1
    BY <1>2, Constants
  <2>2. QED
    BY <1>2, <2>1, Constants DEF NextGeneration
<1>3. QED
  BY <1>1, <1>2

LEMMA OlderThanNext ==
  ASSUME NEW g \in 0 .. Generations - 1, NEW k \in 0 .. ObjectRows - 1
  PROVE  (NextGeneration(g) - (k + 1)) % Generations = (g - k) % Generations
<1>1. (NextGeneration(g) - (k + 1)) % Generations =
        IF k + 1 <= NextGeneration(g) THEN NextGeneration(g) - (k + 1)
        ELSE NextGeneration(g) - (k + 1) + Generations
  <2>1. NextGeneration(g) \in 0 .. Generations - 1 /\ k + 1 \in 0 .. ObjectRows
    BY NextGenerationValue, Constants
  <2>2. QED
    BY <2>1, OlderValue
<1>2. (g - k) % Generations = IF k <= g THEN g - k ELSE g - k + Generations
  BY OlderValue, Constants
<1>3. QED
  BY <1>1, <1>2, NextGenerationValue, Constants

(* The serial-number comparison tells a generation from the few before it. *)
LEMMA NewerThanOlder ==
  ASSUME NEW g \in 0 .. Generations - 1, NEW k \in 1 .. ObjectRows - 1
  PROVE  /\ IsNewer(g, (g - k) % Generations)
         /\ ~IsNewer((g - k) % Generations, g)
<1> DEFINE h == (g - k) % Generations
<1>1. h = IF k <= g THEN g - k ELSE g - k + Generations
  BY OlderValue, Constants
<1>2. h \in 0 .. Generations - 1 /\ h # g
  BY <1>1, Constants
<1>3. ASSUME NEW a \in -Generations .. Generations - 1
      PROVE  a % Generations = IF a < 0 THEN a + Generations ELSE a
  <2>1. CASE a < 0
    <3>1. a % Generations = a + Generations
      BY <2>1, Constants
    <3>2. QED
      BY <2>1, <3>1
  <2>2. CASE ~(a < 0)
    <3>1. a % Generations = a
      BY <2>2, Constants
    <3>2. QED
      BY <2>2, <3>1
  <2>3. QED
    BY <2>1, <2>2
<1>4. (g - h) % Generations = k /\ (h - g) % Generations = Generations - k
  <2>1. g - h \in -Generations .. Generations - 1 /\ h - g \in -Generations .. Generations - 1
    BY <1>2, Constants
  <2>2. /\ (g - h) % Generations = IF g - h < 0 THEN g - h + Generations ELSE g - h
        /\ (h - g) % Generations = IF h - g < 0 THEN h - g + Generations ELSE h - g
    BY <2>1, <1>3
  <2>3. QED
    BY <2>2, <1>1, Constants
<1>5. QED
  BY <1>2, <1>4, Constants DEF IsNewer

-----------------------------------------------------------------------------
(* Newest, of any rows.                                                    *)
NewestOf(rs, o) ==
  LET valid == {r \in RowsOf(o) : rs[r].head = o}
  IN IF valid = {} THEN None
     ELSE CHOOSE r \in valid :
            \A q \in valid \ {r} : IsNewer(rs[r].gen, rs[q].gen)

(* Row r carries the newest record of an object, the others the records    *)
(* that were written before it, one generation for every row back.         *)
Leads(rs, o, r) ==
  /\ r \in RowsOf(o) /\ rs[r].head = o
  /\ \A q \in RowsOf(o) : rs[q].head = o =>
       rs[q].gen = (rs[r].gen - ((r - q) % ObjectRows)) % Generations

Vacant(rs, o) == \A q \in RowsOf(o) : rs[q].head # o

Rotated(rs, o) == Vacant(rs, o) \/ \E r \in RowsOf(o) : Leads(rs, o, r)

(* The types, and what each kind of row may hold.                          *)
Types ==
  /\ rows \in [Row -> RowType]
  /\ hung \in BOOLEAN /\ corrupt \in BOOLEAN /\ failed \in BOOLEAN
  /\ settings \in SettingsValue /\ saved \in 0 .. 1
  /\ committed \in [Object -> Payload(Crc) \cup Payload(Settings) \cup {None}]
  /\ committed[Crc] \in {Signature, None} /\ committed[Settings] \in SettingsValue \cup {None}
  /\ unfinished \subseteq Row /\ crashes \in 0 .. MaxCrashes
  /\ legacyAt \in Row \cup {None}

RowsAreOwn ==
  /\ \A o \in Object : \A r \in RowsOf(o) :
       rows[r].head = o => rows[r].data \in Payload(o) \cup {None}
  /\ \A r \in Row :
       rows[r].head = "legacy" => r = legacyAt /\ rows[r].data \in SettingsValue

Rotation == \A o \in Object : Rotated(rows, o)

Writing == {"erase", "header", "payload"}

(* The write under way: who asked for it, and for what.                    *)
JobIsAsked ==
  /\ pc \in Writing \cup {"check", "load", "awake"}
  /\ pc \notin Writing => job = NoJob
  /\ pc \in Writing =>
       /\ job \in [of : Object, value : Payload(Crc) \cup Payload(Settings), row : Row,
                    gen : 0 .. Generations - 1]
       /\ job.row \in RowsOf(job.of)
       /\ job.of = Crc => job.value = Signature /\ ~corrupt
       /\ job.of = Settings => job.value = settings

(* Where it writes: the row after the newest record; then that row is      *)
(* erased; then it holds the newest record.                                *)
JobIsNext ==
  /\ pc \in {"header", "payload"} => ~hung
  /\ \A o \in Object : job.of = o =>
       /\ pc \in {"erase", "header"} /\ ~hung =>
            IF Newest(o) = None THEN job.row = First(o) /\ job.gen = 1
            ELSE /\ job.row = NextRow(o, Newest(o))
                 /\ job.gen = NextGeneration(rows[Newest(o)].gen)
       /\ pc = "payload" => Newest(o) = job.row
  /\ pc = "header" => rows[job.row] = Erased
  /\ pc = "payload" => rows[job.row] = Headed(job.of, job.gen) /\ job.row \in unfinished

(* What was committed is in the newest record or, before there is one, in  *)
(* the legacy record, if that has not been erased.                         *)
CommittedIsKept ==
  /\ \A o \in Object :
       Newest(o) # None /\ Newest(o) \notin unfinished =>
         rows[Newest(o)].data = committed[o]
  /\ Newest(Crc) = None => committed[Crc] = None

LegacyIsKept ==
  Newest(Settings) = None =>
    \/ legacyAt = None /\ committed[Settings] = None
    \/ /\ legacyAt # None /\ rows[legacyAt].head = "legacy"
       /\ rows[legacyAt].data = committed[Settings]
    \/ /\ legacyAt # None /\ rows[legacyAt].head # "legacy"
       /\ legacyAt \in RowsOf(Crc) \cup {First(Settings)}

(* What the saved key stands for.                                          *)
SavedIsKey ==
  pc = "awake" \/ (pc \in Writing /\ job.of = Settings) => saved = Key(settings)

IInv ==
  /\ Types /\ RowsAreOwn /\ Rotation
  /\ JobIsAsked /\ JobIsNext
  /\ CommittedIsKept /\ LegacyIsKept
  /\ SavedIsKey /\ SavedUpToKey /\ CorruptOnlyIfCutShort

-----------------------------------------------------------------------------
LEMMA NewestIsNewestOf ==
  \A o \in Object : Newest(o) = NewestOf(rows, o) /\ Newest(o)' = NewestOf(rows', o)
  BY Zenon DEF Newest, NewestOf

(* The rows of an object hold generations.                                 *)
Numbered(rs, o) == \A q \in RowsOf(o) : rs[q].gen \in 0 .. Generations - 1

(* The row that leads is the one find_last_entry ends with.                *)
LEMMA LeaderIsNewest ==
  ASSUME NEW rs, NEW o \in Object, Numbered(rs, o), NEW r, Leads(rs, o, r)
  PROVE  NewestOf(rs, o) = r
<1> DEFINE valid == {q \in RowsOf(o) : rs[q].head = o}
<1>1. r \in valid
  BY DEF Leads
<1>2. ASSUME NEW q \in valid \ {r}
      PROVE  IsNewer(rs[r].gen, rs[q].gen) /\ ~IsNewer(rs[q].gen, rs[r].gen)
  <2>1. q \in RowsOf(o) /\ r \in RowsOf(o) /\ q # r
    BY <1>1
  <2>2. (r - q) % ObjectRows \in 1 .. ObjectRows - 1
    <3>1. (r - q) % ObjectRows \in 0 .. ObjectRows - 1 /\ (r - q) % ObjectRows # 0
      BY <2>1, BehindValue
    <3>2. QED
      BY <3>1, Constants
  <2>3. rs[q].gen = (rs[r].gen - ((r - q) % ObjectRows)) % Generations
    BY DEF Leads
  <2>4. rs[r].gen \in 0 .. Generations - 1
    BY <2>1 DEF Numbered
  <2>5. QED
    BY <2>2, <2>3, <2>4, NewerThanOlder
<1>3. \A c \in valid : (\A q \in valid \ {c} : IsNewer(rs[c].gen, rs[q].gen)) <=> c = r
  BY <1>1, <1>2
<1>4. NewestOf(rs, o) = CHOOSE c \in valid :
                          \A q \in valid \ {c} : IsNewer(rs[c].gen, rs[q].gen)
  BY <1>1 DEF NewestOf
<1>5. QED
  BY <1>1, <1>3, <1>4

LEMMA NewestValue ==
  ASSUME NEW rs, NEW o \in Object, Numbered(rs, o), Rotated(rs, o)
  PROVE  \/ Vacant(rs, o) /\ NewestOf(rs, o) = None
         \/ /\ Leads(rs, o, NewestOf(rs, o))
            /\ NewestOf(rs, o) \in RowsOf(o) /\ NewestOf(rs, o) # None
<1>1. CASE Vacant(rs, o)
  BY <1>1 DEF Vacant, NewestOf
<1>2. ASSUME NEW r \in RowsOf(o), Leads(rs, o, r)
      PROVE  /\ Leads(rs, o, NewestOf(rs, o))
             /\ NewestOf(rs, o) \in RowsOf(o) /\ NewestOf(rs, o) # None
  <2>1. NewestOf(rs, o) = r
    BY <1>2, LeaderIsNewest
  <2>2. r # None
    BY RowsAre, Constants
  <2>3. QED
    BY <1>2, <2>1, <2>2
<1>3. QED
  BY <1>1, <1>2 DEF Rotated

(* Rows of an object may lose their headers, but not the newest one; then  *)
(* it stays the newest.                                                    *)
LEMMA NewestStays ==
  ASSUME NEW rs, NEW rs2, NEW o \in Object,
         Numbered(rs, o), Numbered(rs2, o), Rotated(rs, o),
         \A q \in RowsOf(o) : rs2[q].head = o => rs[q].head = o /\ rs2[q].gen = rs[q].gen,
         NewestOf(rs, o) # None =>
           /\ rs2[NewestOf(rs, o)].head = o
           /\ rs2[NewestOf(rs, o)].gen = rs[NewestOf(rs, o)].gen
  PROVE  Rotated(rs2, o) /\ NewestOf(rs2, o) = NewestOf(rs, o)
<1>1. CASE Vacant(rs, o) /\ NewestOf(rs, o) = None
  <2>1. Vacant(rs2, o)
    BY <1>1 DEF Vacant
  <2>2. NewestOf(rs2, o) = None
    BY <2>1 DEF Vacant, NewestOf
  <2>3. QED
    BY <1>1, <2>1, <2>2 DEF Rotated
<1>2. CASE /\ Leads(rs, o, NewestOf(rs, o))
           /\ NewestOf(rs, o) \in RowsOf(o) /\ NewestOf(rs, o) # None
  <2>1. Leads(rs2, o, NewestOf(rs, o))
    BY <1>2 DEF Leads
  <2>2. QED
    BY <1>2, <2>1, LeaderIsNewest DEF Rotated
<1>3. QED
  BY <1>1, <1>2, NewestValue

(* A header one generation on, in the row after the newest record, becomes *)
(* the newest record; so does the first one in a vacant area.              *)
LEMMA HeaderLeads ==
  ASSUME NEW rs, NEW rs2, NEW o \in Object, NEW row \in RowsOf(o), NEW gen,
         Numbered(rs, o), Numbered(rs2, o), Rotated(rs, o),
         IF NewestOf(rs, o) = None THEN gen = 1
         ELSE /\ row = NextRow(o, NewestOf(rs, o))
              /\ gen = NextGeneration(rs[NewestOf(rs, o)].gen),
         rs2[row].head = o /\ rs2[row].gen = gen,
         \A q \in RowsOf(o) \ {row} : rs2[q].head = rs[q].head /\ rs2[q].gen = rs[q].gen
  PROVE  Rotated(rs2, o) /\ NewestOf(rs2, o) = row
<1>1. SUFFICES Leads(rs2, o, row)
  BY LeaderIsNewest DEF Rotated
<1>2. ASSUME NEW q \in RowsOf(o), rs2[q].head = o
      PROVE  rs2[q].gen = (rs2[row].gen - ((row - q) % ObjectRows)) % Generations
  <2>1. CASE q = row
    <3>1. (row - q) % ObjectRows = 0
      BY <2>1, BehindValue
    <3>2. rs2[row].gen \in 0 .. Generations - 1
      BY DEF Numbered
    <3>3. (rs2[row].gen - 0) % Generations = rs2[row].gen
      BY <3>2, Constants
    <3>4. QED
      BY <2>1, <3>1, <3>3
  <2>2. CASE q # row
    <3>1. rs[q].head = o /\ rs2[q].gen = rs[q].gen
      BY <2>2, <1>2
    <3>2. ~Vacant(rs, o)
      BY <3>1 DEF Vacant
    <3> DEFINE n == NewestOf(rs, o)
    <3>3. Leads(rs, o, n) /\ n \in RowsOf(o) /\ n # None
      BY <3>2, NewestValue
    <3>4. row = NextRow(o, n) /\ gen = NextGeneration(rs[n].gen)
      BY <3>3
    <3> HIDE DEF n
    <3>5. (row - q) % ObjectRows = ((n - q) % ObjectRows) + 1
      BY <2>2, <3>3, <3>4, NextRowValue
    <3>6. rs[q].gen = (rs[n].gen - ((n - q) % ObjectRows)) % Generations
      BY <3>1, <3>3 DEF Leads
    <3>7. rs[n].gen \in 0 .. Generations - 1 /\ (n - q) % ObjectRows \in 0 .. ObjectRows - 1
      BY <3>3, BehindValue DEF Numbered
    <3>8. (NextGeneration(rs[n].gen) - (((n - q) % ObjectRows) + 1)) % Generations
            = (rs[n].gen - ((n - q) % ObjectRows)) % Generations
      BY <3>7, OlderThanNext
    <3>9. QED
      BY <3>1, <3>4, <3>5, <3>6, <3>8
  <2>3. QED
    BY <2>1, <2>2
<1>3. QED
  BY <1>2 DEF Leads

-----------------------------------------------------------------------------
(* What the invariant says of the newest record.                           *)
LEMMA NewestFacts ==
  ASSUME Types, Rotation, NEW o \in Object
  PROVE  /\ Numbered(rows, o) /\ Rotated(rows, o)
         /\ \/ Newest(o) = None /\ Vacant(rows, o)
            \/ /\ Newest(o) \in RowsOf(o) /\ Newest(o) # None
               /\ Leads(rows, o, Newest(o)) /\ rows[Newest(o)].head = o
<1>1. Numbered(rows, o)
  BY RowsAre DEF Types, RowType, Numbered
<1>2. Rotated(rows, o)
  BY DEF Rotation
<1>3. Newest(o) = NewestOf(rows, o)
  BY NewestIsNewestOf
<1>4. QED
  BY <1>1, <1>2, <1>3, NewestValue DEF Leads

(* An object whose newest record a step leaves alone.                      *)
Kept(o) ==
  /\ Newest(o)' = Newest(o)
  /\ Newest(o) # None =>
       /\ rows'[Newest(o)] = rows[Newest(o)]
       /\ Newest(o) \in unfinished' <=> Newest(o) \in unfinished

LEMMA InitIInv == Init => IInv
<1> SUFFICES ASSUME Init PROVE IInv
  OBVIOUS
<1> USE DEF Init
<1>1. PICK legacy \in LegacyRows \cup {None}, v \in SettingsValue :
        /\ rows = [r \in Row |-> IF r = legacy
                                   THEN [head |-> "legacy", gen |-> 1, data |-> v]
                                   ELSE Erased]
        /\ legacyAt = legacy
        /\ committed = [o \in Object |-> IF o = Settings /\ legacy # None
                                           THEN v ELSE None]
  OBVIOUS
<1>2. legacy \in Row \cup {None}
  BY WearStorageAssumption DEF WearStorageAssumption, Row
<1>3. Default \in SettingsValue /\ Key(Default) \in 0 .. 1
  BY DEF Default, SettingsValue, Key
<1>4. \A r \in Row : rows[r].head \in {"legacy", "blank"} /\ rows[r].gen \in {0, 1}
  BY <1>1 DEF Erased
<1>5. Types
  <2>1. rows \in [Row -> RowType]
    <3>1. 0 \in 0 .. Generations - 1 /\ 1 \in 0 .. Generations - 1
      BY Constants
    <3>2. Payload(Settings) = SettingsValue
      BY Constants DEF Payload
    <3>3. QED
      BY <1>1, <3>1, <3>2 DEF Erased, RowType
  <2>2. /\ committed \in [Object -> Payload(Crc) \cup Payload(Settings) \cup {None}]
        /\ committed[Crc] \in {Signature, None} /\ committed[Settings] \in SettingsValue \cup {None}
    BY <1>1, Constants DEF Object, Payload
  <2>3. MaxCrashes \in Nat
    BY WearStorageAssumption DEF WearStorageAssumption
  <2>4. /\ hung \in BOOLEAN /\ corrupt \in BOOLEAN /\ failed \in BOOLEAN
        /\ settings \in SettingsValue /\ saved \in 0 .. 1
    BY Zenon, <1>3
  <2>5. unfinished \subseteq Row /\ crashes \in 0 .. MaxCrashes /\ legacyAt \in Row \cup {None}
    BY <1>1, <1>2, <2>3
  <2>6. QED
    BY Zenon, <2>1, <2>2, <2>4, <2>5 DEF Types
<1>6. \A o \in Object : Vacant(rows, o) /\ Newest(o) = None
  <2>1. ASSUME NEW o \in Object
        PROVE  Vacant(rows, o)
    BY <1>4, Constants, RowsAre DEF Vacant
  <2>2. ASSUME NEW o \in Object
        PROVE  Newest(o) = None
    BY <2>1 DEF Vacant, Newest
  <2>3. QED
    BY <2>1, <2>2
<1>7. RowsAreOwn
  <2>1. \A r \in Row : rows[r].head = "legacy" => r = legacyAt /\ rows[r].data \in SettingsValue
    BY <1>1 DEF Erased
  <2>2. QED
    BY <1>6, <2>1 DEF RowsAreOwn, Vacant
<1>8. Rotation
  BY <1>6 DEF Rotation, Rotated
<1>9. CommittedIsKept /\ LegacyIsKept
  <2>1. committed[Crc] = None
    BY <1>1, Constants DEF Object
  <2>2. CASE legacy = None
    BY <1>1, <1>6, <2>1, <2>2 DEF CommittedIsKept, LegacyIsKept, Object
  <2>3. CASE legacy # None
    BY <1>1, <1>2, <1>6, <2>1, <2>3 DEF CommittedIsKept, LegacyIsKept, Object
  <2>4. QED
    BY <2>2, <2>3
<1>10. JobIsAsked /\ JobIsNext /\ SavedIsKey /\ SavedUpToKey /\ CorruptOnlyIfCutShort
  BY DEF JobIsAsked, JobIsNext, Writing, SavedIsKey, SavedUpToKey, CorruptOnlyIfCutShort
<1>11. QED
  BY <1>5, <1>7, <1>8, <1>9, <1>10 DEF IInv

-----------------------------------------------------------------------------
(* Steps that leave the rows alone leave every record where it is.         *)
RowsKept == UNCHANGED <<rows, committed, unfinished, legacyAt>>

RowsInv == RowsAreOwn /\ Rotation /\ CommittedIsKept /\ LegacyIsKept

LEMMA RowsKeptKeeps ==
  ASSUME RowsInv, RowsKept
  PROVE  /\ RowsInv'
         /\ \A o \in Object : Newest(o)' = Newest(o) /\ Stored(o)' = Stored(o) /\ Kept(o)
<1> USE DEF RowsKept
<1>1. ASSUME NEW o \in Object
      PROVE  Newest(o)' = Newest(o) /\ Stored(o)' = Stored(o)
  <2>1. \A p \in Object : Newest(p)' = Newest(p)
    BY NewestIsNewestOf
  <2>2. Newest(o)' = Newest(o) /\ LegacyRow' = LegacyRow
    BY <2>1 DEF LegacyRow
  <2>3. QED
    BY Zenon, <2>1, <2>2 DEF Stored
<1>2. RowsAreOwn' /\ Rotation'
  BY Zenon DEF RowsInv, RowsAreOwn, Rotation, Rotated, Vacant, Leads
<1>3. Crc \in Object /\ Settings \in Object
  BY DEF Object
<1>4. CommittedIsKept' /\ LegacyIsKept'
  BY Zenon, <1>1, <1>3 DEF RowsInv, CommittedIsKept, LegacyIsKept
<1>5. QED
  BY Zenon, <1>1, <1>2, <1>4 DEF RowsInv, Kept

(* A step that puts `left` in the row of the write under way.              *)
RowPut(left) == rows' = [rows EXCEPT ![job.row] = left] /\ legacyAt' = legacyAt

(* What such a step leaves alone: the rows of the other object.            *)
LEMMA PutKeepsOthers ==
  ASSUME IInv, pc \in Writing, Types', NEW left, RowPut(left),
         unfinished' \ {job.row} = unfinished \ {job.row},
         NEW o \in Object \ {job.of}
  PROVE  Rotated(rows', o) /\ Kept(o)
<1>1. /\ Types /\ Rotation /\ job.of \in Object /\ job.row \in RowsOf(job.of)
  BY DEF IInv, JobIsAsked
<1>2. job.row \notin RowsOf(o) /\ RowsOf(o) \subseteq Row
  BY <1>1, RowsAre DEF Object
<1>3. \A q \in RowsOf(o) : rows'[q] = rows[q]
  BY <1>1, <1>2 DEF RowPut, Types
<1>4. /\ Numbered(rows, o) /\ Rotated(rows, o)
      /\ Newest(o) # None => Newest(o) \in RowsOf(o) /\ rows[Newest(o)].head = o
  BY <1>1, NewestFacts
<1>5. Numbered(rows', o)
  BY <1>3, <1>4 DEF Numbered
<1>6. Rotated(rows', o) /\ Newest(o)' = Newest(o)
  <2>1. Newest(o) = NewestOf(rows, o) /\ Newest(o)' = NewestOf(rows', o)
    BY NewestIsNewestOf
  <2>2. Rotated(rows', o) /\ NewestOf(rows', o) = NewestOf(rows, o)
    BY <1>3, <1>4, <1>5, <2>1, NewestStays
  <2>3. QED
    BY <2>1, <2>2
<1>7. QED
  BY <1>2, <1>3, <1>4, <1>6 DEF Kept

(* A row other than the newest one is cleared, or left as it was.          *)
LEMMA PutClears ==
  ASSUME IInv, pc \in {"erase", "header"}, ~hung, Types', NEW left, RowPut(left),
         left \in {rows[job.row], Erased, Torn},
         unfinished' \ {job.row} = unfinished \ {job.row},
         NEW o \in Object, o = job.of
  PROVE  Rotated(rows', o) /\ Kept(o) /\ Newest(o) # job.row
<1>1. /\ Types /\ Rotation /\ job.row \in RowsOf(o)
      /\ Newest(o) # None => job.row = NextRow(o, Newest(o))
  BY DEF IInv, JobIsAsked, JobIsNext, Writing
<1>2. /\ Numbered(rows, o) /\ Rotated(rows, o)
      /\ Newest(o) # None => Newest(o) \in RowsOf(o) /\ rows[Newest(o)].head = o
  BY <1>1, NewestFacts
<1>3. RowsOf(o) \subseteq Row
  BY RowsAre
<1>4. Newest(o) # job.row
  <2>1. CASE Newest(o) = None
    BY <1>1, <1>3, <2>1, Constants
  <2>2. CASE Newest(o) # None
    BY <1>1, <1>2, <2>2, NextRowValue
  <2>3. QED
    BY <2>1, <2>2
<1>5. \A q \in RowsOf(o) : rows'[q] = IF q = job.row THEN left ELSE rows[q]
  BY <1>1, <1>3 DEF RowPut, Types
<1>6. left = rows[job.row] \/ left.head # o
  BY Constants DEF Erased, Torn
<1>7. Numbered(rows', o)
  BY <1>3 DEF Types, RowType, Numbered
<1>8. Rotated(rows', o) /\ Newest(o)' = Newest(o)
  <2>1. Newest(o) = NewestOf(rows, o) /\ Newest(o)' = NewestOf(rows', o)
    BY NewestIsNewestOf
  <2>2. \A q \in RowsOf(o) : rows'[q].head = o => rows[q].head = o /\ rows'[q].gen = rows[q].gen
    BY <1>5, <1>6
  <2>3. Newest(o) # None => rows'[Newest(o)] = rows[Newest(o)] /\ rows[Newest(o)].head = o
    BY <1>2, <1>4, <1>5
  <2>4. Rotated(rows', o) /\ NewestOf(rows', o) = NewestOf(rows, o)
    BY <1>2, <1>7, <2>1, <2>2, <2>3, NewestStays
  <2>5. QED
    BY <2>1, <2>4
<1>9. QED
  BY <1>2, <1>4, <1>5, <1>8 DEF Kept

(* The header makes its row the newest one.                                *)
LEMMA PutHeads ==
  ASSUME IInv, pc = "header", Types', RowPut(Headed(job.of, job.gen)),
         NEW o \in Object, o = job.of
  PROVE  Rotated(rows', o) /\ Newest(o)' = job.row /\ Newest(o) # job.row
<1>1. /\ Types /\ Rotation /\ job.row \in RowsOf(o)
      /\ IF Newest(o) = None THEN job.row = First(o) /\ job.gen = 1
         ELSE /\ job.row = NextRow(o, Newest(o))
              /\ job.gen = NextGeneration(rows[Newest(o)].gen)
  BY DEF IInv, JobIsAsked, JobIsNext, Writing
<1>2. /\ Numbered(rows, o) /\ Rotated(rows, o)
      /\ Newest(o) = None \/ Newest(o) \in RowsOf(o)
  BY <1>1, NewestFacts
<1>3. RowsOf(o) \subseteq Row
  BY RowsAre
<1>4. /\ rows'[job.row] = Headed(o, job.gen)
      /\ \A q \in RowsOf(o) \ {job.row} : rows'[q] = rows[q]
  BY <1>1, <1>3 DEF RowPut, Types
<1>5. Numbered(rows', o)
  BY <1>3 DEF Types, RowType, Numbered
<1>6. Newest(o) = NewestOf(rows, o) /\ Newest(o)' = NewestOf(rows', o)
  BY NewestIsNewestOf
<1>7. rows'[job.row].head = o /\ rows'[job.row].gen = job.gen
  BY <1>4 DEF Headed
<1>8. Rotated(rows', o) /\ NewestOf(rows', o) = job.row
  BY <1>1, <1>2, <1>4, <1>5, <1>6, <1>7, HeaderLeads
<1>9. Newest(o) # job.row
  <2>1. CASE Newest(o) = None
    BY <1>1, <1>3, <2>1, Constants
  <2>2. CASE Newest(o) # None
    BY <1>1, <1>2, <2>2, NextRowValue
  <2>3. QED
    BY <2>1, <2>2
<1>10. QED
  BY <1>6, <1>8, <1>9

(* A payload changes neither the header of its row nor its rank.           *)
LEMMA PutPayload ==
  ASSUME IInv, pc = "payload", Types', NEW left, RowPut(left),
         left.head = job.of, left.gen = job.gen,
         NEW o \in Object, o = job.of
  PROVE  Rotated(rows', o) /\ Newest(o)' = job.row /\ Newest(o) = job.row
<1>1. /\ Types /\ Rotation /\ job.row \in RowsOf(o) /\ Newest(o) = job.row
      /\ rows[job.row] = Headed(job.of, job.gen)
  BY DEF IInv, JobIsAsked, JobIsNext, Writing
<1>2. Numbered(rows, o) /\ Rotated(rows, o)
  BY <1>1, NewestFacts
<1>3. RowsOf(o) \subseteq Row
  BY RowsAre
<1>4. /\ rows'[job.row] = left /\ rows[job.row].head = o /\ rows[job.row].gen = left.gen
      /\ \A q \in RowsOf(o) \ {job.row} : rows'[q] = rows[q]
  BY <1>1, <1>3 DEF RowPut, Types, Headed
<1>5. Numbered(rows', o)
  BY <1>3 DEF Types, RowType, Numbered
<1>6. Newest(o) = NewestOf(rows, o) /\ Newest(o)' = NewestOf(rows', o)
  BY NewestIsNewestOf
<1>7. Rotated(rows', o) /\ NewestOf(rows', o) = NewestOf(rows, o)
  <2>1. \A q \in RowsOf(o) : rows'[q].head = o => rows[q].head = o /\ rows'[q].gen = rows[q].gen
    BY <1>4
  <2>2. rows'[NewestOf(rows, o)].head = o
        /\ rows'[NewestOf(rows, o)].gen = rows[NewestOf(rows, o)].gen
    BY <1>1, <1>4, <1>6
  <2>3. QED
    BY <1>2, <1>5, <2>1, <2>2, NewestStays
<1>8. QED
  BY <1>1, <1>6, <1>7

-----------------------------------------------------------------------------
(* No write puts one object's payload, or a legacy record, elsewhere.      *)
LEMMA PutOwn ==
  ASSUME IInv, pc \in Writing, Types', NEW left, RowPut(left),
         \/ left = rows[job.row]
         \/ /\ left.head # "legacy"
            /\ left.head \in Object =>
                 left.head = job.of /\ left.data \in Payload(job.of) \cup {None}
  PROVE  RowsAreOwn'
<1>1. /\ rows \in [Row -> RowType] /\ job.of \in Object /\ job.row \in RowsOf(job.of)
      /\ RowsAreOwn /\ legacyAt' = legacyAt
  BY DEF IInv, Types, JobIsAsked, RowPut
<1>2. job.row \in Row
  BY <1>1, RowsAre
<1>3. \A q \in Row : rows'[q] = IF q = job.row THEN left ELSE rows[q]
  BY <1>1, <1>2 DEF RowPut
<1>4. ASSUME NEW o \in Object, NEW r \in RowsOf(o), rows'[r].head = o
      PROVE  rows'[r].data \in Payload(o) \cup {None}
  <2>1. r \in Row
    BY RowsAre
  <2>2. rows[r].head = o => rows[r].data \in Payload(o) \cup {None}
    BY <1>1 DEF RowsAreOwn
  <2>3. QED
    BY <1>3, <1>4, <2>1, <2>2
<1>5. ASSUME NEW r \in Row, rows'[r].head = "legacy"
      PROVE  r = legacyAt /\ rows'[r].data \in SettingsValue
  <2>1. rows'[r] = rows[r]
    BY <1>3, <1>5
  <2>2. QED
    BY <1>1, <1>5, <2>1 DEF RowsAreOwn
<1>6. QED
  BY <1>1, <1>4, <1>5 DEF RowsAreOwn

(* A write can erase the legacy record in one of two ways only.            *)
LEMMA PutKeepsLegacy ==
  ASSUME IInv, pc \in Writing, ~hung, NEW left, RowPut(left),
         left = rows[job.row] \/ left.head # "legacy",
         committed'[Settings] = committed[Settings],
         Newest(Settings)' = None => Newest(Settings) = None
  PROVE  LegacyIsKept'
<1> SUFFICES ASSUME Newest(Settings)' = None, legacyAt # None
             PROVE  \/ /\ rows'[legacyAt].head = "legacy"
                       /\ rows'[legacyAt].data = committed[Settings]
                    \/ /\ rows'[legacyAt].head # "legacy"
                       /\ legacyAt \in RowsOf(Crc) \cup {First(Settings)}
  <2>1. legacyAt' = legacyAt
    BY DEF RowPut
  <2>2. Newest(Settings) = None /\ legacyAt = None => committed[Settings] = None
    BY DEF IInv, LegacyIsKept
  <2>3. QED
    BY <2>1, <2>2 DEF LegacyIsKept
<1>1. /\ rows \in [Row -> RowType] /\ legacyAt \in Row /\ LegacyIsKept
      /\ job.of \in Object /\ job.row \in RowsOf(job.of)
  BY DEF IInv, Types, JobIsAsked
<1>2. job.row \in Row
  BY <1>1, RowsAre
<1>3. \A q \in Row : rows'[q] = IF q = job.row THEN left ELSE rows[q]
  BY <1>1, <1>2 DEF RowPut
<1>4. \/ /\ rows[legacyAt].head = "legacy" /\ rows[legacyAt].data = committed[Settings]
      \/ /\ rows[legacyAt].head # "legacy"
         /\ legacyAt \in RowsOf(Crc) \cup {First(Settings)}
  BY <1>1 DEF LegacyIsKept
<1>5. CASE rows'[legacyAt] = rows[legacyAt]
  BY <1>4, <1>5
<1>6. CASE rows'[legacyAt] # rows[legacyAt]
  <2>1. legacyAt = job.row /\ rows'[legacyAt].head # "legacy"
    BY <1>1, <1>3, <1>6
  <2>2. job.of = Settings => job.row = First(Settings)
    <3>1. Newest(Settings) = None /\ Settings \in Object
      BY DEF Object
    <3>2. job.of = Settings => pc # "payload"
      BY <1>2, <3>1, Constants DEF IInv, JobIsNext
    <3>3. QED
      BY <3>1, <3>2 DEF IInv, JobIsNext, Writing
  <2>3. job.row \in RowsOf(Crc) \cup {First(Settings)}
    BY <1>1, <2>2 DEF Object
  <2>4. QED
    BY <2>1, <2>3
<1>7. QED
  BY <1>5, <1>6

(* An object whose newest record is kept still holds what was committed.   *)
LEMMA KeptIsCommitted ==
  ASSUME IInv, NEW o \in Object, Kept(o), committed'[o] = committed[o]
  PROVE  /\ Newest(o)' # None /\ Newest(o)' \notin unfinished' =>
              rows'[Newest(o)'] = rows[Newest(o)] /\ rows'[Newest(o)'].data = committed'[o]
         /\ o = Crc /\ Newest(o)' = None => committed'[o] = None
  BY DEF IInv, CommittedIsKept, Kept

(* Clearing a row, or leaving it, touches no newest record.                *)
LEMMA ClearsKeeps ==
  ASSUME IInv, pc \in {"erase", "header"}, ~hung, Types', NEW left, RowPut(left),
         left \in {rows[job.row], Erased, Torn},
         unfinished' \ {job.row} = unfinished \ {job.row}, committed' = committed
  PROVE  RowsInv' /\ \A o \in Object : Kept(o)
<1>1. pc \in Writing /\ Crc \in Object /\ Settings \in Object
  BY DEF Writing, Object
<1>2. \A o \in Object : Rotated(rows', o) /\ Kept(o)
  BY <1>1, PutClears, PutKeepsOthers
<1>3. left = rows[job.row] \/ left.head \in {"blank", "torn"}
  BY DEF Erased, Torn
<1>4. RowsAreOwn'
  BY <1>1, <1>3, PutOwn, Constants
<1>5. Rotation'
  BY <1>2 DEF Rotation
<1>6. LegacyIsKept'
  BY <1>1, <1>2, <1>3, PutKeepsLegacy DEF Kept
<1>7. CommittedIsKept'
  BY <1>1, <1>2, KeptIsCommitted DEF CommittedIsKept
<1>8. QED
  BY <1>2, <1>4, <1>5, <1>6, <1>7 DEF RowsInv

(* A header supersedes the newest record, which is left as it is.          *)
LEMMA HeadsKeeps ==
  ASSUME IInv, pc = "header", Types', RowPut(Headed(job.of, job.gen)),
         unfinished' = unfinished \cup {job.row}, committed' = committed
  PROVE  /\ RowsInv'
         /\ \A o \in Object : o # job.of => Kept(o)
         /\ \A o \in Object : o = job.of => Newest(o)' = job.row /\ Newest(o) # job.row
<1>1. /\ pc \in Writing /\ ~hung /\ Crc \in Object /\ Settings \in Object
      /\ job.of \in Object /\ job.row \in RowsOf(job.of)
  BY DEF IInv, JobIsAsked, JobIsNext, Writing, Object
<1>2. \A o \in Object : o # job.of => Rotated(rows', o) /\ Kept(o)
  <2>1. unfinished' \ {job.row} = unfinished \ {job.row}
    OBVIOUS
  <2>2. QED
    BY <1>1, <2>1, PutKeepsOthers
<1>3. \A o \in Object : o = job.of =>
         Rotated(rows', o) /\ Newest(o)' = job.row /\ Newest(o) # job.row
  BY PutHeads
<1>4. job.row # None
  BY <1>1, RowsAre, Constants
<1>5. RowsAreOwn'
  BY <1>1, PutOwn, Constants DEF Headed
<1>6. Rotation'
  BY <1>2, <1>3 DEF Rotation
<1>7. LegacyIsKept'
  <2>1. Headed(job.of, job.gen).head # "legacy"
    BY <1>1, Constants DEF Headed
  <2>2. Newest(Settings)' = None => Newest(Settings) = None
    BY <1>1, <1>2, <1>3, <1>4 DEF Kept
  <2>3. QED
    BY <1>1, <2>1, <2>2, PutKeepsLegacy
<1>8. CommittedIsKept'
  <2>1. \A o \in Object : o # job.of =>
          /\ Newest(o)' # None /\ Newest(o)' \notin unfinished' =>
               rows'[Newest(o)'].data = committed'[o]
          /\ o = Crc /\ Newest(o)' = None => committed'[o] = None
    BY <1>2, KeptIsCommitted
  <2>2. \A o \in Object : o = job.of => Newest(o)' # None /\ Newest(o)' \in unfinished'
    BY <1>3, <1>4
  <2>3. QED
    BY <1>1, <2>1, <2>2 DEF CommittedIsKept
<1>9. QED
  BY <1>2, <1>3, <1>5, <1>6, <1>7, <1>8 DEF RowsInv

(* A payload completes the newest record, or spoils one that never was     *)
(* complete.                                                               *)
LEMMA PayloadKeeps ==
  ASSUME IInv, pc = "payload", Types', NEW left, RowPut(left),
         left.head = job.of, left.gen = job.gen, left.data \in Payload(job.of) \cup {None},
         unfinished' \ {job.row} = unfinished \ {job.row},
         \/ left.data = job.value /\ committed' = [committed EXCEPT ![job.of] = job.value]
         \/ job.row \in unfinished' /\ committed' = committed
  PROVE  /\ RowsInv'
         /\ \A o \in Object : o # job.of => Kept(o)
         /\ \A o \in Object : o = job.of =>
              Newest(o)' = job.row /\ Newest(o) = job.row /\ job.row \in unfinished
         /\ rows'[job.row] = left
<1>1. /\ pc \in Writing /\ ~hung /\ Crc \in Object /\ Settings \in Object
      /\ job.of \in Object /\ job.row \in RowsOf(job.of) /\ job.row \in unfinished
      /\ rows \in [Row -> RowType]
      /\ committed \in [Object -> Payload(Crc) \cup Payload(Settings) \cup {None}]
  BY DEF IInv, Types, JobIsAsked, JobIsNext, Writing, Object
<1>2. \A o \in Object : o # job.of => Rotated(rows', o) /\ Kept(o)
  BY <1>1, PutKeepsOthers
<1>3. \A o \in Object : o = job.of =>
         Rotated(rows', o) /\ Newest(o)' = job.row /\ Newest(o) = job.row
  BY PutPayload
<1>4. job.row # None /\ rows'[job.row] = left
  BY <1>1, RowsAre, Constants DEF RowPut
<1>5. left.head # "legacy"
  BY <1>1, Constants
<1>6. RowsAreOwn'
  BY <1>1, <1>5, PutOwn
<1>7. Rotation'
  BY <1>2, <1>3 DEF Rotation
<1>8. \A o \in Object : o # job.of => committed'[o] = committed[o]
  BY <1>1
<1>9. LegacyIsKept'
  <2>1. CASE job.of = Settings
    BY <1>1, <1>3, <1>4, <2>1 DEF LegacyIsKept
  <2>2. CASE job.of # Settings
    BY <1>1, <1>2, <1>5, <1>8, <2>2, PutKeepsLegacy DEF Kept
  <2>3. QED
    BY <2>1, <2>2
<1>10. CommittedIsKept'
  <2>1. \A o \in Object : o # job.of =>
          /\ Newest(o)' # None /\ Newest(o)' \notin unfinished' =>
               rows'[Newest(o)'].data = committed'[o]
          /\ o = Crc /\ Newest(o)' = None => committed'[o] = None
    BY <1>2, <1>8, KeptIsCommitted
  <2>2. \A o \in Object : o = job.of =>
          /\ Newest(o)' # None
          /\ Newest(o)' \in unfinished' \/ rows'[Newest(o)'].data = committed'[o]
    BY <1>1, <1>3, <1>4
  <2>3. QED
    BY <1>1, <2>1, <2>2 DEF CommittedIsKept
<1>11. QED
  BY <1>1, <1>2, <1>3, <1>4, <1>6, <1>7, <1>9, <1>10 DEF RowsInv

-----------------------------------------------------------------------------
(* A write begins in the row after the newest one.                         *)
LEMMA Begins ==
  ASSUME IInv, RowsKept, hung' = hung, pc \notin Writing,
         NEW o \in Object, NEW v \in Payload(o), BeginWrite(o, v)
  PROVE  /\ pc' = "erase" /\ job'.of = o /\ job'.value = v /\ job'.row \in RowsOf(o)
         /\ job' \in [of : Object, value : Payload(Crc) \cup Payload(Settings), row : Row,
                       gen : 0 .. Generations - 1]
         /\ JobIsNext'
<1>1. Types /\ Rotation
  BY DEF IInv
<1>2. /\ Newest(o)' = Newest(o) /\ rows' = rows
      /\ v \in Payload(Crc) \cup Payload(Settings)
  BY NewestIsNewestOf DEF RowsKept, Object
<1>3. Newest(o) # None => Newest(o) \in RowsOf(o) /\ rows[Newest(o)].gen \in 0 .. Generations - 1
  BY <1>1, NewestFacts DEF Numbered
<1>4. First(o) \in RowsOf(o) /\ RowsOf(o) \subseteq Row /\ 1 \in 0 .. Generations - 1
  BY RowsAre, Constants
<1>5. CASE hung \/ Newest(o) = None
  <2>1. job' = [of |-> o, value |-> v, row |-> First(o), gen |-> 1] /\ pc' = "erase"
    BY <1>5 DEF BeginWrite
  <2>2. JobIsNext'
    BY <1>2, <1>5, <2>1 DEF JobIsNext
  <2>3. QED
    BY <1>2, <1>4, <2>1, <2>2
<1>6. CASE ~hung /\ Newest(o) # None
  <2>1. /\ job' = [of |-> o, value |-> v, row |-> NextRow(o, Newest(o)),
                   gen |-> NextGeneration(rows[Newest(o)].gen)]
        /\ pc' = "erase"
    BY <1>6 DEF BeginWrite
  <2>2. /\ NextRow(o, Newest(o)) \in RowsOf(o)
        /\ NextGeneration(rows[Newest(o)].gen) \in 0 .. Generations - 1
    BY <1>3, <1>6, NextRowValue, NextGenerationValue
  <2>3. JobIsNext'
    BY <1>2, <1>6, <2>1 DEF JobIsNext
  <2>4. QED
    BY <1>2, <1>4, <2>1, <2>2, <2>3
<1>7. QED
  BY <1>5, <1>6

LEMMA PayloadIs ==
  Payload(Crc) = {Signature, Garbage} /\ Payload(Settings) = SettingsValue
  BY Constants DEF Payload

LEMMA CheckImageKeeps ==
  ASSUME IInv, CheckImage
  PROVE  IInv'
<1>1. /\ RowsKept /\ pc = "check" /\ hung' = hung /\ settings' = settings /\ saved' = saved
      /\ failed' = failed /\ crashes' = crashes
      /\ corrupt' = (Read(Crc) \notin {None, Signature})
      /\ IF Read(Crc) = None THEN BeginWrite(Crc, Signature)
         ELSE pc' = "load" /\ job' = job
  BY DEF CheckImage, RowsKept
<1>2. RowsInv' /\ Newest(Crc)' = Newest(Crc)
  BY <1>1, RowsKeptKeeps DEF IInv, RowsInv, Object
<1>3. Types'
  BY <1>1 DEF IInv, Types, RowsKept
<1>4. job = NoJob /\ pc \notin Writing
  BY <1>1 DEF IInv, JobIsAsked, Writing
<1>5. CASE Read(Crc) = None
  <2>1. ~corrupt'
    BY <1>1, <1>5
  <2>2. /\ pc' = "erase" /\ job'.of = Crc /\ job'.value = Signature /\ job'.row \in RowsOf(Crc)
        /\ job' \in [of : Object, value : Payload(Crc) \cup Payload(Settings), row : Row,
                      gen : 0 .. Generations - 1]
        /\ JobIsNext'
    <3>1. Crc \in Object /\ Signature \in Payload(Crc)
      BY PayloadIs DEF Object
    <3>2. QED
      BY <1>1, <1>4, <1>5, <3>1, Begins
  <2>3. JobIsAsked'
    BY <2>1, <2>2, Constants DEF JobIsAsked, Writing
  <2>4. SavedIsKey' /\ SavedUpToKey' /\ CorruptOnlyIfCutShort'
    BY <2>1, <2>2, Constants DEF SavedIsKey, SavedUpToKey, CorruptOnlyIfCutShort
  <2>5. QED
    BY <1>2, <1>3, <2>2, <2>3, <2>4 DEF IInv, RowsInv
<1>6. CASE Read(Crc) # None
  <2>1. pc' = "load" /\ job' = NoJob
    BY <1>1, <1>4, <1>6
  <2>2. JobIsAsked' /\ JobIsNext' /\ SavedIsKey' /\ SavedUpToKey'
    BY <2>1 DEF JobIsAsked, JobIsNext, SavedIsKey, SavedUpToKey, Writing
  <2>3. CorruptOnlyIfCutShort'
    <3>1. SUFFICES ASSUME Read(Crc) \notin {None, Signature}
                   PROVE  Newest(Crc) \in unfinished
      BY <1>1, <1>2 DEF CorruptOnlyIfCutShort, RowsKept
    <3>2. Newest(Crc) # None /\ rows[Newest(Crc)].data \notin {None, Signature}
      BY <3>1, Constants DEF Read, Stored
    <3>3. committed[Crc] \in {None, Signature} /\ Crc \in Object
      BY DEF IInv, Types, Object
    <3>4. QED
      BY <3>2, <3>3 DEF IInv, CommittedIsKept
  <2>4. QED
    BY <1>2, <1>3, <2>2, <2>3 DEF IInv, RowsInv
<1>7. QED
  BY <1>5, <1>6

(* What is stored for the settings is a payload of theirs, or nothing.     *)
LEMMA StoredSettings ==
  ASSUME IInv
  PROVE  Stored(Settings) \in SettingsValue \cup {None}
<1>1. Settings \in Object /\ Types /\ Rotation /\ RowsAreOwn
  BY DEF Object, IInv
<1>2. CASE Newest(Settings) # None
  <2>1. Newest(Settings) \in RowsOf(Settings) /\ rows[Newest(Settings)].head = Settings
    BY <1>1, <1>2, NewestFacts
  <2>2. rows[Newest(Settings)].data \in Payload(Settings) \cup {None}
    BY <1>1, <2>1 DEF RowsAreOwn
  <2>3. QED
    BY <1>2, <2>2, PayloadIs DEF Stored
<1>3. CASE Newest(Settings) = None
  <2>1. LegacyRow # None => LegacyRow \in Row /\ rows[LegacyRow].head = "legacy"
    BY DEF LegacyRow
  <2>2. QED
    BY <1>1, <1>3, <2>1 DEF Stored, RowsAreOwn
<1>4. QED
  BY <1>2, <1>3

LEMMA KeyValue ==
  \A s \in SettingsValue : Key(s) \in 0 .. 1
  BY DEF SettingsValue, Key

LEMMA DefaultIs == Default \in SettingsValue
  BY DEF Default, SettingsValue

LEMMA LoadSettingsKeeps ==
  ASSUME IInv, LoadSettings
  PROVE  IInv'
<1>1. /\ RowsKept /\ pc = "load" /\ hung' = hung /\ corrupt' = corrupt /\ job' = job
      /\ failed' = failed /\ crashes' = crashes /\ pc' = "awake"
      /\ settings' = (IF Read(Settings) = None THEN Default ELSE Read(Settings))
      /\ saved' = Key(settings')
  BY DEF LoadSettings, RowsKept
<1>2. RowsInv' /\ \A o \in Object : Newest(o)' = Newest(o) /\ Stored(o)' = Stored(o)
  BY <1>1, RowsKeptKeeps DEF IInv, RowsInv
<1>3. settings' \in SettingsValue /\ saved' \in 0 .. 1
  BY <1>1, StoredSettings, DefaultIs, KeyValue DEF Read
<1>4. Types'
  BY <1>1, <1>3 DEF IInv, Types, RowsKept
<1>5. job = NoJob /\ pc \notin Writing
  BY <1>1 DEF IInv, JobIsAsked, Writing
<1>6. JobIsAsked' /\ JobIsNext' /\ SavedIsKey'
  BY <1>1, <1>5 DEF JobIsAsked, JobIsNext, SavedIsKey, Writing
<1>7. SavedUpToKey'
  <2>1. SUFFICES ASSUME ~hung
                 PROVE  Key(settings') =
                          Key(IF Stored(Settings)' = None THEN Default ELSE Stored(Settings)')
    BY <1>1 DEF SavedUpToKey
  <2>2. Stored(Settings)' = Stored(Settings) /\ Read(Settings) = Stored(Settings)
    BY <1>2, <2>1 DEF Read, Object
  <2>3. QED
    BY <1>1, <2>2
<1>8. CorruptOnlyIfCutShort'
  BY <1>1, <1>2 DEF IInv, CorruptOnlyIfCutShort, RowsKept, Object
<1>9. QED
  BY <1>2, <1>4, <1>6, <1>7, <1>8 DEF IInv, RowsInv

LEMMA WakeKeeps ==
  ASSUME IInv, Wake
  PROVE  IInv'
<1>1. /\ RowsKept /\ pc = "awake" /\ hung' = hung /\ corrupt' = corrupt
      /\ failed' = failed /\ crashes' = crashes
  BY DEF Wake, RowsKept
<1>2. PICK s \in SettingsValue :
        /\ settings' = s /\ saved' = Key(s)
        /\ IF Key(s) # saved THEN BeginWrite(Settings, s) ELSE pc' = pc /\ job' = job
  BY DEF Wake
<1>3. RowsInv' /\ \A o \in Object : Newest(o)' = Newest(o) /\ Stored(o)' = Stored(o)
  BY <1>1, RowsKeptKeeps DEF IInv, RowsInv
<1>4. Types'
  BY <1>1, <1>2, KeyValue DEF IInv, Types, RowsKept
<1>5. job = NoJob /\ pc \notin Writing /\ saved = Key(settings)
  BY <1>1 DEF IInv, JobIsAsked, SavedIsKey, Writing
<1>6. SavedIsKey'
  BY <1>2 DEF SavedIsKey
<1>7. CorruptOnlyIfCutShort'
  BY <1>1, <1>3 DEF IInv, CorruptOnlyIfCutShort, RowsKept, Object
<1>8. CASE Key(s) = saved
  <2>1. pc' = "awake" /\ job' = NoJob
    BY <1>1, <1>2, <1>5, <1>8
  <2>2. JobIsAsked' /\ JobIsNext'
    BY <2>1 DEF JobIsAsked, JobIsNext, Writing
  <2>3. SavedUpToKey'
    <3>1. SUFFICES ASSUME ~hung, ~failed
                   PROVE  Key(settings') =
                            Key(IF Stored(Settings)' = None THEN Default ELSE Stored(Settings)')
      BY <1>1 DEF SavedUpToKey
    <3>2. Key(settings) = Key(IF Stored(Settings) = None THEN Default ELSE Stored(Settings))
      BY <1>1, <3>1 DEF IInv, SavedUpToKey
    <3>3. Key(settings') = Key(settings) /\ Stored(Settings)' = Stored(Settings)
      BY <1>2, <1>3, <1>5, <1>8 DEF Object
    <3>4. QED
      BY <3>2, <3>3
  <2>4. QED
    BY <1>3, <1>4, <1>6, <1>7, <2>2, <2>3 DEF IInv, RowsInv
<1>9. CASE Key(s) # saved
  <2>1. /\ pc' = "erase" /\ job'.of = Settings /\ job'.value = s
        /\ job'.row \in RowsOf(Settings)
        /\ job' \in [of : Object, value : Payload(Crc) \cup Payload(Settings), row : Row,
                      gen : 0 .. Generations - 1]
        /\ JobIsNext'
    <3>1. Settings \in Object /\ s \in Payload(Settings)
      BY PayloadIs DEF Object
    <3>2. QED
      BY <1>1, <1>2, <1>5, <1>9, <3>1, Begins
  <2>2. JobIsAsked' /\ SavedUpToKey'
    BY <1>2, <2>1, Constants DEF JobIsAsked, SavedUpToKey, Writing
  <2>3. QED
    BY <1>3, <1>4, <1>6, <1>7, <2>1, <2>2 DEF IInv, RowsInv
<1>10. QED
  BY <1>8, <1>9

LEMMA EraseRefusedKeeps ==
  ASSUME IInv, EraseRefused
  PROVE  IInv'
<1>1. /\ RowsKept /\ pc = "erase" /\ hung /\ hung' = hung /\ corrupt' = corrupt
      /\ settings' = settings /\ saved' = saved /\ crashes' = crashes
      /\ failed' \in BOOLEAN /\ pc' = Resume /\ job' = NoJob
  BY DEF EraseRefused, RowsKept, IInv, Types
<1>2. RowsInv' /\ \A o \in Object : Newest(o)' = Newest(o)
  BY <1>1, RowsKeptKeeps DEF IInv, RowsInv
<1>3. Types'
  BY <1>1 DEF IInv, Types, RowsKept
<1>4. JobIsAsked' /\ JobIsNext' /\ SavedUpToKey'
  BY <1>1 DEF JobIsAsked, JobIsNext, SavedUpToKey, Resume, Writing
<1>5. SavedIsKey'
  <2>1. pc' = "awake" => job.of = Settings
    BY <1>1 DEF Resume, IInv, JobIsAsked, Writing, Object
  <2>2. job.of = Settings => saved = Key(settings)
    BY <1>1 DEF IInv, SavedIsKey, Writing
  <2>3. pc' \notin Writing
    BY <1>1 DEF Resume, Writing
  <2>4. QED
    BY <1>1, <2>1, <2>2, <2>3 DEF SavedIsKey
<1>6. CorruptOnlyIfCutShort'
  BY <1>1, <1>2 DEF IInv, CorruptOnlyIfCutShort, RowsKept, Object
<1>7. QED
  BY <1>2, <1>3, <1>4, <1>5, <1>6 DEF IInv, RowsInv

LEMMA ResetBetweenWritesKeeps ==
  ASSUME IInv, ResetBetweenWrites
  PROVE  IInv'
<1>1. /\ RowsKept /\ pc \in {"load", "awake"} /\ job' = job /\ crashes' = crashes
      /\ pc' = "check" /\ hung' = FALSE /\ settings' = Default /\ saved' = Key(Default)
      /\ corrupt' = FALSE /\ failed' = FALSE
  BY DEF ResetBetweenWrites, Reboot, RowsKept
<1>2. RowsInv'
  BY <1>1, RowsKeptKeeps DEF IInv, RowsInv
<1>3. Types'
  BY <1>1, DefaultIs, KeyValue DEF IInv, Types, RowsKept
<1>4. job = NoJob
  BY <1>1 DEF IInv, JobIsAsked, Writing
<1>5. JobIsAsked' /\ JobIsNext' /\ SavedIsKey' /\ SavedUpToKey' /\ CorruptOnlyIfCutShort'
  BY <1>1, <1>4 DEF JobIsAsked, JobIsNext, SavedIsKey, SavedUpToKey, CorruptOnlyIfCutShort,
                    Writing
<1>6. QED
  BY <1>2, <1>3, <1>5 DEF IInv, RowsInv

LEMMA ControllerHangsKeeps ==
  ASSUME IInv, ControllerHangs
  PROVE  IInv'
<1>1. /\ RowsKept /\ pc \in {"check", "load", "awake"} /\ job' = job /\ crashes < MaxCrashes
      /\ crashes' = crashes + 1 /\ pc' = pc /\ hung' = TRUE /\ settings' = settings
      /\ saved' = saved /\ corrupt' = corrupt /\ failed' = failed
  BY DEF ControllerHangs, RowsKept
<1>2. RowsInv' /\ \A o \in Object : Newest(o)' = Newest(o)
  BY <1>1, RowsKeptKeeps DEF IInv, RowsInv
<1>3. Types'
  <2>1. crashes' \in 0 .. MaxCrashes
    BY <1>1, WearStorageAssumption DEF IInv, Types, WearStorageAssumption
  <2>2. QED
    BY <1>1, <2>1 DEF IInv, Types, RowsKept
<1>4. job = NoJob
  BY <1>1 DEF IInv, JobIsAsked, Writing
<1>5. JobIsAsked' /\ JobIsNext' /\ SavedIsKey' /\ SavedUpToKey'
  BY <1>1, <1>4 DEF IInv, JobIsAsked, JobIsNext, SavedIsKey, SavedUpToKey, Writing
<1>6. CorruptOnlyIfCutShort'
  BY <1>1, <1>2 DEF IInv, CorruptOnlyIfCutShort, RowsKept, Object
<1>7. QED
  BY <1>2, <1>3, <1>5, <1>6 DEF IInv, RowsInv

-----------------------------------------------------------------------------
(* What the operations of a write can leave in its row.                    *)
LEMMA LeftTypes ==
  ASSUME IInv, pc \in Writing
  PROVE  /\ job.of \in Object /\ job.row \in Row /\ job.row \in RowsOf(job.of)
         /\ {rows[job.row], Erased, Torn, Headed(job.of, job.gen)} \subseteq RowType
         /\ \A d \in Payload(job.of) \cup {None} :
              /\ [rows[job.row] EXCEPT !.data = d] \in RowType
              /\ pc = "payload" =>
                   /\ [rows[job.row] EXCEPT !.data = d].head = job.of
                   /\ [rows[job.row] EXCEPT !.data = d].gen = job.gen
                   /\ [rows[job.row] EXCEPT !.data = d].data = d
<1>1. /\ job.of \in Object /\ job.row \in Row /\ job.row \in RowsOf(job.of)
      /\ job.gen \in 0 .. Generations - 1
      /\ rows \in [Row -> RowType]
      /\ pc = "payload" => rows[job.row] = Headed(job.of, job.gen)
  BY DEF IInv, Types, JobIsAsked, JobIsNext
<1>2. rows[job.row] \in RowType
  BY <1>1
<1>3. 0 \in 0 .. Generations - 1
  BY Constants
<1>4. {Erased, Torn, Headed(job.of, job.gen)} \subseteq RowType
  BY <1>1, <1>3 DEF Erased, Torn, Headed, RowType
<1>5. ASSUME NEW d \in Payload(job.of) \cup {None}
      PROVE  /\ [rows[job.row] EXCEPT !.data = d] \in RowType
             /\ pc = "payload" =>
                  /\ [rows[job.row] EXCEPT !.data = d].head = job.of
                  /\ [rows[job.row] EXCEPT !.data = d].gen = job.gen
                  /\ [rows[job.row] EXCEPT !.data = d].data = d
  <2>1. d \in Payload(Crc) \cup Payload(Settings) \cup {None}
    BY <1>1 DEF Object
  <2>2. [rows[job.row] EXCEPT !.data = d] \in RowType
    BY <1>2, <2>1 DEF RowType
  <2>3. QED
    BY <1>1, <2>2 DEF Headed
<1>6. QED
  BY <1>1, <1>2, <1>4, <1>5

(* A corrupt image was seen before this write, which is not the signature's. *)
LEMMA CorruptStays ==
  ASSUME IInv, pc \in Writing, corrupt' => corrupt, \A o \in Object : o # job.of => Kept(o)
  PROVE  CorruptOnlyIfCutShort'
<1>1. SUFFICES ASSUME corrupt
               PROVE  Newest(Crc)' \in unfinished'
  BY DEF CorruptOnlyIfCutShort
<1>2. Kept(Crc)
  BY <1>1 DEF IInv, JobIsAsked, Object
<1>3. Newest(Crc) \in unfinished /\ Newest(Crc) # None
  BY <1>1, Constants DEF IInv, CorruptOnlyIfCutShort, Types
<1>4. QED
  BY <1>2, <1>3 DEF Kept

LEMMA EraseRowKeeps ==
  ASSUME IInv, EraseRow
  PROVE  IInv'
<1>1. /\ pc = "erase" /\ pc \in Writing /\ ~hung /\ RowPut(Erased)
      /\ unfinished' = unfinished \ {job.row}
      /\ pc' = "header" /\ hung' = hung /\ settings' = settings /\ saved' = saved
      /\ corrupt' = corrupt /\ job' = job /\ failed' = failed /\ committed' = committed
      /\ crashes' = crashes
  BY DEF EraseRow, RowPut, Writing
<1>2. Types'
  BY <1>1, LeftTypes DEF IInv, Types, RowPut
<1>3. RowsInv' /\ \A o \in Object : Kept(o)
  <2>1. unfinished' \ {job.row} = unfinished \ {job.row}
    BY <1>1
  <2>2. QED
    BY <1>1, <1>2, <2>1, ClearsKeeps
<1>4. JobIsAsked' /\ SavedIsKey' /\ SavedUpToKey'
  BY <1>1 DEF IInv, JobIsAsked, SavedIsKey, SavedUpToKey, Writing
<1>5. JobIsNext'
  <2>1. rows'[job.row] = Erased
    BY <1>1, LeftTypes DEF RowPut, IInv, Types
  <2>2. ASSUME NEW o \in Object, job.of = o
        PROVE  IF Newest(o)' = None THEN job.row = First(o) /\ job.gen = 1
               ELSE /\ job.row = NextRow(o, Newest(o)')
                    /\ job.gen = NextGeneration(rows'[Newest(o)'].gen)
    <3>1. Kept(o)
      BY <1>3
    <3>2. IF Newest(o) = None THEN job.row = First(o) /\ job.gen = 1
          ELSE /\ job.row = NextRow(o, Newest(o))
               /\ job.gen = NextGeneration(rows[Newest(o)].gen)
      BY <1>1, <2>2 DEF IInv, JobIsNext
    <3>3. QED
      BY <3>1, <3>2 DEF Kept
  <2>3. QED
    BY <1>1, <2>1, <2>2 DEF JobIsNext
<1>6. CorruptOnlyIfCutShort'
  BY <1>1, <1>3, CorruptStays
<1>7. QED
  BY <1>2, <1>3, <1>4, <1>5, <1>6 DEF IInv, RowsInv

LEMMA WriteHeaderKeeps ==
  ASSUME IInv, WriteHeader
  PROVE  IInv'
<1>1. /\ pc = "header" /\ pc \in Writing /\ ~hung /\ RowPut(Headed(job.of, job.gen))
      /\ unfinished' = unfinished \cup {job.row}
      /\ pc' = "payload" /\ hung' = hung /\ settings' = settings /\ saved' = saved
      /\ corrupt' = corrupt /\ job' = job /\ failed' = failed /\ committed' = committed
      /\ crashes' = crashes
  BY DEF WriteHeader, RowPut, Writing, IInv, JobIsNext
<1>2. Types'
  BY <1>1, LeftTypes DEF IInv, Types, RowPut
<1>3. /\ RowsInv' /\ \A o \in Object : o # job.of => Kept(o)
      /\ \A o \in Object : o = job.of => Newest(o)' = job.row
  BY <1>1, <1>2, HeadsKeeps
<1>4. JobIsAsked' /\ SavedIsKey' /\ SavedUpToKey'
  BY <1>1 DEF IInv, JobIsAsked, SavedIsKey, SavedUpToKey, Writing
<1>5. JobIsNext'
  <2>1. rows'[job.row] = Headed(job.of, job.gen)
    BY <1>1, LeftTypes DEF RowPut, IInv, Types
  <2>2. QED
    BY <1>1, <1>3, <2>1 DEF JobIsNext
<1>6. CorruptOnlyIfCutShort'
  BY <1>1, <1>3, CorruptStays
<1>7. QED
  BY <1>2, <1>3, <1>4, <1>5, <1>6 DEF IInv, RowsInv

LEMMA WritePayloadKeeps ==
  ASSUME IInv, WritePayload
  PROVE  IInv'
<1> DEFINE left == [rows[job.row] EXCEPT !.data = job.value]
<1>1. /\ pc = "payload" /\ pc \in Writing /\ ~hung
      /\ rows' = [rows EXCEPT ![job.row].data = job.value] /\ legacyAt' = legacyAt
      /\ unfinished' = unfinished \ {job.row}
      /\ committed' = [committed EXCEPT ![job.of] = job.value]
      /\ failed' \in BOOLEAN
      /\ pc' = Resume /\ job' = NoJob /\ hung' = hung /\ settings' = settings /\ saved' = saved
      /\ corrupt' = corrupt /\ crashes' = crashes
  BY DEF WritePayload, Writing, IInv, JobIsNext, Types
<1>2. RowPut(left)
  BY <1>1 DEF RowPut
<1>3. /\ job.value \in Payload(job.of) \cup {None} /\ job.of \in Object
      /\ job.of = Crc => job.value = Signature
      /\ job.of = Settings => job.value = settings
  BY <1>1, PayloadIs DEF IInv, JobIsAsked, Types, Object
<1>4. Types'
  <2>1. /\ rows' \in [Row -> RowType] /\ unfinished' \subseteq Row
    BY <1>1, <1>2, <1>3, LeftTypes DEF IInv, Types, RowPut
  <2>2. /\ committed' \in [Object -> Payload(Crc) \cup Payload(Settings) \cup {None}]
        /\ committed'[Crc] \in {Signature, None}
        /\ committed'[Settings] \in SettingsValue \cup {None}
    <3>1. job.value \in Payload(Crc) \cup Payload(Settings) \cup {None}
      BY <1>3 DEF Object
    <3>2. QED
      BY <1>1, <1>3, <3>1, Constants DEF IInv, Types, Object
  <2>3. QED
    BY <1>1, <2>1, <2>2 DEF IInv, Types
<1>5. left.head = job.of /\ left.gen = job.gen /\ left.data = job.value
  BY <1>1, <1>3, LeftTypes
<1>6. /\ RowsInv' /\ \A o \in Object : o # job.of => Kept(o)
      /\ \A o \in Object : o = job.of => Newest(o)' = job.row
      /\ rows'[job.row] = left
  <2>1. unfinished' \ {job.row} = unfinished \ {job.row}
    BY <1>1
  <2> HIDE DEF left
  <2>2. QED
    BY <1>1, <1>2, <1>3, <1>4, <1>5, <2>1, PayloadKeeps
<1>7. JobIsAsked' /\ JobIsNext'
  BY <1>1 DEF JobIsAsked, JobIsNext, Resume, Writing
<1>8. SavedIsKey'
  <2>1. pc' = "awake" => job.of = Settings
    BY <1>1, <1>3 DEF Resume, Object
  <2>2. job.of = Settings => saved = Key(settings)
    BY <1>1 DEF IInv, SavedIsKey
  <2>3. pc' \notin Writing
    BY <1>1 DEF Resume, Writing
  <2>4. QED
    BY <1>1, <2>1, <2>2, <2>3 DEF SavedIsKey
<1>9. SavedUpToKey'
  <2>1. SUFFICES ASSUME pc' = "awake"
                 PROVE  Stored(Settings)' = settings /\ settings # None
    BY <1>1 DEF SavedUpToKey
  <2>2. job.of = Settings
    BY <1>1, <1>3, <2>1 DEF Resume, Object
  <2>3. Newest(Settings)' = job.row /\ job.row # None /\ rows'[job.row].data = settings
    BY <1>1, <1>3, <1>5, <1>6, <2>2, LeftTypes, Constants
  <2>4. QED
    BY <2>3, Constants DEF Stored, IInv, Types
<1>10. CorruptOnlyIfCutShort'
  BY <1>1, <1>6, CorruptStays
<1>11. QED
  BY <1>4, <1>6, <1>7, <1>8, <1>9, <1>10 DEF IInv, RowsInv

(* An operation cut short leaves its row as it was, cleared, or under the  *)
(* header of a record that counts as unfinished.                           *)
LEMMA CutShortLeaves ==
  ASSUME IInv, CutShort
  PROVE  /\ pc \in Writing /\ ~hung /\ job' = NoJob /\ committed' = committed
         /\ crashes' \in 0 .. MaxCrashes /\ unfinished' \subseteq Row
         /\ \E left \in RowType :
              /\ RowPut(left)
              /\ \/ /\ pc \in {"erase", "header"} /\ left \in {rows[job.row], Erased, Torn}
                    /\ unfinished' \in {unfinished, unfinished \ {job.row}}
                 \/ /\ pc = "header" /\ left = Headed(job.of, job.gen)
                    /\ unfinished' = unfinished \cup {job.row}
                 \/ /\ pc = "payload" /\ left.head = job.of /\ left.gen = job.gen
                    /\ left.data \in Payload(job.of) \cup {None}
                    /\ unfinished' = unfinished /\ job.row \in unfinished
<1>1. /\ pc \in Writing /\ ~hung /\ job' = NoJob /\ committed' = committed /\ legacyAt' = legacyAt
      /\ crashes < MaxCrashes /\ crashes' = crashes + 1
  BY DEF CutShort, Writing
<1>2. PICK left \in Partial :
        /\ RowPut(left)
        /\ unfinished' = IF left = rows[job.row] THEN unfinished
                         ELSE IF left.head = job.of THEN unfinished \cup {job.row}
                         ELSE unfinished \ {job.row}
  BY <1>1 DEF CutShort, RowPut
<1>3. crashes' \in 0 .. MaxCrashes
  BY <1>1, WearStorageAssumption DEF IInv, Types, WearStorageAssumption
<1>4. /\ job.of \in Object /\ job.row \in Row /\ unfinished \subseteq Row
      /\ pc = "header" => rows[job.row] = Erased
      /\ pc = "payload" => rows[job.row] = Headed(job.of, job.gen) /\ job.row \in unfinished
  BY <1>1, LeftTypes DEF IInv, Types, JobIsNext
<1>5. job.of \notin {"blank", "torn"}
  BY <1>4, Constants
<1>6. unfinished' \subseteq Row
  BY <1>2, <1>4
<1>7. CASE pc = "erase"
  <2>1. left \in {rows[job.row], Erased, Torn}
    BY <1>2, <1>7 DEF Partial
  <2>2. left \in RowType
    BY <1>1, <2>1, LeftTypes
  <2>3. unfinished' \in {unfinished, unfinished \ {job.row}}
    BY <1>2, <1>5, <2>1 DEF Erased, Torn
  <2>4. QED
    BY <1>1, <1>2, <1>3, <1>6, <1>7, <2>1, <2>2, <2>3
<1>8. CASE pc = "header"
  <2>1. left \in {Erased, Torn, Headed(job.of, job.gen)}
    BY <1>2, <1>8 DEF Partial
  <2>2. left \in RowType
    BY <1>1, <2>1, LeftTypes
  <2>3. CASE left \in {Erased, Torn}
    <3>1. unfinished' \in {unfinished, unfinished \ {job.row}}
      BY <1>2, <1>5, <2>3 DEF Erased, Torn
    <3>2. QED
      BY <1>1, <1>2, <1>3, <1>6, <1>8, <2>2, <2>3, <3>1
  <2>4. CASE left = Headed(job.of, job.gen)
    <3>1. unfinished' = unfinished \cup {job.row}
      BY <1>2, <1>4, <1>5, <1>8, <2>4 DEF Headed, Erased
    <3>2. QED
      BY <1>1, <1>2, <1>3, <1>6, <1>8, <2>2, <2>4, <3>1
  <2>5. QED
    BY <2>1, <2>3, <2>4
<1>9. CASE pc = "payload"
  <2>1. PICK d \in Payload(job.of) \cup {None} : left = [rows[job.row] EXCEPT !.data = d]
    BY <1>2, <1>9 DEF Partial
  <2>2. left \in RowType /\ left.head = job.of /\ left.gen = job.gen /\ left.data = d
    BY <1>1, <1>9, <2>1, LeftTypes
  <2>3. unfinished' = unfinished /\ job.row \in unfinished
    BY <1>2, <1>4, <1>9, <2>2
  <2>4. QED
    BY <1>1, <1>2, <1>3, <1>6, <1>9, <2>2, <2>3
<1>10. QED
  BY <1>1, <1>7, <1>8, <1>9 DEF Writing

LEMMA CutShortKeeps ==
  ASSUME IInv, CutShort, Types'
  PROVE  RowsInv' /\ \A o \in Object : o # job.of => Kept(o)
<1>1. pc \in Writing /\ ~hung /\ committed' = committed
  BY CutShortLeaves
<1>2. PICK left \in RowType :
        /\ RowPut(left)
        /\ \/ /\ pc \in {"erase", "header"} /\ left \in {rows[job.row], Erased, Torn}
              /\ unfinished' \in {unfinished, unfinished \ {job.row}}
           \/ /\ pc = "header" /\ left = Headed(job.of, job.gen)
              /\ unfinished' = unfinished \cup {job.row}
           \/ /\ pc = "payload" /\ left.head = job.of /\ left.gen = job.gen
              /\ left.data \in Payload(job.of) \cup {None}
              /\ unfinished' = unfinished /\ job.row \in unfinished
  BY CutShortLeaves
<1>3. unfinished' \ {job.row} = unfinished \ {job.row}
  BY <1>2
<1>4. CASE pc \in {"erase", "header"} /\ left \in {rows[job.row], Erased, Torn}
  BY <1>1, <1>2, <1>3, <1>4, ClearsKeeps
<1>5. CASE /\ pc = "header" /\ left = Headed(job.of, job.gen)
           /\ unfinished' = unfinished \cup {job.row}
  BY <1>1, <1>2, <1>5, HeadsKeeps
<1>6. CASE /\ pc = "payload" /\ left.head = job.of /\ left.gen = job.gen
           /\ left.data \in Payload(job.of) \cup {None} /\ job.row \in unfinished'
  BY <1>1, <1>2, <1>3, <1>6, PayloadKeeps
<1>7. QED
  BY <1>2, <1>4, <1>5, <1>6

LEMMA OperationFailsKeeps ==
  ASSUME IInv, OperationFails
  PROVE  IInv'
<1>1. /\ CutShort /\ hung' \in BOOLEAN /\ failed' = (failed \/ job.of = Settings)
      /\ pc' = Resume /\ settings' = settings /\ saved' = saved /\ corrupt' = corrupt
  BY DEF OperationFails
<1>2. /\ pc \in Writing /\ job' = NoJob /\ committed' = committed
      /\ crashes' \in 0 .. MaxCrashes /\ unfinished' \subseteq Row
      /\ \E left \in RowType : RowPut(left)
  BY <1>1, CutShortLeaves
<1>3. Types'
  <2>1. failed' \in BOOLEAN
    BY <1>1 DEF IInv, Types
  <2>2. QED
    BY <1>1, <1>2, <2>1, LeftTypes DEF IInv, Types, RowPut
<1>4. RowsInv' /\ \A o \in Object : o # job.of => Kept(o)
  BY <1>1, <1>3, CutShortKeeps
<1>5. job.of \in Object
  BY <1>2, LeftTypes
<1>6. JobIsAsked' /\ JobIsNext'
  BY <1>1, <1>2 DEF JobIsAsked, JobIsNext, Resume, Writing
<1>7. SavedIsKey' /\ SavedUpToKey'
  <2>1. pc' \in {"load", "awake"} /\ (pc' = "awake" => job.of = Settings)
    BY <1>1, <1>5 DEF Resume, Object
  <2>2. job.of = Settings => saved = Key(settings)
    BY <1>2 DEF IInv, SavedIsKey
  <2>3. QED
    BY <1>1, <2>1, <2>2 DEF SavedIsKey, SavedUpToKey, Writing
<1>8. CorruptOnlyIfCutShort'
  BY <1>1, <1>2, <1>4, CorruptStays
<1>9. QED
  BY <1>3, <1>4, <1>6, <1>7, <1>8 DEF IInv, RowsInv

LEMMA PowerFailsInWriteKeeps ==
  ASSUME IInv, PowerFailsInWrite
  PROVE  IInv'
<1>1. /\ CutShort /\ pc' = "check" /\ hung' = FALSE /\ settings' = Default
      /\ saved' = Key(Default) /\ corrupt' = FALSE /\ failed' = FALSE
  BY DEF PowerFailsInWrite, Reboot
<1>2. /\ pc \in Writing /\ job' = NoJob /\ committed' = committed
      /\ crashes' \in 0 .. MaxCrashes /\ unfinished' \subseteq Row
      /\ \E left \in RowType : RowPut(left)
  BY <1>1, CutShortLeaves
<1>3. Types'
  BY <1>1, <1>2, LeftTypes, DefaultIs, KeyValue DEF IInv, Types, RowPut
<1>4. RowsInv'
  BY <1>1, <1>3, CutShortKeeps
<1>5. JobIsAsked' /\ JobIsNext' /\ SavedIsKey' /\ SavedUpToKey' /\ CorruptOnlyIfCutShort'
  BY <1>1, <1>2 DEF JobIsAsked, JobIsNext, SavedIsKey, SavedUpToKey, CorruptOnlyIfCutShort,
                    Writing
<1>6. QED
  BY <1>3, <1>4, <1>5 DEF IInv, RowsInv

-----------------------------------------------------------------------------
LEMMA NextIInv == IInv /\ [Next]_vars => IInv'
<1> SUFFICES ASSUME IInv, [Next]_vars PROVE IInv'
  OBVIOUS
<1>1. CASE CheckImage
  BY <1>1, CheckImageKeeps
<1>2. CASE LoadSettings
  BY <1>2, LoadSettingsKeeps
<1>3. CASE Wake
  BY <1>3, WakeKeeps
<1>4. CASE EraseRow
  BY <1>4, EraseRowKeeps
<1>5. CASE WriteHeader
  BY <1>5, WriteHeaderKeeps
<1>6. CASE WritePayload
  BY <1>6, WritePayloadKeeps
<1>7. CASE EraseRefused
  BY <1>7, EraseRefusedKeeps
<1>8. CASE OperationFails
  BY <1>8, OperationFailsKeeps
<1>9. CASE PowerFailsInWrite
  BY <1>9, PowerFailsInWriteKeeps
<1>10. CASE ResetBetweenWrites
  BY <1>10, ResetBetweenWritesKeeps
<1>11. CASE ControllerHangs
  BY <1>11, ControllerHangsKeeps
<1>12. CASE UNCHANGED vars
  <2>1. RowsKept /\ UNCHANGED <<hung, pc, settings, saved, corrupt, job, failed, crashes>>
    BY <1>12 DEF vars, RowsKept
  <2>2. RowsInv' /\ \A o \in Object : Newest(o)' = Newest(o) /\ Stored(o)' = Stored(o)
    BY <2>1, RowsKeptKeeps DEF IInv, RowsInv
  <2>3. Types' /\ JobIsAsked' /\ SavedIsKey'
    BY <2>1 DEF IInv, Types, JobIsAsked, SavedIsKey, RowsKept
  <2>4. JobIsNext'
    BY <2>1, <2>2 DEF IInv, JobIsNext, RowsKept
  <2>5. SavedUpToKey' /\ CorruptOnlyIfCutShort'
    BY <2>1, <2>2 DEF IInv, SavedUpToKey, CorruptOnlyIfCutShort, RowsKept, Object
  <2>6. QED
    BY <2>2, <2>3, <2>4, <2>5 DEF IInv, RowsInv
<1>13. QED
  BY <1>1, <1>2, <1>3, <1>4, <1>5, <1>6, <1>7, <1>8, <1>9, <1>10, <1>11, <1>12 DEF Next

(* What the properties take from the invariant.                            *)
LEMMA InvariantTypes == IInv => TypeOK
<1> SUFFICES ASSUME IInv PROVE TypeOK
  OBVIOUS
<1>1. pc \in Step /\ job \in JobType
  BY DEF IInv, JobIsAsked, Writing, Step, JobType
<1>2. \A o \in Object : committed[o] \in Payload(o) \cup {None}
  BY PayloadIs DEF IInv, Types, Object
<1>3. QED
  BY <1>1, <1>2 DEF IInv, Types, TypeOK

LEMMA InvariantRotates == IInv => GenerationsFollowRotation
<1> SUFFICES ASSUME IInv, NEW o \in Object, Newest(o) # None
             PROVE  Leads(rows, o, Newest(o))
  BY DEF GenerationsFollowRotation, Leads
<1>1. QED
  BY NewestFacts DEF IInv

LEMMA InvariantReads == IInv => ReadsLastCommitted
<1> SUFFICES ASSUME IInv, NEW o \in Object, Newest(o) \notin unfinished
             PROVE  \/ Stored(o) = committed[o]
                    \/ o = Settings /\ LegacyErased /\ Stored(o) = None
  BY DEF ReadsLastCommitted
<1>1. CASE Newest(o) # None
  BY <1>1 DEF IInv, CommittedIsKept, Stored
<1>2. CASE Newest(o) = None /\ o = Crc
  <2>1. Stored(Crc) = None /\ committed[Crc] = None
    BY <1>2, Constants DEF IInv, CommittedIsKept, Stored
  <2>2. QED
    BY <1>2, <2>1
<1>3. CASE Newest(o) = None /\ o = Settings
  <2>1. Stored(o) = IF LegacyRow # None THEN rows[LegacyRow].data ELSE None
    BY <1>3 DEF Stored
  <2>2. LegacyRow # None => LegacyRow \in Row /\ rows[LegacyRow].head = "legacy"
    BY DEF LegacyRow
  <2>3. LegacyRow # None => LegacyRow = legacyAt
    BY <2>2 DEF IInv, RowsAreOwn
  <2>4. legacyAt # None /\ rows[legacyAt].head = "legacy" => LegacyRow # None
    <3>1. SUFFICES ASSUME legacyAt # None, rows[legacyAt].head = "legacy"
                   PROVE  LegacyRow # None
      OBVIOUS
    <3>2. legacyAt \in Row
      BY <3>1 DEF IInv, Types
    <3>3. LegacyRow \in Row
      BY <3>1, <3>2 DEF LegacyRow
    <3>4. QED
      BY <3>3, Constants
  <2>5. CASE legacyAt = None
    BY <1>3, <2>1, <2>3, <2>5 DEF IInv, LegacyIsKept
  <2>6. CASE /\ legacyAt # None /\ rows[legacyAt].head = "legacy"
             /\ rows[legacyAt].data = committed[Settings]
    BY <1>3, <2>1, <2>3, <2>4, <2>6
  <2>7. CASE /\ legacyAt # None /\ rows[legacyAt].head # "legacy"
             /\ legacyAt \in RowsOf(Crc) \cup {First(Settings)}
    BY <1>3, <2>1, <2>2, <2>3, <2>7 DEF LegacyErased
  <2>8. QED
    BY <1>3, <2>5, <2>6, <2>7 DEF IInv, LegacyIsKept
<1>4. QED
  BY <1>1, <1>2, <1>3 DEF Object

(* A complete newest record is never in the row being written: before its  *)
(* header is in place a write has the row after it, and once its own       *)
(* header is, the newest record is the unfinished one.                     *)
LEMMA NewestIsNotUnderWrite ==
  ASSUME IInv, pc \in Writing, ~hung, NEW o \in Object,
         Newest(o) # None, Newest(o) \notin unfinished
  PROVE  Newest(o) # job.row /\ Newest(o) \in Row
<1>1. /\ Types /\ Rotation /\ job.of \in Object /\ job.row \in RowsOf(job.of)
  BY DEF IInv, JobIsAsked
<1>2. Newest(o) \in RowsOf(o) /\ Newest(o) \in Row
  BY <1>1, NewestFacts, RowsAre
<1>3. CASE job.of # o
  BY <1>1, <1>2, <1>3, RowsAre DEF Object
<1>4. CASE job.of = o /\ pc \in {"erase", "header"}
  <2>1. job.row = NextRow(o, Newest(o))
    BY <1>4 DEF IInv, JobIsNext
  <2>2. QED
    BY <1>2, <2>1, NextRowValue
<1>5. CASE job.of = o /\ pc = "payload"
  BY <1>5 DEF IInv, JobIsNext
<1>6. QED
  BY <1>2, <1>3, <1>4, <1>5 DEF Writing

LEMMA NewestUntouched ==
  ASSUME IInv, [Next]_vars, NEW o \in Object, Newest(o) # None, Newest(o) \notin unfinished
  PROVE  rows'[Newest(o)] = rows[Newest(o)]
<1>1. CASE rows' = rows
  BY <1>1
<1>2. CASE EraseRow \/ WriteHeader \/ WritePayload
  <2>1. pc \in Writing /\ ~hung
    BY <1>2 DEF EraseRow, WriteHeader, WritePayload, Writing, IInv, JobIsNext
  <2>2. Newest(o) # job.row /\ Newest(o) \in Row /\ rows \in [Row -> RowType]
    BY <2>1, NewestIsNotUnderWrite DEF IInv, Types
  <2>3. QED
    BY <1>2, <2>2 DEF EraseRow, WriteHeader, WritePayload
<1>3. CASE CutShort
  <2>1. pc \in Writing /\ ~hung
    BY <1>3 DEF CutShort, Writing
  <2>2. Newest(o) # job.row /\ Newest(o) \in Row /\ rows \in [Row -> RowType]
    BY <2>1, NewestIsNotUnderWrite DEF IInv, Types
  <2>3. QED
    BY <1>3, <2>2 DEF CutShort
<1>4. QED
  BY <1>1, <1>2, <1>3 DEF Next, vars, CheckImage, LoadSettings, Wake, EraseRefused,
     OperationFails, PowerFailsInWrite, ResetBetweenWrites, ControllerHangs

-----------------------------------------------------------------------------
(* The strengthened invariant, from which the properties below follow.     *)
THEOREM StorageInvariant == Spec => []IInv
<1>1. Init => IInv
  BY InitIInv
<1>2. IInv /\ [Next]_vars => IInv'
  BY NextIInv
<1>3. QED
  BY <1>1, <1>2, PTL DEF Spec

(* Every row holds what one of the writers can have left in it, and a      *)
(* write never leaves the row area (wear_leveled_write_namespaced).        *)
THEOREM StorageTypes == Spec => []TypeOK
  BY StorageInvariant, InvariantTypes, PTL

(* The records of an object are numbered along its rotation, across the    *)
(* wrap of the generation counter, whatever writes are cut short: what     *)
(* generation_is_newer and find_last_entry rely on.                        *)
THEOREM RotationIsKept == Spec => []GenerationsFollowRotation
  BY StorageInvariant, InvariantRotates, PTL

(* Unless the payload of the newest record was cut short, a read returns   *)
(* the last payload written completely, or nothing where the legacy record *)
(* was erased (wear_leveled_read_namespaced).                              *)
THEOREM ReadsAreLast == Spec => []ReadsLastCommitted
  BY StorageInvariant, InvariantReads, PTL

(* Between wakes the stored settings agree with those in RAM as far as     *)
(* save_settings can tell them apart.                                      *)
THEOREM SettingsAreSaved == Spec => []SavedUpToKey
<1>1. IInv => SavedUpToKey
  BY DEF IInv
<1>2. QED
  BY <1>1, StorageInvariant, PTL

(* check_firmware_integrity records a corrupt image only after a write of  *)
(* the signature was cut short: the image itself does not rot here.        *)
THEOREM CorruptMeansCutShort == Spec => []CorruptOnlyIfCutShort
<1>1. IInv => CorruptOnlyIfCutShort
  BY DEF IInv
<1>2. QED
  BY <1>1, StorageInvariant, PTL

(* No step, complete or cut short, touches a complete newest record.       *)
THEOREM NewestRecordIsKept == Spec => NewestIsKept
<1> DEFINE Untouched == \A o \in Object : Newest(o) # None /\ Newest(o) \notin unfinished =>
                          rows'[Newest(o)] = rows[Newest(o)]
<1>1. IInv /\ [Next]_vars => [Untouched]_vars
  BY NewestUntouched
<1>2. QED
  BY <1>1, StorageInvariant, PTL DEF Spec, NewestIsKept
=============================================================================
