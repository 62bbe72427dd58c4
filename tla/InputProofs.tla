------------------------------ MODULE InputProofs ------------------------------
(***************************************************************************)
(* Proofs about the way an input takes.  The event ring, for every         *)
(* capacity and every set of events: its type invariant, that it always    *)
(* holds the newest events in posting order, and that it implements the    *)
(* bounded drop-oldest queue EventFifo.  One button, for every number of   *)
(* samples, every length of a long press, every width of the tick counter  *)
(* and every idle limit: its types, that the fast tick is suspended only   *)
(* while nobody holds the button, that its events come in order, and that  *)
(* a long press is reported when it is due.                                *)
(***************************************************************************)
EXTENDS EventQueue, Buttons, SequenceTheorems, TLAPS

-----------------------------------------------------------------------------
(* The event queue.                                                        *)

(* Ring arithmetic without the modulus: one step of Ahead wraps at most    *)
(* once because a slot and a length never exceed Capacity together.        *)
LEMMA AheadValue ==
  ASSUME NEW s \in Slot, NEW n \in 0 .. Capacity
  PROVE  /\ Ahead(s, n) = IF s + n < Capacity THEN s + n ELSE s + n - Capacity
         /\ Ahead(s, n) \in Slot
<1>1. Ahead(s, n) = IF s + n < Capacity THEN s + n ELSE s + n - Capacity
  BY EventQueueAssumption DEF Ahead, Slot
<1>2. QED
  BY <1>1, EventQueueAssumption DEF Slot

(* Distinct distances below Capacity reach distinct slots.                 *)
LEMMA AheadInjective ==
  ASSUME NEW s \in Slot, NEW m \in 0 .. Capacity - 1, NEW n \in 0 .. Capacity - 1,
         Ahead(s, m) = Ahead(s, n)
  PROVE  m = n
<1>1. m \in 0 .. Capacity /\ n \in 0 .. Capacity
  BY EventQueueAssumption
<1>2. /\ Ahead(s, m) = IF s + m < Capacity THEN s + m ELSE s + m - Capacity
      /\ Ahead(s, n) = IF s + n < Capacity THEN s + n ELSE s + n - Capacity
  BY <1>1, AheadValue
<1>3. (IF s + m < Capacity THEN s + m ELSE s + m - Capacity)
        = (IF s + n < Capacity THEN s + n ELSE s + n - Capacity)
  BY <1>2
<1>4. QED
  BY <1>3, EventQueueAssumption DEF Slot

(* Walking from the slot after s is walking one further from s.            *)
LEMMA AheadShift ==
  ASSUME NEW s \in Slot, NEW n \in 0 .. Capacity - 1
  PROVE  Ahead(Ahead(s, 1), n) = Ahead(s, n + 1)
<1>1. 1 \in 0 .. Capacity /\ n \in 0 .. Capacity /\ n + 1 \in 0 .. Capacity
  BY EventQueueAssumption
<1>2. /\ Ahead(s, 1) = IF s + 1 < Capacity THEN s + 1 ELSE s + 1 - Capacity
      /\ Ahead(s, 1) \in Slot
  BY <1>1, AheadValue
<1>3. /\ Ahead(Ahead(s, 1), n) = IF Ahead(s, 1) + n < Capacity
                                  THEN Ahead(s, 1) + n
                                  ELSE Ahead(s, 1) + n - Capacity
      /\ Ahead(s, n + 1) = IF s + (n + 1) < Capacity
                            THEN s + (n + 1) ELSE s + (n + 1) - Capacity
  BY <1>1, <1>2, AheadValue
<1>4. QED
  BY <1>2, <1>3, EventQueueAssumption DEF Slot

-----------------------------------------------------------------------------
(* Every slot index, length and queued value stays in range.               *)
THEOREM EventQueueTypes == QueueSpec => []QueueTypeOK
<1>1. QueueInit => QueueTypeOK
  BY EventQueueAssumption DEF QueueInit, QueueTypeOK, Slot
<1>2. QueueTypeOK /\ [QueueNext]_queueVars => QueueTypeOK'
  <2> SUFFICES ASSUME QueueTypeOK, [QueueNext]_queueVars PROVE QueueTypeOK'
    OBVIOUS
  <2> USE EventQueueAssumption DEF QueueTypeOK
  <2>1. ASSUME NEW e \in Event, PostWithRoom(e) PROVE QueueTypeOK'
    <3>1. Ahead(head, len) \in Slot
      BY <2>1, AheadValue DEF PostWithRoom
    <3>2. QED
      BY <2>1, <3>1 DEF PostWithRoom
  <2>2. ASSUME NEW e \in Event, PostOverOldest(e) PROVE QueueTypeOK'
    <3>1. head' \in Slot
      BY <2>2, AheadValue DEF PostOverOldest
    <3>2. Ahead(head', len - 1) \in Slot
      BY <2>2, <3>1, AheadValue DEF PostOverOldest
    <3>3. QED
      BY <2>2, <3>1, <3>2 DEF PostOverOldest
  <2>3. CASE TakeEmpty
    BY <2>3 DEF TakeEmpty
  <2>4. CASE TakeHead
    <3>1. head' \in Slot
      BY <2>4, AheadValue DEF TakeHead
    <3>2. QED
      BY <2>4, <3>1 DEF TakeHead
  <2>5. CASE UNCHANGED queueVars
    BY <2>5 DEF queueVars
  <2>6. QED
    BY <2>1, <2>2, <2>3, <2>4, <2>5 DEF QueueNext, Post, Take
<1>3. QED
  BY <1>1, <1>2, PTL DEF QueueSpec

-----------------------------------------------------------------------------
(* Every slot is some distance below Capacity ahead of every other one.    *)
LEMMA AheadSurjective ==
  ASSUME NEW s \in Slot, NEW t \in Slot
  PROVE  \E n \in 0 .. Capacity - 1 : t = Ahead(s, n)
<1> DEFINE n == IF t >= s THEN t - s ELSE t - s + Capacity
<1>1. n \in 0 .. Capacity - 1 /\ n \in 0 .. Capacity
  BY EventQueueAssumption DEF Slot
<1>2. Ahead(s, n) = IF s + n < Capacity THEN s + n ELSE s + n - Capacity
  BY <1>1, AheadValue
<1>3. t = Ahead(s, n)
  BY <1>2, EventQueueAssumption DEF Slot
<1>4. QED
  BY <1>1, <1>3

(* A slot is occupied exactly when its event is queued: take_event never   *)
(* meets an empty slot while events remain, and no stale event stays in a  *)
(* slot it has given up.                                                   *)
THEOREM NoStaleSlot == QueueSpec => []OccupiedIsQueued
<1>1. QueueInit => OccupiedIsQueued
  BY DEF QueueInit, OccupiedIsQueued
<1>2. QueueTypeOK /\ OccupiedIsQueued /\ [QueueNext]_queueVars => OccupiedIsQueued'
  <2> SUFFICES ASSUME QueueTypeOK, OccupiedIsQueued, [QueueNext]_queueVars, NEW s \in Slot
               PROVE  slots'[s] # Empty
                        <=> \E i \in 0 .. len' - 1 : s = Ahead(head', i)
    BY DEF OccupiedIsQueued
  <2> USE EventQueueAssumption DEF QueueTypeOK
  <2>0. slots[s] # Empty <=> \E i \in 0 .. len - 1 : s = Ahead(head, i)
    BY DEF OccupiedIsQueued
  <2>1. ASSUME NEW e \in Event, PostWithRoom(e)
        PROVE  slots'[s] # Empty <=> \E i \in 0 .. len' - 1 : s = Ahead(head', i)
    <3>1. head' = head /\ len' = len + 1
      BY <2>1 DEF PostWithRoom
    <3>2. slots'[s] = IF s = Ahead(head, len) THEN e ELSE slots[s]
      BY <2>1 DEF PostWithRoom
    <3>3. (\E i \in 0 .. len' - 1 : s = Ahead(head', i))
            <=> (s = Ahead(head, len) \/ \E i \in 0 .. len - 1 : s = Ahead(head, i))
      BY <3>1
    <3>4. QED
      BY <2>0, <3>2, <3>3
  <2>2. ASSUME NEW e \in Event, PostOverOldest(e)
        PROVE  slots'[s] # Empty <=> \E i \in 0 .. len' - 1 : s = Ahead(head', i)
    <3>1. len' = Capacity /\ head' \in Slot
      BY <2>2, AheadValue DEF PostOverOldest
    <3>2. \E i \in 0 .. len - 1 : s = Ahead(head, i)
      BY <2>2, AheadSurjective DEF PostOverOldest
    <3>3. \E i \in 0 .. len' - 1 : s = Ahead(head', i)
      BY <3>1, AheadSurjective
    <3>4. slots'[s] # Empty
      BY <2>0, <2>2, <3>2 DEF PostOverOldest
    <3>5. QED
      BY <3>3, <3>4
  <2>3. CASE TakeEmpty
    BY <2>0, <2>3 DEF TakeEmpty
  <2>4. CASE TakeHead
    <3>1. head' = Ahead(head, 1) /\ len' = len - 1 /\ len > 0
      BY <2>4 DEF TakeHead
    <3>2. slots'[s] = IF s = head THEN Empty ELSE slots[s]
      BY <2>4 DEF TakeHead
    <3>3. head = Ahead(head, 0)
      BY AheadValue DEF Slot
    <3>4. \A i \in 0 .. len' - 1 :
            /\ i + 1 \in 0 .. len - 1
            /\ Ahead(head', i) = Ahead(head, i + 1)
      BY <3>1, AheadShift
    <3>5. CASE s = head
      <4>1. \A i \in 0 .. len' - 1 : s # Ahead(head', i)
        <5> SUFFICES ASSUME NEW i \in 0 .. len' - 1, s = Ahead(head', i)
                     PROVE  FALSE
          OBVIOUS
        <5>1. Ahead(head, 0) = Ahead(head, i + 1)
          BY <3>3, <3>4, <3>5
        <5>2. 0 \in 0 .. Capacity - 1 /\ i + 1 \in 0 .. Capacity - 1
          BY <3>4
        <5>3. 0 = i + 1
          BY <5>1, <5>2, AheadInjective
        <5>4. QED
          BY <5>3
      <4>2. QED
        BY <3>2, <3>5, <4>1
    <3>6. CASE s # head
      <4>1. (\E i \in 0 .. len - 1 : s = Ahead(head, i))
              => \E i \in 0 .. len' - 1 : s = Ahead(head', i)
        <5> SUFFICES ASSUME NEW i \in 0 .. len - 1, s = Ahead(head, i)
                     PROVE  \E j \in 0 .. len' - 1 : s = Ahead(head', j)
          OBVIOUS
        <5>1. i # 0
          BY <3>3, <3>6
        <5>2. i - 1 \in 0 .. len' - 1 /\ (i - 1) + 1 = i
          BY <3>1, <5>1
        <5>3. Ahead(head', i - 1) = Ahead(head, (i - 1) + 1)
          BY <3>4, <5>2
        <5>4. QED
          BY <5>2, <5>3
      <4>2. QED
        BY <2>0, <3>2, <3>4, <3>6, <4>1
    <3>7. QED
      BY <3>5, <3>6
  <2>5. CASE UNCHANGED queueVars
    BY <2>0, <2>5 DEF queueVars
  <2>6. QED
    BY <2>1, <2>2, <2>3, <2>4, <2>5 DEF QueueNext, Post, Take
<1>3. QED
  BY <1>1, <1>2, EventQueueTypes, PTL DEF QueueSpec

-----------------------------------------------------------------------------
(* The ring holds the newest len events in posting order.  HoldsNewest is  *)
(* inductive on its own once the types are known.                          *)
THEOREM NewestInOrder == QueueSpec => []HoldsNewest
<1>1. QueueInit => HoldsNewest
  BY DEF QueueInit, HoldsNewest
<1>2. QueueTypeOK /\ HoldsNewest /\ [QueueNext]_queueVars => HoldsNewest'
  <2> SUFFICES ASSUME QueueTypeOK, HoldsNewest, [QueueNext]_queueVars PROVE HoldsNewest'
    OBVIOUS
  <2> USE EventQueueAssumption DEF QueueTypeOK, HoldsNewest
  <2>1. ASSUME NEW e \in Event, PostWithRoom(e) PROVE HoldsNewest'
    <3>1. len' \in Nat /\ len' <= Len(log')
      BY <2>1 DEF PostWithRoom
    <3>2. ASSUME NEW i \in 1 .. len'
          PROVE  slots'[Ahead(head', i - 1)] = log'[Len(log') - len' + i]
      <4>1. CASE i = len'
        <5>1. Ahead(head, len) \in Slot
          BY <2>1, AheadValue DEF PostWithRoom
        <5>2. QED
          BY <2>1, <4>1, <5>1 DEF PostWithRoom
      <4>2. CASE i <= len
        <5>1. Ahead(head, i - 1) \in Slot /\ Ahead(head, len) # Ahead(head, i - 1)
          BY <2>1, <4>2, AheadValue, AheadInjective DEF PostWithRoom
        <5>2. QED
          BY <2>1, <4>2, <5>1 DEF PostWithRoom
      <4>3. QED
        BY <2>1, <4>1, <4>2 DEF PostWithRoom
    <3>3. QED
      BY <3>1, <3>2
  <2>2. ASSUME NEW e \in Event, PostOverOldest(e) PROVE HoldsNewest'
    <3>1. len' = Capacity /\ len' <= Len(log') /\ head' = Ahead(head, 1) /\ head' \in Slot
      BY <2>2, AheadValue DEF PostOverOldest
    <3>2. ASSUME NEW i \in 1 .. Capacity
          PROVE  slots'[Ahead(head', i - 1)] = log'[Len(log') - len' + i]
      <4>1. Ahead(head', i - 1) \in Slot /\ Ahead(head', Capacity - 1) \in Slot
        BY <3>1, AheadValue
      <4>2. CASE i = Capacity
        BY <2>2, <3>1, <4>1, <4>2 DEF PostOverOldest
      <4>3. CASE i < Capacity
        <5>1. Ahead(head', i - 1) # Ahead(head', Capacity - 1)
          BY <3>1, <4>3, AheadInjective
        <5>2. Ahead(head', i - 1) = Ahead(head, i)
          BY <3>1, <4>3, AheadShift
        <5>3. slots[Ahead(head, i)] = log[Len(log) - Capacity + i + 1]
          <6>1. len = Capacity
            BY <2>2 DEF PostOverOldest
          <6>2. i + 1 \in 1 .. len /\ (i + 1) - 1 = i
            BY <4>3, <6>1
          <6>3. slots[Ahead(head, (i + 1) - 1)] = log[Len(log) - len + (i + 1)]
            BY <6>2
          <6>4. Len(log) - len + (i + 1) = Len(log) - Capacity + i + 1
            BY <6>1
          <6>5. QED
            BY <6>2, <6>3, <6>4
        <5>4. QED
          BY <2>2, <3>1, <4>1, <4>3, <5>1, <5>2, <5>3 DEF PostOverOldest
      <4>4. QED
        BY <4>2, <4>3
    <3>3. QED
      BY <3>1, <3>2
  <2>3. CASE TakeEmpty
    BY <2>3 DEF TakeEmpty
  <2>4. CASE TakeHead
    <3>1. len' \in Nat /\ len' <= Len(log') /\ head' = Ahead(head, 1)
      BY <2>4 DEF TakeHead
    <3>2. ASSUME NEW i \in 1 .. len'
          PROVE  slots'[Ahead(head', i - 1)] = log'[Len(log') - len' + i]
      <4>1. Ahead(head', i - 1) = Ahead(head, i) /\ Ahead(head, i) \in Slot
        BY <2>4, <3>1, AheadShift, AheadValue DEF TakeHead
      <4>2. Ahead(head, i) # head
        BY <2>4, AheadValue, AheadInjective DEF TakeHead, Slot
      <4>3. slots[Ahead(head, i)] = log[Len(log) - len + (i + 1)]
        <5>1. i + 1 \in 1 .. len /\ (i + 1) - 1 = i
          BY <2>4 DEF TakeHead
        <5>2. QED
          BY <5>1
      <4>4. QED
        BY <2>4, <4>1, <4>2, <4>3 DEF TakeHead
    <3>3. QED
      BY <3>1, <3>2
  <2>5. CASE UNCHANGED queueVars
    BY <2>5 DEF queueVars
  <2>6. QED
    BY <2>1, <2>2, <2>3, <2>4, <2>5 DEF QueueNext, Post, Take
<1>3. QED
  BY <1>1, <1>2, EventQueueTypes, PTL DEF QueueSpec

-----------------------------------------------------------------------------
(* Append and Tail as functions, the form in which Queued is written.      *)
LEMMA AppendAsFunction ==
  ASSUME NEW S, NEW s \in Seq(S), NEW e \in S
  PROVE  Append(s, e) = [i \in 1 .. Len(s) + 1 |-> IF i = Len(s) + 1 THEN e ELSE s[i]]
<1> DEFINE f == [i \in 1 .. Len(s) + 1 |-> IF i = Len(s) + 1 THEN e ELSE s[i]]
<1>1. Len(s) + 1 \in Nat
  OBVIOUS
<1>2. f \in [1 .. Len(s) + 1 -> S]
  OBVIOUS
<1>3. f \in Seq(S) /\ Len(f) = Len(s) + 1
  BY <1>1, <1>2
<1>4. /\ Append(s, e) \in Seq(S)
      /\ Len(Append(s, e)) = Len(s) + 1
      /\ \A i \in 1 .. Len(s) + 1 : Append(s, e)[i] = IF i <= Len(s) THEN s[i] ELSE e
  BY AppendProperties
<1>5. \A i \in 1 .. Len(f) : f[i] = Append(s, e)[i]
  BY <1>3, <1>4
<1> HIDE DEF f
<1>6. f = Append(s, e)
  BY <1>3, <1>4, <1>5, SeqEqual
<1>7. QED
  BY <1>6 DEF f

LEMMA TailAsFunction ==
  ASSUME NEW S, NEW s \in Seq(S), s # <<>>
  PROVE  Tail(s) = [i \in 1 .. Len(s) - 1 |-> s[i + 1]]
<1> DEFINE f == [i \in 1 .. Len(s) - 1 |-> s[i + 1]]
<1>1. Len(s) - 1 \in Nat
  BY EmptySeq
<1>2. f \in [1 .. Len(s) - 1 -> S]
  OBVIOUS
<1>3. f \in Seq(S) /\ Len(f) = Len(s) - 1
  BY <1>1, <1>2
<1>4. /\ Tail(s) \in Seq(S)
      /\ Len(Tail(s)) = Len(s) - 1
      /\ \A i \in 1 .. Len(Tail(s)) : Tail(s)[i] = s[i + 1]
  BY HeadTailProperties
<1>5. \A i \in 1 .. Len(f) : f[i] = Tail(s)[i]
  BY <1>3, <1>4
<1> HIDE DEF f
<1>6. f = Tail(s)
  BY <1>3, <1>4, <1>5, SeqEqual
<1>7. QED
  BY <1>6 DEF f

(* What the ring shows of itself is a sequence of len events.              *)
LEMMA QueuedIsSequence ==
  ASSUME QueueTypeOK, HoldsNewest
  PROVE  Queued \in Seq(Event) /\ Len(Queued) = len
<1>1. ASSUME NEW i \in 1 .. len PROVE slots[Ahead(head, i - 1)] \in Event
  <2>1. Len(log) - len + i \in 1 .. Len(log)
    BY DEF QueueTypeOK, HoldsNewest
  <2>2. log[Len(log) - len + i] \in Event
    BY <2>1 DEF QueueTypeOK
  <2>3. QED
    BY <2>2 DEF HoldsNewest
<1>2. Queued \in [1 .. len -> Event] /\ len \in Nat
  BY <1>1, EventQueueAssumption DEF Queued, QueueTypeOK
<1>3. QED
  BY <1>2

(* Posting appends to the queued events while there is room.               *)
LEMMA PostAppends ==
  ASSUME QueueTypeOK, HoldsNewest, NEW e \in Event, PostWithRoom(e)
  PROVE  Queued' = Append(Queued, e)
<1> USE EventQueueAssumption DEF QueueTypeOK
<1>1. Queued \in Seq(Event) /\ Len(Queued) = len
  BY QueuedIsSequence
<1>2. len' = len + 1 /\ head' = head /\ Ahead(head, len) \in Slot
  BY AheadValue DEF PostWithRoom
<1>3. ASSUME NEW i \in 1 .. len + 1
      PROVE  slots'[Ahead(head, i - 1)] = IF i = len + 1 THEN e ELSE Queued[i]
  <2>1. CASE i = len + 1
    BY <1>2, <2>1 DEF PostWithRoom
  <2>2. CASE i <= len
    <3>1. Ahead(head, i - 1) \in Slot /\ Ahead(head, len) # Ahead(head, i - 1)
      BY <2>2, AheadValue, AheadInjective DEF PostWithRoom
    <3>2. QED
      BY <1>2, <2>2, <3>1 DEF PostWithRoom, Queued
  <2>3. QED
    BY <2>1, <2>2
<1>4. Queued' = [i \in 1 .. len + 1 |-> IF i = len + 1 THEN e ELSE Queued[i]]
  BY <1>2, <1>3 DEF Queued
<1>5. Append(Queued, e) = [i \in 1 .. len + 1 |-> IF i = len + 1 THEN e ELSE Queued[i]]
  BY <1>1, AppendAsFunction
<1>6. QED
  BY <1>4, <1>5

(* Posting over a full ring drops the oldest event and appends the new one. *)
LEMMA PostReplacesOldest ==
  ASSUME QueueTypeOK, HoldsNewest, NEW e \in Event, PostOverOldest(e)
  PROVE  Queued' = Append(Tail(Queued), e)
<1> USE EventQueueAssumption DEF QueueTypeOK
<1>1. Queued \in Seq(Event) /\ Len(Queued) = Capacity /\ len = Capacity
  BY QueuedIsSequence DEF PostOverOldest
<1>2. len' = Capacity /\ head' = Ahead(head, 1) /\ head' \in Slot
  BY AheadValue DEF PostOverOldest
<1>3. Ahead(head', Capacity - 1) \in Slot
  BY <1>2, AheadValue
<1>4. ASSUME NEW i \in 1 .. Capacity
      PROVE  slots'[Ahead(head', i - 1)] = IF i = Capacity THEN e ELSE Queued[i + 1]
  <2>1. CASE i = Capacity
    BY <1>2, <1>3, <2>1 DEF PostOverOldest
  <2>2. CASE i < Capacity
    <3>1. Ahead(head', i - 1) \in Slot /\ Ahead(head', i - 1) # Ahead(head', Capacity - 1)
      BY <1>2, <2>2, AheadValue, AheadInjective
    <3>2. Ahead(head', i - 1) = Ahead(head, i)
      BY <1>2, <2>2, AheadShift
    <3>3. i + 1 \in 1 .. len /\ (i + 1) - 1 = i
      BY <1>1, <2>2
    <3>4. Queued[i + 1] = slots[Ahead(head, i)]
      BY <3>3 DEF Queued
    <3>5. QED
      BY <1>2, <1>3, <2>2, <3>1, <3>2, <3>4 DEF PostOverOldest
  <2>3. QED
    BY <2>1, <2>2
<1>5. Queued' = [i \in 1 .. Capacity |-> IF i = Capacity THEN e ELSE Queued[i + 1]]
  BY <1>2, <1>4 DEF Queued
<1>6. /\ Tail(Queued) = [i \in 1 .. Capacity - 1 |-> Queued[i + 1]]
      /\ Tail(Queued) \in Seq(Event)
      /\ Len(Tail(Queued)) = Capacity - 1
  <2>1. Queued # <<>>
    BY <1>1
  <2>2. QED
    BY <1>1, <2>1, TailAsFunction, HeadTailProperties
<1>7. Append(Tail(Queued), e)
        = [i \in 1 .. Capacity |-> IF i = Capacity THEN e ELSE Tail(Queued)[i]]
  <2>1. Append(Tail(Queued), e)
          = [i \in 1 .. Len(Tail(Queued)) + 1 |->
               IF i = Len(Tail(Queued)) + 1 THEN e ELSE Tail(Queued)[i]]
    <3> DEFINE t == Tail(Queued)
    <3>1. t \in Seq(Event)
      BY <1>6
    <3> HIDE DEF t, QueueTypeOK
    <3>2. Append(t, e) = [i \in 1 .. Len(t) + 1 |-> IF i = Len(t) + 1 THEN e ELSE t[i]]
      BY <3>1, AppendAsFunction
    <3>3. QED
      BY <3>2 DEF t
  <2>2. Len(Tail(Queued)) + 1 = Capacity
    BY <1>6
  <2>3. QED
    BY <2>1, <2>2
<1>8. \A i \in 1 .. Capacity - 1 : Tail(Queued)[i] = Queued[i + 1]
  BY <1>6
<1>9. Append(Tail(Queued), e)
        = [i \in 1 .. Capacity |-> IF i = Capacity THEN e ELSE Queued[i + 1]]
  BY <1>7, <1>8
<1>10. QED
  BY <1>5, <1>9

(* Taking hands out the oldest event and leaves the others as they were.   *)
LEMMA TakeRemovesOldest ==
  ASSUME QueueTypeOK, HoldsNewest, TakeHead
  PROVE  Queued # <<>> /\ taken' = Head(Queued) /\ Queued' = Tail(Queued)
<1> USE EventQueueAssumption DEF QueueTypeOK
<1>1. Queued \in Seq(Event) /\ Len(Queued) = len /\ len > 0
  BY QueuedIsSequence DEF TakeHead
<1>2. Queued[1] = slots[head] /\ Queued[1] \in Event
  <2>1. Ahead(head, 0) = head
    BY AheadValue DEF Slot
  <2>2. QED
    BY <1>1, <2>1 DEF Queued
<1>3. taken' = Head(Queued)
  BY <1>1, <1>2 DEF TakeHead
<1>4. ASSUME NEW i \in 1 .. len - 1
      PROVE  slots'[Ahead(head', i - 1)] = Queued[i + 1]
  <2>1. Ahead(head', i - 1) = Ahead(head, i) /\ Ahead(head, i) \in Slot
    BY <1>1, AheadShift, AheadValue DEF TakeHead
  <2>2. Ahead(head, i) # head
    BY <1>1, AheadValue, AheadInjective DEF Slot
  <2>3. i + 1 \in 1 .. len /\ (i + 1) - 1 = i
    BY <1>1
  <2>4. Queued[i + 1] = slots[Ahead(head, i)]
    BY <2>3 DEF Queued
  <2>5. QED
    BY <1>1, <2>1, <2>2, <2>4 DEF TakeHead
<1>5. Queued' = [i \in 1 .. len - 1 |-> Queued[i + 1]]
  BY <1>4 DEF Queued, TakeHead
<1>6. Queued # <<>>
  BY <1>1
<1>7. Tail(Queued) = [i \in 1 .. len - 1 |-> Queued[i + 1]]
  BY <1>1, <1>6, TailAsFunction
<1>8. QED
  BY <1>3, <1>5, <1>6, <1>7

(* The ring implements the bounded drop-oldest queue for every capacity.   *)
THEOREM RingImplementsFifo == QueueSpec => ImplementsFifo
<1>1. QueueInit => Fifo!FifoInit
  <2> SUFFICES ASSUME QueueInit PROVE Queued = <<>> /\ taken = TickEvent
    BY DEF Fifo!FifoInit
  <2>1. Queued = <<>>
    BY DEF QueueInit, Queued
  <2>2. QED
    BY <2>1 DEF QueueInit
<1>2. QueueTypeOK /\ HoldsNewest /\ [QueueNext]_queueVars => [Fifo!FifoNext]_(Fifo!fifoVars)
  <2> SUFFICES ASSUME QueueTypeOK, HoldsNewest, [QueueNext]_queueVars
               PROVE  Fifo!FifoNext \/ UNCHANGED <<Queued, taken>>
    BY DEF Fifo!fifoVars
  <2>1. Queued \in Seq(Event) /\ Len(Queued) = len
    BY QueuedIsSequence
  <2>2. ASSUME NEW e \in Event, PostWithRoom(e) PROVE Fifo!FifoNext
    <3>1. Queued' = Append(Queued, e)
      BY <2>2, PostAppends
    <3>2. Len(Queued) # Capacity /\ taken' = taken
      BY <2>1, <2>2 DEF PostWithRoom
    <3>3. QED
      BY <3>1, <3>2 DEF Fifo!FifoNext, Fifo!FifoPost, Fifo!Enqueue
  <2>3. ASSUME NEW e \in Event, PostOverOldest(e) PROVE Fifo!FifoNext
    <3>1. Queued' = Append(Tail(Queued), e) /\ Len(Queued) = Capacity /\ taken' = taken
      BY <2>1, <2>3, PostReplacesOldest DEF PostOverOldest
    <3>2. QED
      BY <3>1 DEF Fifo!FifoNext, Fifo!FifoPost, Fifo!Enqueue
  <2>4. CASE TakeEmpty
    <3>1. Queued = <<>> /\ Queued' = Queued /\ taken' = TickEvent
      BY <2>1, <2>4 DEF TakeEmpty, Queued
    <3>2. QED
      BY <3>1 DEF Fifo!FifoNext, Fifo!FifoTake, Fifo!Front, Fifo!Dequeue
  <2>5. CASE TakeHead
    BY <2>5, TakeRemovesOldest DEF Fifo!FifoNext, Fifo!FifoTake, Fifo!Front, Fifo!Dequeue
  <2>6. CASE UNCHANGED queueVars
    BY <2>6 DEF queueVars, Queued
  <2>7. QED
    BY <2>2, <2>3, <2>4, <2>5, <2>6 DEF QueueNext, Post, Take
<1>3. QED
  BY <1>1, <1>2, EventQueueTypes, NewestInOrder, PTL DEF QueueSpec, ImplementsFifo, Fifo!FifoSpec

-----------------------------------------------------------------------------
(* The buttons.                                                            *)


(* The ranges of the debounce state alone, as a record.                    *)
IsState(s) ==
  s \in [stable : BOOLEAN, candidate : BOOLEAN, count : 0 .. DebounceSamples,
         downAt : 0 .. TickModulus - 1, long : BOOLEAN, really : BOOLEAN]

(* A sample keeps the state's ranges, and is the candidate from then on.   *)
LEMMA CountedState ==
  ASSUME NEW s, IsState(s), NEW level \in BOOLEAN
  PROVE  /\ IsState(Counted(s, level))
         /\ Counted(s, level).stable = s.stable
         /\ Counted(s, level).candidate = level
         /\ Counted(s, level).count >= 1
         /\ s.candidate = level /\ s.count < DebounceSamples
              => Counted(s, level).count = s.count + 1
         /\ s.candidate = level /\ s.count = DebounceSamples
              => Counted(s, level).count = DebounceSamples
<1> DEFINE n == IF level = s.candidate
                  THEN IF s.count < DebounceSamples THEN s.count + 1 ELSE s.count
                  ELSE 1
<1>1. Counted(s, level) =
        [stable |-> s.stable, candidate |-> level, count |-> n,
         downAt |-> s.downAt, long |-> s.long, really |-> s.really]
  BY DEF IsState, Counted
<1>2. /\ s.stable \in BOOLEAN /\ s.candidate \in BOOLEAN /\ s.count \in 0 .. DebounceSamples
      /\ s.downAt \in 0 .. TickModulus - 1 /\ s.long \in BOOLEAN /\ s.really \in BOOLEAN
  BY DEF IsState
<1>3. /\ n \in 0 .. DebounceSamples /\ n >= 1
      /\ s.candidate = level /\ s.count < DebounceSamples => n = s.count + 1
      /\ s.candidate = level /\ s.count = DebounceSamples => n = DebounceSamples
  BY <1>2, ButtonsAssumption
<1>4. QED
  <2> HIDE DEF n
  <2>1. QED
    BY <1>1, <1>2, <1>3 DEF IsState

(* Accepting a level makes it the stable one.                              *)
LEMMA AcceptedState ==
  ASSUME NEW s, IsState(s), NEW level \in BOOLEAN, NEW t \in 0 .. TickModulus - 1
  PROVE  /\ IsState(Accepted(s, level, t))
         /\ Accepted(s, level, t).stable = level
         /\ Accepted(s, level, t).candidate = s.candidate
<1>1. /\ s.candidate \in BOOLEAN /\ s.long \in BOOLEAN /\ s.really \in BOOLEAN
      /\ 0 \in 0 .. DebounceSamples /\ 0 \in 0 .. TickModulus - 1
      /\ TRUE \in BOOLEAN /\ FALSE \in BOOLEAN
  BY ButtonsAssumption DEF IsState
<1>2. PICK long \in BOOLEAN, really \in BOOLEAN, d \in 0 .. TickModulus - 1 :
        Accepted(s, level, t) =
          [stable |-> level, candidate |-> s.candidate, count |-> 0,
           downAt |-> d, long |-> long, really |-> really]
  <2>1. CASE level
    <3>1. Accepted(s, level, t) =
            [stable |-> TRUE, candidate |-> s.candidate, count |-> 0,
             downAt |-> t, long |-> FALSE, really |-> FALSE]
      BY <2>1 DEF IsState, Accepted
    <3>2. level = TRUE
      BY <2>1
    <3>3. QED
      BY <1>1, <3>1, <3>2
  <2>2. CASE ~level
    <3>1. Accepted(s, level, t) =
            [stable |-> FALSE, candidate |-> s.candidate, count |-> 0,
             downAt |-> 0, long |-> s.long, really |-> s.really]
      BY <2>2 DEF IsState, Accepted
    <3>2. level = FALSE
      BY <2>2
    <3>3. QED
      BY <1>1, <3>1, <3>2
  <2>3. QED
    BY <2>1, <2>2
<1>3. QED
  BY <1>1, <1>2 DEF IsState

(* Reporting a long press touches nothing but its flag.                    *)
LEMMA ReportedState ==
  ASSUME NEW s, IsState(s), NEW event
  PROVE  /\ IsState(Reported(s, event))
         /\ Reported(s, event).stable = s.stable
         /\ Reported(s, event).candidate = s.candidate
         /\ Reported(s, event).count = s.count
  BY DEF IsState, Reported

(* The state after a fast tick has sampled the pin: what cb_fast_tick      *)
(* makes of the debounce state before it looks for a long press.           *)
Sampled(t) ==
  IF Acceptable(Counted(State, pin)) THEN Accepted(Counted(State, pin), pin, t)
  ELSE Counted(State, pin)

LEMMA BecomesState ==
  ASSUME NEW s, IsState(s), Becomes(s)
  PROVE  /\ stable' \in BOOLEAN /\ candidate' \in BOOLEAN
         /\ longReported' \in BOOLEAN /\ reallyReported' \in BOOLEAN
         /\ count' \in 0 .. DebounceSamples /\ downAt' \in 0 .. TickModulus - 1
         /\ stable' = s.stable /\ candidate' = s.candidate /\ count' = s.count
  BY DEF IsState, Becomes

(* The phase of a press is one of five whatever is posted.                 *)
Phase == {"up", "down", "long", "really", "broken"}
LEMMA AfterPhase == \A event : \A p \in Phase : After(p, event) \in Phase
  BY DEF After, Phase

-----------------------------------------------------------------------------
(* Why the suspension is safe.  The idle count starts over whenever an     *)
(* edge interrupt begins, and the fast tick interrupts that handler at     *)
(* most once; so from the second idle tick on, the samples are the fast    *)
(* tick's alone, all of a released pin, and more of them than the          *)
(* debouncer needs precede the suspension.                                 *)
IdleIsCounted ==
  /\ fastOn => idle < IdleSuspend
  /\ eic # "idle" => fastOn /\ idle <= 1 /\ (~preempted => idle = 0)
  /\ eic = "idle" => ~preempted
  /\ eic = "idle" /\ fastOn /\ stable => idle <= 1 \/ (~candidate /\ idle - 1 <= count)
  /\ ~fastOn => ~stable
  /\ ~fastOn /\ ~edge => ~pin

(* ButtonsTypeOK, one variable at a time, ButtonsFlags apart.                         *)
ButtonsFlags ==
  /\ pin \in BOOLEAN /\ edge \in BOOLEAN /\ others \in BOOLEAN /\ fastOn \in BOOLEAN
  /\ stable \in BOOLEAN /\ candidate \in BOOLEAN
  /\ longReported \in BOOLEAN /\ reallyReported \in BOOLEAN
  /\ sample \in BOOLEAN /\ preempted \in BOOLEAN /\ raced \in BOOLEAN

ButtonsRanges ==
  /\ ticks \in 0 .. TickModulus - 1 /\ downAt \in 0 .. TickModulus - 1
  /\ stamp \in 0 .. TickModulus - 1
  /\ idle \in 0 .. IdleSuspend /\ held \in 0 .. TickModulus
  /\ count \in 0 .. DebounceSamples
  /\ eic \in {"idle", "read", "count", "accept"}
  /\ phase \in Phase

ButtonsTyped == ButtonsFlags /\ ButtonsRanges

ButtonsInv == ButtonsTyped /\ IdleIsCounted

LEMMA ButtonsTypedIsTypeOK == ButtonsTyped => ButtonsTypeOK
  BY DEF ButtonsTyped, ButtonsFlags, ButtonsRanges, ButtonsTypeOK, Phase

LEMMA ButtonsInitInv == ButtonsInit => ButtonsInv
<1> SUFFICES ASSUME ButtonsInit PROVE ButtonsInv
  OBVIOUS
<1>1. ButtonsFlags
  BY DEF ButtonsInit, ButtonsFlags
<1>2. ButtonsRanges
  BY ButtonsAssumption DEF ButtonsInit, ButtonsRanges, Phase
<1>3. IdleIsCounted
  BY ButtonsAssumption DEF ButtonsInit, IdleIsCounted
<1>4. QED
  BY <1>1, <1>2, <1>3 DEF ButtonsInv, ButtonsTyped

LEMMA StateTyped == ButtonsTyped => IsState(State)
  BY DEF ButtonsTyped, ButtonsFlags, ButtonsRanges, IsState, State

(* The edge handler: only its beginning bears on the idle count.           *)
LEMMA EdgeInterruptKeepsInv == ButtonsInv /\ EdgeInterrupt => ButtonsInv'
<1> SUFFICES ASSUME ButtonsInv, EdgeInterrupt PROVE ButtonsInv'
  OBVIOUS
<1>1. ButtonsFlags'
  BY DEF ButtonsInv, ButtonsTyped, ButtonsFlags, EdgeInterrupt, ResumeFastTick, debounce
<1>2. ButtonsRanges'
  BY ButtonsAssumption DEF ButtonsInv, ButtonsTyped, ButtonsRanges, EdgeInterrupt,
     ResumeFastTick, debounce
<1>3. IdleIsCounted'
  BY ButtonsAssumption DEF ButtonsInv, IdleIsCounted, EdgeInterrupt, ResumeFastTick, debounce
<1>4. QED
  BY <1>1, <1>2, <1>3 DEF ButtonsInv, ButtonsTyped

LEMMA EdgeReadKeepsInv == ButtonsInv /\ EdgeRead => ButtonsInv'
<1> SUFFICES ASSUME ButtonsInv, EdgeRead PROVE ButtonsInv'
  OBVIOUS
<1>1. ButtonsFlags'
  BY DEF ButtonsInv, ButtonsTyped, ButtonsFlags, EdgeRead, debounce, tickVars
<1>2. ButtonsRanges'
  BY DEF ButtonsInv, ButtonsTyped, ButtonsRanges, EdgeRead, debounce, tickVars
<1>3. IdleIsCounted'
  BY DEF ButtonsInv, IdleIsCounted, EdgeRead, debounce, tickVars
<1>4. QED
  BY <1>1, <1>2, <1>3 DEF ButtonsInv, ButtonsTyped

(* The last steps of the handler find the idle count at most 1, and leave  *)
(* the fast tick registered.                                               *)
LEMMA EdgeCountKeepsInv == ButtonsInv /\ EdgeCount => ButtonsInv'
<1> SUFFICES ASSUME ButtonsInv, EdgeCount PROVE ButtonsInv'
  OBVIOUS
<1>1. IsState(Counted(State, sample))
  BY StateTyped, CountedState DEF ButtonsInv, ButtonsTyped, ButtonsFlags
<1>2. /\ stable' \in BOOLEAN /\ candidate' \in BOOLEAN
      /\ longReported' \in BOOLEAN /\ reallyReported' \in BOOLEAN
      /\ count' \in 0 .. DebounceSamples /\ downAt' \in 0 .. TickModulus - 1
  BY <1>1, BecomesState DEF EdgeCount
<1>3. \/ eic' = "accept" /\ UNCHANGED <<sample, stamp, preempted>>
      \/ EdgeDone
  BY DEF EdgeCount
<1>4. eic = "count" /\ UNCHANGED <<pin, edge, others, tickVars, raced, phase, held>>
  BY DEF EdgeCount
<1>5. ButtonsFlags'
  BY <1>2, <1>3, <1>4 DEF ButtonsInv, ButtonsTyped, ButtonsFlags, EdgeDone, tickVars
<1>6. ButtonsRanges'
  BY <1>2, <1>3, <1>4, ButtonsAssumption DEF ButtonsInv, ButtonsTyped, ButtonsRanges, EdgeDone,
     tickVars
<1>7. IdleIsCounted'
  BY <1>3, <1>4 DEF ButtonsInv, IdleIsCounted, EdgeDone, tickVars
<1>8. QED
  BY <1>5, <1>6, <1>7 DEF ButtonsInv, ButtonsTyped

LEMMA EdgeAcceptKeepsInv == ButtonsInv /\ EdgeAccept => ButtonsInv'
<1> SUFFICES ASSUME ButtonsInv, EdgeAccept PROVE ButtonsInv'
  OBVIOUS
<1>1. PICK level \in {sample, candidate} : /\ Becomes(Accepted(State, level, stamp))
                                           /\ Posted(ChangeEvent(State, level))
  BY DEF EdgeAccept
<1>2. level \in BOOLEAN
  BY DEF ButtonsInv, ButtonsTyped, ButtonsFlags
<1>3. IsState(Accepted(State, level, stamp))
  BY <1>2, StateTyped, AcceptedState DEF ButtonsInv, ButtonsTyped, ButtonsRanges
<1>4. /\ stable' \in BOOLEAN /\ candidate' \in BOOLEAN
      /\ longReported' \in BOOLEAN /\ reallyReported' \in BOOLEAN
      /\ count' \in 0 .. DebounceSamples /\ downAt' \in 0 .. TickModulus - 1
  BY <1>1, <1>3, BecomesState
<1>5. phase' \in Phase
  BY <1>1, AfterPhase DEF Posted, ButtonsInv, ButtonsTyped, ButtonsRanges
<1>6. held' \in 0 .. TickModulus
  BY <1>1, ButtonsAssumption DEF Posted, ButtonsInv, ButtonsTyped, ButtonsRanges
<1>7. eic = "accept" /\ EdgeDone /\ UNCHANGED <<pin, edge, others, tickVars, raced>>
  BY DEF EdgeAccept
<1>8. ButtonsFlags'
  BY <1>4, <1>7 DEF ButtonsInv, ButtonsTyped, ButtonsFlags, EdgeDone, tickVars
<1>9. ButtonsRanges'
  BY <1>4, <1>5, <1>6, <1>7, ButtonsAssumption DEF ButtonsInv, ButtonsTyped, ButtonsRanges,
     EdgeDone, tickVars
<1>10. IdleIsCounted'
  BY <1>7 DEF ButtonsInv, IdleIsCounted, EdgeDone, tickVars
<1>11. QED
  BY <1>8, <1>9, <1>10 DEF ButtonsInv, ButtonsTyped

-----------------------------------------------------------------------------
(* What a fast tick's sample does to a button that is not held: it is      *)
(* released afterwards, or one more sample of a released pin is counted.   *)
LEMMA SampleReleases ==
  ASSUME ButtonsTyped, IdleIsCounted, fastOn, ~pin, eic = "idle",
         NEW t \in 0 .. TickModulus - 1, Sampled(t).stable
  PROVE  /\ ~Sampled(t).candidate
         /\ Sampled(t).count < DebounceSamples
         /\ idle <= Sampled(t).count \/ idle = 0
<1> DEFINE c == Counted(State, pin)
<1>1. IsState(State) /\ IsState(c) /\ pin \in BOOLEAN
  BY StateTyped, CountedState DEF ButtonsTyped, ButtonsFlags
<1>2. /\ c.stable = stable /\ c.candidate = pin /\ c.count >= 1
      /\ candidate = pin /\ count < DebounceSamples => c.count = count + 1
      /\ candidate = pin /\ count = DebounceSamples => c.count = DebounceSamples
  BY <1>1, CountedState DEF State
<1>3. ~Acceptable(c)
  BY <1>1, AcceptedState DEF Sampled
<1>4. Sampled(t) = c
  BY <1>3 DEF Sampled
<1>5. c.count \in 0 .. DebounceSamples /\ c.stable \in BOOLEAN /\ c.candidate \in BOOLEAN
  BY <1>1 DEF IsState
<1>6. c.stable /\ stable /\ ~c.candidate
  BY <1>2, <1>4
<1>7. c.count # DebounceSamples
  <2>1. c.stable # c.candidate
    BY <1>6
  <2>2. QED
    BY <1>3, <2>1 DEF Acceptable
<1>8. idle <= c.count \/ idle = 0
  <2>1. count \in 0 .. DebounceSamples /\ idle \in 0 .. IdleSuspend
    BY DEF ButtonsTyped, ButtonsRanges
  <2>2. idle <= 1 \/ (~candidate /\ idle - 1 <= count)
    BY <1>6 DEF IdleIsCounted
  <2>3. ~candidate => candidate = pin
    BY DEF ButtonsTyped, ButtonsFlags
  <2>4. QED
    <3> HIDE DEF c
    <3>1. QED
      BY <1>2, <1>5, <1>7, <2>1, <2>2, <2>3, ButtonsAssumption
<1>9. QED
  <2> HIDE DEF c
  <2>1. QED
    BY <1>4, <1>5, <1>6, <1>7, <1>8, ButtonsAssumption

(* A fast tick, given what its sample has made of the debounce state: the  *)
(* idle count is at most one more than before, and either a button is down *)
(* or the tick stays registered just as long as the count is short.        *)
LEMMA FastTickKeepsInv == ButtonsInv /\ FastTick => ButtonsInv'
<1> SUFFICES ASSUME ButtonsInv, FastTick PROVE ButtonsInv'
  OBVIOUS
<1> DEFINE s == Sampled(ticks')
           hold == HoldEvent(s, ticks')
           idled == (IF hold = "none" THEN idle ELSE 0) + 1
<1>1. ButtonsTyped /\ IdleIsCounted /\ ButtonsFlags /\ ButtonsRanges /\ fastOn /\ ~preempted
  BY DEF ButtonsInv, ButtonsTyped, FastTick
<1>2. ticks' \in 0 .. TickModulus - 1
  BY <1>1, ButtonsAssumption DEF FastTick, ButtonsRanges
<1> DEFINE change == IF Acceptable(Counted(State, pin))
                       THEN ChangeEvent(Counted(State, pin), pin) ELSE "none"
<1>3. /\ Becomes(Reported(s, hold))
      /\ phase' = After(After(phase, change), hold)
      /\ held' = IF change = "Down" THEN 0
                 ELSE IF held < TickModulus THEN held + 1 ELSE held
      /\ IF AnyButtonDown THEN idle' = 0 /\ UNCHANGED fastOn
         ELSE idle' = idled /\ fastOn' = (idled < IdleSuspend)
  BY DEF FastTick, Sampled
<1>4. /\ preempted' = (eic # "idle") /\ raced' = (raced \/ eic = "accept")
      /\ UNCHANGED <<pin, edge, others, eic, sample, stamp>>
  BY DEF FastTick
<1>5. IsState(s)
  <2>1. pin \in BOOLEAN /\ IsState(Counted(State, pin))
    BY <1>1, StateTyped, CountedState DEF ButtonsFlags
  <2>2. QED
    BY <1>2, <2>1, AcceptedState DEF Sampled
<1>6. IsState(Reported(s, hold)) /\ Reported(s, hold).stable = s.stable
      /\ Reported(s, hold).candidate = s.candidate /\ Reported(s, hold).count = s.count
  <2> HIDE DEF s, hold
  <2>1. QED
    BY <1>5, ReportedState
<1>7. /\ stable' \in BOOLEAN /\ candidate' \in BOOLEAN
      /\ longReported' \in BOOLEAN /\ reallyReported' \in BOOLEAN
      /\ count' \in 0 .. DebounceSamples /\ downAt' \in 0 .. TickModulus - 1
      /\ stable' = s.stable /\ candidate' = s.candidate /\ count' = s.count
  <2> HIDE DEF s, hold
  <2>1. QED
    BY <1>3, <1>6, BecomesState
<1>8. phase' \in Phase
  <2> HIDE DEF s, hold, change
  <2>1. QED
    BY <1>1, <1>3, AfterPhase DEF ButtonsRanges
<1>9. held' \in 0 .. TickModulus
  <2> HIDE DEF s, hold, change
  <2>1. QED
    BY <1>1, <1>3, ButtonsAssumption DEF ButtonsRanges
<1>10. idled \in 1 .. idle + 1 /\ (idled = idle + 1 \/ idled = 1) /\ idle < IdleSuspend
  <2> HIDE DEF hold
  <2>1. QED
    BY <1>1 DEF ButtonsRanges, IdleIsCounted
<1>11. eic # "idle" => idled = 1
  <2>1. eic # "idle" => idle = 0
    BY <1>1 DEF IdleIsCounted
  <2>2. QED
    <3> HIDE DEF idled
    <3>1. QED
      BY <1>1, <1>10, <2>1 DEF ButtonsRanges
<1>12. eic = "idle" /\ ~pin /\ stable' =>
         /\ ~candidate' /\ count' < DebounceSamples
         /\ idled <= 1 \/ idled - 1 <= count'
  <2> SUFFICES ASSUME eic = "idle", ~pin, stable'
               PROVE  /\ ~candidate' /\ count' < DebounceSamples
                      /\ idled <= 1 \/ idled - 1 <= count'
    OBVIOUS
  <2>1. s.stable
    BY <1>7
  <2>2. /\ ~s.candidate /\ s.count < DebounceSamples
        /\ idle <= s.count \/ idle = 0
    BY <1>1, <1>2, <2>1, SampleReleases
  <2>3. ~candidate'
    BY <1>7, <2>2
  <2>4. QED
    <3> HIDE DEF s, hold, idled
    <3>1. QED
      BY <1>1, <1>7, <1>10, <2>2, <2>3 DEF ButtonsRanges
<1> HIDE DEF s, hold, idled
<1>13. CASE AnyButtonDown
  <2>1. idle' = 0 /\ fastOn' = fastOn
    BY <1>3, <1>13
  <2>2. ButtonsFlags'
    BY <1>1, <1>4, <1>7, <2>1 DEF ButtonsFlags
  <2>3. ButtonsRanges'
    BY <1>1, <1>2, <1>4, <1>7, <1>8, <1>9, <2>1, ButtonsAssumption DEF ButtonsRanges
  <2>4. fastOn' /\ (preempted' <=> eic # "idle") /\ eic' = eic
    BY <1>1, <1>4, <2>1
  <2>5. IdleIsCounted'
    BY <2>1, <2>4, ButtonsAssumption DEF IdleIsCounted
  <2>6. QED
    BY <2>2, <2>3, <2>5 DEF ButtonsInv, ButtonsTyped
<1>14. CASE ~AnyButtonDown
  <2>1. idle' = idled /\ fastOn' = (idled < IdleSuspend) /\ ~pin /\ ~pin'
    BY <1>3, <1>4, <1>14 DEF AnyButtonDown
  <2>2. (idled < IdleSuspend) \in BOOLEAN
    BY <1>1, <1>10, ButtonsAssumption DEF ButtonsRanges
  <2>3. fastOn' \in BOOLEAN /\ (fastOn' <=> idled < IdleSuspend)
    BY <2>1, <2>2, Zenon
  <2>4. ButtonsFlags'
    BY <1>1, <1>4, <1>7, <2>3 DEF ButtonsFlags
  <2>5. ButtonsRanges'
    BY <1>1, <1>2, <1>4, <1>7, <1>8, <1>9, <1>10, <2>1, ButtonsAssumption DEF ButtonsRanges
  <2>6. (preempted' <=> eic # "idle") /\ eic' = eic
    BY <1>4
  <2>7. IdleIsCounted'
    <3>1. fastOn' => idle' < IdleSuspend
      BY <2>1, <2>3
    <3>2. eic' # "idle" => fastOn' /\ idle' <= 1 /\ (~preempted' => idle' = 0)
      BY <1>11, <2>1, <2>3, <2>6, ButtonsAssumption
    <3>3. eic' = "idle" => ~preempted'
      BY <2>6
    <3>4. eic' = "idle" /\ fastOn' /\ stable'
            => idle' <= 1 \/ (~candidate' /\ idle' - 1 <= count')
      BY <1>12, <2>1, <2>6
    <3>5. ~fastOn' => ~stable'
      <4> SUFFICES ASSUME stable' PROVE fastOn'
        OBVIOUS
      <4>1. CASE eic # "idle"
        BY <1>11, <2>3, <4>1, ButtonsAssumption
      <4>2. CASE eic = "idle"
        <5>1. count' < DebounceSamples /\ (idled <= 1 \/ idled - 1 <= count')
          BY <1>12, <2>1, <4>2
        <5>2. idled < IdleSuspend
          BY <1>1, <1>7, <1>10, <5>1, ButtonsAssumption DEF ButtonsRanges
        <5>3. QED
          BY <2>3, <5>2
      <4>3. QED
        BY <4>1, <4>2
    <3>6. ~fastOn' /\ ~edge' => ~pin'
      BY <2>1
    <3>7. QED
      BY <3>1, <3>2, <3>3, <3>4, <3>5, <3>6 DEF IdleIsCounted
  <2>8. QED
    BY <2>4, <2>5, <2>7 DEF ButtonsInv, ButtonsTyped
<1>15. QED
  BY <1>13, <1>14

LEMMA ButtonsNextInv == ButtonsInv /\ [ButtonsNext]_buttonsVars => ButtonsInv'
<1> SUFFICES ASSUME ButtonsInv, [ButtonsNext]_buttonsVars PROVE ButtonsInv'
  OBVIOUS
<1>1. CASE PinChanges
  <2>1. ButtonsFlags'
    BY <1>1 DEF ButtonsInv, ButtonsTyped, ButtonsFlags, PinChanges, tickVars, debounce, eicVars
  <2>2. ButtonsRanges'
    BY <1>1 DEF ButtonsInv, ButtonsTyped, ButtonsRanges, PinChanges, tickVars, debounce, eicVars
  <2>3. IdleIsCounted'
    BY <1>1 DEF ButtonsInv, IdleIsCounted, PinChanges, tickVars, debounce, eicVars
  <2>4. QED
    BY <2>1, <2>2, <2>3 DEF ButtonsInv, ButtonsTyped
<1>2. CASE OtherButton
  <2>1. ButtonsFlags'
    BY <1>2 DEF ButtonsInv, ButtonsTyped, ButtonsFlags, OtherButton, ResumeFastTick, debounce,
       eicVars
  <2>2. ButtonsRanges'
    BY <1>2, ButtonsAssumption
       DEF ButtonsInv, ButtonsTyped, ButtonsRanges, OtherButton, ResumeFastTick, debounce, eicVars
  <2>3. IdleIsCounted'
    BY <1>2, ButtonsAssumption
       DEF ButtonsInv, IdleIsCounted, OtherButton, ResumeFastTick, debounce, eicVars
  <2>4. QED
    BY <2>1, <2>2, <2>3 DEF ButtonsInv, ButtonsTyped
<1>3. CASE EdgeStep
  BY <1>3, EdgeInterruptKeepsInv, EdgeReadKeepsInv, EdgeCountKeepsInv,
     EdgeAcceptKeepsInv DEF EdgeStep
<1>4. CASE FastTick
  BY <1>4, FastTickKeepsInv
<1>5. CASE UNCHANGED buttonsVars
  BY <1>5 DEF buttonsVars, ButtonsInv, ButtonsTyped, ButtonsFlags, ButtonsRanges, IdleIsCounted,
     tickVars, debounce, eicVars
<1>6. QED
  BY <1>1, <1>2, <1>3, <1>4, <1>5 DEF ButtonsNext

(* The counters of debounce.rs and the fast tick keep their ranges.        *)
THEOREM ButtonTypes == ButtonsSpec => []ButtonsTypeOK
<1>1. ButtonsSpec => []ButtonsInv
  BY ButtonsInitInv, ButtonsNextInv, PTL DEF ButtonsSpec
<1>2. ButtonsInv => ButtonsTypeOK
  BY ButtonsTypedIsTypeOK DEF ButtonsInv
<1>3. QED
  BY <1>1, <1>2, PTL

(* The fast tick is never suspended while the button is held or thought to *)
(* be, unless an edge interrupt that will resume it is pending.            *)
THEOREM SuspensionIsSafe == ButtonsSpec => []SuspendedOnlyAtRest
<1>1. ButtonsSpec => []ButtonsInv
  BY ButtonsInitInv, ButtonsNextInv, PTL DEF ButtonsSpec
<1>2. ButtonsInv => SuspendedOnlyAtRest
  BY DEF ButtonsInv, IdleIsCounted, SuspendedOnlyAtRest
<1>3. QED
  BY <1>1, <1>2, PTL

-----------------------------------------------------------------------------
(* The order of a button's events and the moment of its long presses, as   *)
(* long as the two handlers did not both accept one change.                *)

(* Fast ticks from one reading of FAST_TICKS to another.                   *)
Since(t0, t) == (t + TickModulus - t0) % TickModulus

(* The reading the edge handler took is one tick old at most, and only     *)
(* when the fast tick has interrupted it.                                  *)
StampIsFresh ==
  eic \in {"count", "accept"} =>
    Since(stamp, ticks) = 0 \/ (preempted /\ Since(stamp, ticks) = 1)

(* The level about to be accepted is the candidate, and is a change.       *)
LevelIsAsked == eic = "accept" => candidate = sample /\ stable # sample

(* What was posted is what DebounceState remembers having reported.        *)
PhaseIsRecorded ==
  \/ phase = "up" /\ ~stable
  \/ phase = "down" /\ stable /\ ~longReported /\ ~reallyReported
  \/ phase = "long" /\ stable /\ longReported /\ ~reallyReported
  \/ phase = "really" /\ stable /\ longReported /\ reallyReported

(* The time measured from down_timestamp is the time since Down was posted *)
(* or one tick more, and each long press is reported the moment it is due. *)
HoldIsMeasured ==
  /\ phase \in {"down", "long"} =>
       Since(downAt, ticks) = held \/ Since(downAt, ticks) = held + 1
  /\ phase = "down" => Since(downAt, ticks) < LongTicks
  /\ phase = "long" => Since(downAt, ticks) \in LongTicks .. ReallyLongTicks - 1
  /\ phase = "really" => held >= ReallyLongTicks - 1

Orderly == LevelIsAsked /\ PhaseIsRecorded /\ HoldIsMeasured

PressInv == ButtonsInv /\ StampIsFresh /\ (~raced => Orderly)

(* The lengths of the presses, and the room the tick counter leaves them.  *)
LEMMA Lengths ==
  /\ LongTicks \in Nat /\ ReallyLongTicks \in Nat /\ TickModulus \in Nat
  /\ LongTicks >= 2 /\ LongTicks < ReallyLongTicks /\ ReallyLongTicks + 1 < TickModulus
  BY ButtonsAssumption

(* FAST_TICKS wraps, and a difference of two readings does not notice.     *)
LEMMA SinceAdvances ==
  ASSUME NEW a \in 0 .. TickModulus - 1, NEW t \in 0 .. TickModulus - 1
  PROVE  /\ Since(a, t) \in 0 .. TickModulus - 1
         /\ Since(t, t) = 0
         /\ (t + 1) % TickModulus \in 0 .. TickModulus - 1
         /\ Since(a, t) < TickModulus - 1 =>
              Since(a, (t + 1) % TickModulus) = Since(a, t) + 1
<1> DEFINE M == TickModulus
<1>1. M \in Nat \ {0, 1}
  BY ButtonsAssumption
<1>2. ASSUME NEW x \in 0 .. M - 1, NEW y \in 0 .. M - 1
      PROVE  Since(x, y) = IF y < x THEN y + M - x ELSE y - x
  <2>1. CASE y < x
    <3>1. (y + M - x) % M = y + M - x
      BY <1>1, <2>1
    <3>2. QED
      BY <2>1, <3>1 DEF Since
  <2>2. CASE y >= x
    <3>1. (y + M - x) % M = y - x
      BY <1>1, <2>2
    <3>2. QED
      BY <1>1, <2>2, <3>1 DEF Since
  <2>3. QED
    BY <2>1, <2>2
<1>3. (t + 1) % M = IF t = M - 1 THEN 0 ELSE t + 1
  <2>1. CASE t = M - 1
    BY <1>1, <2>1
  <2>2. CASE t < M - 1
    BY <1>1, <2>2
  <2>3. QED
    BY <1>1, <2>1, <2>2
<1> DEFINE u == (t + 1) % M
<1>4. u \in 0 .. M - 1
  BY <1>1, <1>3
<1>5. /\ Since(a, t) = IF t < a THEN t + M - a ELSE t - a
      /\ Since(t, t) = 0
      /\ Since(a, u) = IF u < a THEN u + M - a ELSE u - a
  <2> HIDE DEF u
  <2>1. QED
    BY <1>1, <1>2, <1>4
<1>6. u = IF t = M - 1 THEN 0 ELSE t + 1
  BY <1>3
<1>7. QED
  <2>1. /\ Since(a, t) \in 0 .. M - 1
        /\ Since(a, t) < M - 1 => Since(a, u) = Since(a, t) + 1
    <3> HIDE DEF u
    <3>1. QED
      BY <1>1, <1>4, <1>5, <1>6
  <2>2. QED
    BY <1>4, <1>5, <2>1

LEMMA InitPressInv == ButtonsInit => PressInv
<1> SUFFICES ASSUME ButtonsInit PROVE PressInv
  OBVIOUS
<1>1. StampIsFresh
  BY DEF ButtonsInit, StampIsFresh
<1>2. Orderly
  BY DEF ButtonsInit, Orderly, LevelIsAsked, PhaseIsRecorded, HoldIsMeasured
<1>3. QED
  BY <1>1, <1>2, ButtonsInitInv DEF PressInv

(* Until the edge handler counts its sample nothing is posted.             *)
LEMMA QuietStepsKeepPressInv ==
  PressInv /\ (PinChanges \/ OtherButton \/ EdgeInterrupt \/ EdgeRead \/ UNCHANGED buttonsVars)
    => PressInv'
<1> SUFFICES ASSUME PressInv,
                    PinChanges \/ OtherButton \/ EdgeInterrupt \/ EdgeRead \/ UNCHANGED buttonsVars
             PROVE  PressInv'
  OBVIOUS
<1>1. ButtonsInv'
  BY ButtonsNextInv DEF PressInv, ButtonsNext, EdgeStep
<1>2. UNCHANGED <<ticks, debounce, raced, phase, held>>
  BY DEF PinChanges, OtherButton, EdgeInterrupt, EdgeRead, buttonsVars, tickVars
<1>3. \/ UNCHANGED <<eic, sample, stamp, preempted>>
      \/ eic' = "read"
      \/ eic' = "count" /\ stamp' = ticks
  BY DEF PinChanges, OtherButton, EdgeInterrupt, EdgeRead, buttonsVars, eicVars
<1>4. StampIsFresh'
  <2>1. Since(ticks, ticks) = 0
    BY SinceAdvances DEF PressInv, ButtonsInv, ButtonsTyped, ButtonsRanges
  <2>2. CASE UNCHANGED <<eic, sample, stamp, preempted>>
    BY <1>2, <2>2 DEF PressInv, StampIsFresh, Since
  <2>3. CASE eic' = "read"
    BY <2>3 DEF StampIsFresh
  <2>4. CASE eic' = "count" /\ stamp' = ticks
    BY <1>2, <2>1, <2>4 DEF StampIsFresh
  <2>5. QED
    BY <1>3, <2>2, <2>3, <2>4
<1>5. Orderly => Orderly'
  BY <1>2, <1>3
     DEF Orderly, LevelIsAsked, PhaseIsRecorded, HoldIsMeasured, debounce, Since
<1>6. QED
  BY <1>1, <1>2, <1>4, <1>5 DEF PressInv

(* A counted sample leaves all but the candidate alone, and the handler    *)
(* goes on only with a change to make.                                     *)
LEMMA EdgeCountKeepsPressInv == PressInv /\ EdgeCount => PressInv'
<1> SUFFICES ASSUME PressInv, EdgeCount PROVE PressInv'
  OBVIOUS
<1> DEFINE c == Counted(State, sample)
<1>1. ButtonsInv'
  BY ButtonsNextInv DEF PressInv, ButtonsNext, EdgeStep
<1>2. eic = "count" /\ UNCHANGED <<ticks, raced, phase, held>>
  BY DEF EdgeCount, tickVars
<1>3. /\ c.stable = stable /\ c.candidate = sample /\ c.downAt = downAt
      /\ c.long = longReported /\ c.really = reallyReported
  BY DEF Counted, State
<1>4. /\ stable' = stable /\ candidate' = sample /\ downAt' = downAt
      /\ longReported' = longReported /\ reallyReported' = reallyReported
  BY <1>3 DEF EdgeCount, Becomes
<1>5. \/ /\ eic' = "accept" /\ UNCHANGED <<sample, stamp, preempted>>
         /\ stable # sample
      \/ eic' = "idle"
  BY <1>3 DEF EdgeCount, Acceptable, EdgeDone
<1>6. StampIsFresh'
  BY <1>2, <1>5 DEF PressInv, StampIsFresh, Since
<1>7. LevelIsAsked'
  BY <1>4, <1>5 DEF LevelIsAsked
<1>8. PhaseIsRecorded => PhaseIsRecorded'
  BY <1>2, <1>4 DEF PhaseIsRecorded
<1>9. HoldIsMeasured => HoldIsMeasured'
  BY <1>2, <1>4 DEF HoldIsMeasured, Since
<1>10. QED
  BY <1>1, <1>2, <1>6, <1>7, <1>8, <1>9 DEF PressInv, Orderly

(* The handler posts Down to a button that was up, and Up or LongUp to one *)
(* that was down; a press begins at most one tick before Down is posted.   *)
LEMMA EdgeAcceptKeepsPressInv == PressInv /\ EdgeAccept => PressInv'
<1> SUFFICES ASSUME PressInv, EdgeAccept PROVE PressInv'
  OBVIOUS
<1>1. ButtonsInv'
  BY ButtonsNextInv DEF PressInv, ButtonsNext, EdgeStep
<1>2. ButtonsTyped /\ ButtonsFlags /\ ButtonsRanges
  BY DEF PressInv, ButtonsInv, ButtonsTyped
<1>3. /\ eic = "accept" /\ eic' = "idle"
      /\ ticks' = ticks /\ raced' = raced
  BY DEF EdgeAccept, EdgeDone, tickVars
<1>4. StampIsFresh'
  BY <1>3 DEF StampIsFresh
<1>5. ASSUME ~raced PROVE Orderly'
  <2>1. Orderly
    BY <1>5 DEF PressInv
  <2>2. candidate = sample /\ stable # sample
    BY <1>3, <2>1 DEF Orderly, LevelIsAsked
  <2>3. /\ Becomes(Accepted(State, sample, stamp))
        /\ phase' = After(phase, ChangeEvent(State, sample))
        /\ held' = IF ChangeEvent(State, sample) = "Down" THEN 0 ELSE held
    BY <2>2 DEF EdgeAccept, Posted
  <2>4. PhaseIsRecorded
    BY <2>1 DEF Orderly
  <2>5. LevelIsAsked'
    BY <1>3 DEF LevelIsAsked
  <2>6. CASE sample
    <3>1. ~stable /\ phase = "up"
      BY <1>2, <2>2, <2>4, <2>6 DEF PhaseIsRecorded, ButtonsFlags
    <3>2. Accepted(State, sample, stamp) =
            [stable |-> TRUE, candidate |-> candidate, count |-> 0,
             downAt |-> stamp, long |-> FALSE, really |-> FALSE]
      BY <2>6 DEF Accepted, State
    <3>3. stable' /\ downAt' = stamp /\ ~longReported' /\ ~reallyReported'
      BY <2>3, <3>2 DEF Becomes
    <3>4. ChangeEvent(State, sample) = "Down"
      BY <2>6 DEF ChangeEvent
    <3>5. phase' = "down" /\ held' = 0
      BY <2>3, <3>1, <3>4 DEF After
    <3>6. Since(downAt, ticks)' \in {0, 1}
      BY <1>3, <3>3 DEF PressInv, StampIsFresh, Since
    <3>7. HoldIsMeasured'
      BY <3>5, <3>6, ButtonsAssumption DEF HoldIsMeasured
    <3>8. QED
      BY <2>5, <3>3, <3>5, <3>7 DEF Orderly, PhaseIsRecorded
  <2>7. CASE ~sample
    <3>1. stable
      BY <1>2, <2>2, <2>7 DEF ButtonsFlags
    <3>2. Accepted(State, sample, stamp) =
            [stable |-> FALSE, candidate |-> candidate, count |-> 0,
             downAt |-> 0, long |-> longReported, really |-> reallyReported]
      BY <2>7 DEF Accepted, State
    <3>3. ~stable'
      BY <2>3, <3>2 DEF Becomes
    <3>4. ChangeEvent(State, sample) = IF longReported THEN "LongUp" ELSE "Up"
      BY <2>7 DEF ChangeEvent, State
    <3>5. phase' = "up"
      BY <2>3, <2>4, <3>1, <3>4 DEF After, PhaseIsRecorded
    <3>6. QED
      BY <2>5, <3>3, <3>5 DEF Orderly, PhaseIsRecorded, HoldIsMeasured
  <2>8. QED
    BY <2>6, <2>7
<1>6. QED
  BY <1>1, <1>3, <1>4, <1>5 DEF PressInv

(* What a fast tick samples, and what it posts about it: either nothing    *)
(* changes, or the button goes down, or it goes up.                        *)
SampleChange ==
  IF Acceptable(Counted(State, pin)) THEN ChangeEvent(Counted(State, pin), pin)
  ELSE "none"

LEMMA SampleChanges ==
  ASSUME ButtonsTyped, PhaseIsRecorded, NEW t \in 0 .. TickModulus - 1
  PROVE  \/ /\ SampleChange = "none"
            /\ Sampled(t).stable = stable /\ Sampled(t).downAt = downAt
            /\ Sampled(t).long = longReported /\ Sampled(t).really = reallyReported
         \/ /\ SampleChange = "Down" /\ phase = "up"
            /\ Sampled(t).stable /\ Sampled(t).downAt = t
            /\ ~Sampled(t).long /\ ~Sampled(t).really
         \/ /\ SampleChange = IF longReported THEN "LongUp" ELSE "Up"
            /\ phase # "up" /\ ~Sampled(t).stable
<1> DEFINE c == Counted(State, pin)
<1>1. /\ IsState(c) /\ c.stable = stable /\ c.candidate = pin
      /\ c.downAt = downAt /\ c.long = longReported /\ c.really = reallyReported
  <2>1. IsState(State) /\ pin \in BOOLEAN
    BY StateTyped DEF ButtonsTyped, ButtonsFlags
  <2>2. IsState(c) /\ c.stable = stable /\ c.candidate = pin
    BY <2>1, CountedState DEF State
  <2>3. c.downAt = downAt /\ c.long = longReported /\ c.really = reallyReported
    BY DEF Counted, State
  <2>4. QED
    BY <2>2, <2>3
<1>2. CASE ~Acceptable(c)
  BY <1>1, <1>2 DEF Sampled, SampleChange
<1>3. CASE Acceptable(c) /\ pin
  <2>1. Sampled(t) = [c EXCEPT !.stable = TRUE, !.count = 0, !.downAt = t,
                               !.long = FALSE, !.really = FALSE]
    BY <1>3 DEF Sampled, Accepted
  <2>2. ~stable
    BY <1>1, <1>3 DEF Acceptable
  <2>3. phase = "up"
    BY <2>2 DEF PhaseIsRecorded
  <2>4. SampleChange = "Down"
    BY <1>3 DEF SampleChange, ChangeEvent
  <2>5. /\ Sampled(t).stable /\ Sampled(t).downAt = t
        /\ ~Sampled(t).long /\ ~Sampled(t).really
    <3> HIDE DEF c
    <3>1. QED
      BY <1>1, <2>1 DEF IsState
  <2>6. QED
    BY <2>3, <2>4, <2>5
<1>4. CASE Acceptable(c) /\ ~pin
  <2>1. Sampled(t) = [c EXCEPT !.stable = FALSE, !.count = 0, !.downAt = 0]
    BY <1>4 DEF Sampled, Accepted
  <2>2. stable
    <3>1. stable # pin /\ stable \in BOOLEAN /\ pin \in BOOLEAN
      BY <1>1, <1>4 DEF Acceptable, ButtonsTyped, ButtonsFlags
    <3>2. QED
      BY <1>4, <3>1
  <2>3. phase # "up"
    BY <2>2 DEF PhaseIsRecorded
  <2>4. SampleChange = IF longReported THEN "LongUp" ELSE "Up"
    BY <1>1, <1>4 DEF SampleChange, ChangeEvent
  <2>5. ~Sampled(t).stable
    <3> HIDE DEF c
    <3>1. QED
      BY <1>1, <2>1 DEF IsState
  <2>6. QED
    BY <2>3, <2>4, <2>5
<1>5. QED
  BY <1>2, <1>3, <1>4

(* A fast tick keeps the stamp of a handler it interrupts fresh enough.    *)
LEMMA FastTickKeepsStamp == PressInv /\ FastTick => StampIsFresh'
<1> SUFFICES ASSUME PressInv, FastTick, eic' \in {"count", "accept"}
             PROVE  Since(stamp, ticks)' = 0 \/ (preempted' /\ Since(stamp, ticks)' = 1)
  BY DEF StampIsFresh
<1>1. /\ ~preempted /\ eic' = eic /\ stamp' = stamp
      /\ ticks' = (ticks + 1) % TickModulus /\ preempted' = (eic # "idle")
  BY DEF FastTick
<1>2. Since(stamp, ticks) = 0
  BY <1>1 DEF PressInv, StampIsFresh
<1>3. stamp \in 0 .. TickModulus - 1 /\ ticks \in 0 .. TickModulus - 1
  BY DEF PressInv, ButtonsInv, ButtonsTyped, ButtonsRanges
<1>4. Since(stamp, (ticks + 1) % TickModulus) = 1
  <2>1. Since(stamp, ticks) < TickModulus - 1 =>
          Since(stamp, (ticks + 1) % TickModulus) = Since(stamp, ticks) + 1
    BY <1>3, SinceAdvances
  <2>2. 0 < TickModulus - 1
    BY Lengths
  <2>3. Since(stamp, (ticks + 1) % TickModulus) = 0 + 1
    BY <1>2, <2>1, <2>2
  <2>4. QED
    BY <2>3
<1>5. preempted'
  BY <1>1
<1>6. Since(stamp, ticks)' = 1
  BY <1>1, <1>4 DEF Since
<1>7. QED
  BY <1>5, <1>6

(* A fast tick that does not race posts each event in its turn, and a long *)
(* press in the tick in which its time has come.                           *)
LEMMA FastTickKeepsOrder ==
  ASSUME PressInv, Orderly, FastTick, eic # "accept"
  PROVE  Orderly'
<1> DEFINE t == (ticks + 1) % TickModulus
           s == Sampled(t)
           hold == HoldEvent(s, t)
<1>1. ButtonsTyped /\ ButtonsFlags /\ ButtonsRanges /\ PhaseIsRecorded /\ HoldIsMeasured
  BY DEF PressInv, ButtonsInv, ButtonsTyped, Orderly
<1>2. /\ ticks' = t /\ eic' = eic /\ Becomes(Reported(s, hold))
      /\ phase' = After(After(phase, SampleChange), hold)
      /\ held' = IF SampleChange = "Down" THEN 0
                 ELSE IF held < TickModulus THEN held + 1 ELSE held
  BY DEF FastTick, Sampled, SampleChange
<1>3. /\ t \in 0 .. TickModulus - 1
      /\ Since(t, t) = 0
      /\ Since(downAt, ticks) \in 0 .. TickModulus - 1
      /\ Since(downAt, ticks) < TickModulus - 1 =>
           Since(downAt, t) = Since(downAt, ticks) + 1
  BY <1>1, SinceAdvances DEF ButtonsRanges
<1>4. LevelIsAsked'
  BY <1>2 DEF LevelIsAsked
<1>5. IsState(s)
  <2>1. pin \in BOOLEAN /\ IsState(Counted(State, pin))
    BY <1>1, StateTyped, CountedState DEF ButtonsFlags
  <2>2. QED
    BY <1>3, <2>1, AcceptedState DEF Sampled
<1>6. /\ stable' = s.stable /\ downAt' = s.downAt
      /\ longReported' = IF hold = "LongPress" THEN TRUE ELSE s.long
      /\ reallyReported' = IF hold = "ReallyLongPress" THEN TRUE ELSE s.really
  <2> HIDE DEF s, hold
  <2>1. QED
    BY <1>2, <1>5 DEF Becomes, Reported, IsState
<1>7. HeldTicks(s, t) = Since(s.downAt, t)
  BY DEF HeldTicks, Since
<1>8. hold = IF s.stable /\ ~s.long /\ Since(s.downAt, t) >= LongTicks THEN "LongPress"
             ELSE IF s.stable /\ ~s.really /\ Since(s.downAt, t) >= ReallyLongTicks
               THEN "ReallyLongPress"
             ELSE "none"
  BY <1>7 DEF HoldEvent
<1>9. Since(downAt, ticks)' = Since(s.downAt, t)
  BY <1>2, <1>6 DEF Since
<1>10. \/ /\ SampleChange = "none"
          /\ s.stable = stable /\ s.downAt = downAt
          /\ s.long = longReported /\ s.really = reallyReported
       \/ /\ SampleChange = "Down" /\ phase = "up"
          /\ s.stable /\ s.downAt = t /\ ~s.long /\ ~s.really
       \/ /\ SampleChange = IF longReported THEN "LongUp" ELSE "Up"
          /\ phase # "up" /\ ~s.stable
  <2> HIDE DEF t
  <2>1. QED
    BY <1>1, <1>3, SampleChanges, Zenon
<1> HIDE DEF t, s, hold
<1>11. CASE /\ SampleChange = "none"
            /\ s.stable = stable /\ s.downAt = downAt
            /\ s.long = longReported /\ s.really = reallyReported
  <2>1. /\ phase' = After(phase, hold)
        /\ held' = IF held < TickModulus THEN held + 1 ELSE held
    BY <1>1, <1>2, <1>11 DEF After, PhaseIsRecorded
  <2>2. held \in 0 .. TickModulus
    BY <1>1 DEF ButtonsRanges
  <2>3. CASE phase = "up"
    <3>1. ~stable /\ hold = "none"
      BY <1>1, <1>8, <1>11, <2>3 DEF PhaseIsRecorded
    <3>2. phase' = "up" /\ ~stable'
      BY <1>6, <1>11, <2>1, <2>3, <3>1 DEF After
    <3>3. QED
      BY <1>4, <3>2 DEF Orderly, PhaseIsRecorded, HoldIsMeasured
  <2>4. CASE phase = "down"
    <3>1. stable /\ ~longReported /\ ~reallyReported
      BY <1>1, <2>4 DEF PhaseIsRecorded
    <3>2. /\ Since(downAt, ticks) = held \/ Since(downAt, ticks) = held + 1
          /\ Since(downAt, ticks) < LongTicks
      BY <1>1, <2>4 DEF HoldIsMeasured
    <3>3. /\ Since(downAt, t) = Since(downAt, ticks) + 1
          /\ held' = held + 1
      BY <1>3, <2>1, <2>2, <3>2, Lengths
    <3>4. CASE Since(downAt, t) >= LongTicks
      <4>1. hold = "LongPress"
        BY <1>8, <1>11, <3>1, <3>4
      <4>2. phase' = "long" /\ stable' /\ longReported' /\ ~reallyReported'
        BY <1>6, <1>11, <2>1, <2>4, <3>1, <4>1 DEF After
      <4>3. Since(downAt, t) = LongTicks
        BY <1>3, <3>2, <3>3, <3>4, Lengths
      <4>4. HoldIsMeasured'
        BY <1>3, <1>9, <1>11, <2>2, <3>2, <3>3, <4>2, <4>3, Lengths
           DEF HoldIsMeasured
      <4>5. QED
        BY <1>4, <4>2, <4>4 DEF Orderly, PhaseIsRecorded
    <3>5. CASE Since(downAt, t) < LongTicks
      <4>1. ~(Since(downAt, t) >= LongTicks) /\ ~(Since(downAt, t) >= ReallyLongTicks)
        BY <1>3, <3>3, <3>5, Lengths
      <4>2. hold = "none"
        BY <1>8, <1>11, <4>1
      <4>3. phase' = "down" /\ stable' /\ ~longReported' /\ ~reallyReported'
        BY <1>6, <1>11, <2>1, <2>4, <3>1, <4>2 DEF After
      <4>4. HoldIsMeasured'
        BY <1>3, <1>9, <1>11, <2>2, <3>2, <3>3, <3>5, <4>3, Lengths
           DEF HoldIsMeasured
      <4>5. QED
        BY <1>4, <4>3, <4>4 DEF Orderly, PhaseIsRecorded
    <3>6. QED
      BY <1>3, <3>3, <3>4, <3>5, Lengths
  <2>5. CASE phase = "long"
    <3>1. stable /\ longReported /\ ~reallyReported
      BY <1>1, <2>5 DEF PhaseIsRecorded
    <3>2. /\ Since(downAt, ticks) = held \/ Since(downAt, ticks) = held + 1
          /\ Since(downAt, ticks) \in LongTicks .. ReallyLongTicks - 1
      BY <1>1, <2>5 DEF HoldIsMeasured
    <3>3. /\ Since(downAt, t) = Since(downAt, ticks) + 1
          /\ held' = held + 1
      BY <1>3, <2>1, <2>2, <3>2, Lengths
    <3>4. CASE Since(downAt, t) >= ReallyLongTicks
      <4>1. hold = "ReallyLongPress"
        BY <1>8, <1>11, <3>1, <3>4
      <4>2. phase' = "really" /\ stable' /\ longReported' /\ reallyReported'
        BY <1>6, <1>11, <2>1, <2>5, <3>1, <4>1 DEF After
      <4>3. held' >= ReallyLongTicks - 1
        BY <2>2, <3>2, <3>3, <3>4, Lengths
      <4>4. QED
        BY <1>4, <4>2, <4>3 DEF Orderly, PhaseIsRecorded, HoldIsMeasured
    <3>5. CASE Since(downAt, t) < ReallyLongTicks
      <4>1. ~(Since(downAt, t) >= ReallyLongTicks)
        BY <1>3, <3>3, <3>5, Lengths
      <4>2. hold = "none"
        BY <1>8, <1>11, <3>1, <4>1
      <4>3. phase' = "long" /\ stable' /\ longReported' /\ ~reallyReported'
        BY <1>6, <1>11, <2>1, <2>5, <3>1, <4>2 DEF After
      <4>4. HoldIsMeasured'
        BY <1>3, <1>9, <1>11, <2>2, <3>2, <3>3, <3>5, <4>3, Lengths
           DEF HoldIsMeasured
      <4>5. QED
        BY <1>4, <4>3, <4>4 DEF Orderly, PhaseIsRecorded
    <3>6. QED
      BY <1>3, <3>3, <3>4, <3>5, Lengths
  <2>6. CASE phase = "really"
    <3>1. stable /\ longReported /\ reallyReported /\ held >= ReallyLongTicks - 1
      BY <1>1, <2>6 DEF PhaseIsRecorded, HoldIsMeasured
    <3>2. hold = "none"
      BY <1>8, <1>11, <3>1
    <3>3. phase' = "really" /\ stable' /\ longReported' /\ reallyReported'
      BY <1>6, <1>11, <2>1, <2>6, <3>1, <3>2 DEF After
    <3>4. held' >= ReallyLongTicks - 1
      BY <2>1, <2>2, <3>1, Lengths
    <3>5. QED
      BY <1>4, <3>3, <3>4 DEF Orderly, PhaseIsRecorded, HoldIsMeasured
  <2>7. QED
    BY <1>1, <2>3, <2>4, <2>5, <2>6 DEF PhaseIsRecorded
<1>12. CASE /\ SampleChange = "Down" /\ phase = "up"
            /\ s.stable /\ s.downAt = t /\ ~s.long /\ ~s.really
  <2>1. Since(s.downAt, t) = 0
    BY <1>3, <1>12
  <2>2. hold = "none"
    BY <1>8, <2>1, Lengths
  <2>3. phase' = "down" /\ held' = 0
    BY <1>2, <1>12, <2>2 DEF After
  <2>4. stable' /\ ~longReported' /\ ~reallyReported'
    BY <1>6, <1>12, <2>2
  <2>5. HoldIsMeasured'
    BY <1>9, <2>1, <2>3, Lengths DEF HoldIsMeasured
  <2>6. QED
    BY <1>4, <2>3, <2>4, <2>5 DEF Orderly, PhaseIsRecorded
<1>13. CASE /\ SampleChange = IF longReported THEN "LongUp" ELSE "Up"
            /\ phase # "up" /\ ~s.stable
  <2>1. hold = "none"
    BY <1>8, <1>13
  <2>2. After(phase, SampleChange) = "up"
    BY <1>1, <1>13 DEF After, PhaseIsRecorded
  <2>3. phase' = "up" /\ ~stable'
    BY <1>2, <1>6, <1>13, <2>1, <2>2 DEF After
  <2>4. QED
    BY <1>4, <2>3 DEF Orderly, PhaseIsRecorded, HoldIsMeasured
<1>14. QED
  BY <1>10, <1>11, <1>12, <1>13

LEMMA PressInvInductive == PressInv /\ [ButtonsNext]_buttonsVars => PressInv'
<1> SUFFICES ASSUME PressInv, [ButtonsNext]_buttonsVars PROVE PressInv'
  OBVIOUS
<1>1. CASE FastTick
  <2>1. ButtonsInv'
    BY <1>1, ButtonsNextInv DEF PressInv, ButtonsNext
  <2>2. ~raced' => ~raced /\ eic # "accept"
    BY <1>1 DEF FastTick
  <2>3. ~raced' => Orderly'
    BY <1>1, <2>2, FastTickKeepsOrder DEF PressInv
  <2>4. QED
    BY <1>1, <2>1, <2>3, FastTickKeepsStamp DEF PressInv
<1>2. CASE EdgeCount
  BY <1>2, EdgeCountKeepsPressInv
<1>3. CASE EdgeAccept
  BY <1>3, EdgeAcceptKeepsPressInv
<1>4. CASE PinChanges \/ OtherButton \/ EdgeInterrupt \/ EdgeRead \/ UNCHANGED buttonsVars
  BY <1>4, QuietStepsKeepPressInv
<1>5. QED
  BY <1>1, <1>2, <1>3, <1>4 DEF ButtonsNext, EdgeStep

LEMMA PressInvIsSafe == PressInv => EventsInOrder /\ SuspendedOnlyAtRest /\ LongPressOnTime
<1>1. PressInv => EventsInOrder
  BY DEF PressInv, Orderly, PhaseIsRecorded, EventsInOrder
<1>2. PressInv => SuspendedOnlyAtRest
  BY DEF PressInv, ButtonsInv, IdleIsCounted, SuspendedOnlyAtRest
<1>3. PressInv => LongPressOnTime
  <2> SUFFICES ASSUME PressInv, ~raced
               PROVE  /\ phase = "down" => held < LongTicks
                      /\ phase = "long" => held \in LongTicks - 1 .. ReallyLongTicks - 1
                      /\ phase = "really" => held >= ReallyLongTicks - 1
    BY DEF LongPressOnTime
  <2>1. HoldIsMeasured /\ held \in 0 .. TickModulus
    BY DEF PressInv, Orderly, ButtonsInv, ButtonsTyped, ButtonsRanges
  <2>2. QED
    BY <2>1, Lengths DEF HoldIsMeasured
<1>4. QED
  BY <1>1, <1>2, <1>3

(* Unless the two handlers both accepted one change, a face sees Down,     *)
(* perhaps the two long presses, and then the release that belongs to      *)
(* them: never a release or a long press of a button it was not told of.   *)
THEOREM PressesAreInOrder == ButtonsSpec => []EventsInOrder
  BY InitPressInv, PressInvInductive, PressInvIsSafe, PTL DEF ButtonsSpec

(* A long press is reported in the fast tick in which it is due, or one    *)
(* tick early; never late, and not early by the wrap of FAST_TICKS.        *)
THEOREM LongPressesAreOnTime == ButtonsSpec => []LongPressOnTime
  BY InitPressInv, PressInvInductive, PressInvIsSafe, PTL DEF ButtonsSpec
=============================================================================
