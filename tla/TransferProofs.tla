---------------------------- MODULE TransferProofs ----------------------------
(***************************************************************************)
(* The proof that the chunked transfer replaces objects only as a whole,   *)
(* for every set of uploads, however they are cut, and whatever the line   *)
(* loses, whoever restarts and whichever call of the store fails; and that *)
(* the optical receiver accepts frames only forwards, for every width of   *)
(* the sequence numbers and whatever the light garbles.                    *)
(***************************************************************************)
EXTENDS Transfer, Optical, TLAPS

(* How many chunks an upload is cut into.                                  *)
Chunks(u) == Len(Ends[u])

LEMMA UploadTypes ==
  ASSUME NEW u \in Uploads
  PROVE  /\ ObjectOf[u] \in TransferObjects /\ ObjectOf[u] # None
         /\ Chunks(u) \in Nat \ {0}
         /\ \A i \in 1 .. Chunks(u) : Ends[u][i] \in Nat \ {0}
         /\ TotalLen(u) \in Nat \ {0} /\ TotalLen(u) = Ends[u][Chunks(u)]
<1>1. Ends[u] \in Seq(Nat \ {0}) /\ Len(Ends[u]) > 0
  BY TransferAssumption
<1>2. Chunks(u) \in Nat \ {0} /\ \A i \in 1 .. Chunks(u) : Ends[u][i] \in Nat \ {0}
  BY <1>1 DEF Chunks
<1>3. TotalLen(u) = Ends[u][Chunks(u)] /\ Chunks(u) \in 1 .. Chunks(u)
  BY <1>2 DEF TotalLen, Chunks
<1>4. QED
  BY <1>2, <1>3, TransferAssumption

(* What the line carries tells what it is.                                 *)
LEMMA LinesDiffer ==
  /\ Idle.carries = "nothing"
  /\ \A f : FrameOn(f).carries = "frame" /\ FrameOn(f).frame = f
  /\ \A a : AnswerOn(a).carries = "answer" /\ AnswerOn(a).answer = a
  BY DEF Idle, FrameOn, AnswerOn

-----------------------------------------------------------------------------
TransferTyped ==
  /\ sender \in [upload : Uploads, step : Nat]
  /\ sender.step <= Chunks(sender.upload) + 1
  /\ totalLen \in Nat /\ nextOffset \in Nat /\ nextSequence \in Nat

(* The line carries the frame of the sender's step, or an answer to it.    *)
OneFrame ==
  \/ link = Idle
  \/ link = FrameOn(FrameOf(sender))
  \/ \E a \in Answers : link = AnswerOn(a)

(* Every cell up to the receiver's offset is the upload's own.             *)
Holds(u) == \A k \in 1 .. totalLen : k <= nextOffset => staged[k] = <<u, k>>

(* The receiver has the first q chunks of an upload, in place.             *)
Matches(u, q) ==
  /\ q <= Chunks(u)
  /\ object = ObjectOf[u] /\ totalLen = TotalLen(u) /\ nextOffset = Ends[u][q]
  /\ Holds(u)

(* A sender past its first chunk finds a receiver that has counted to its  *)
(* step or to the one before, or one that starts anew; and an Ok tells it  *)
(* that the receiver has counted its step.                                 *)
InStep ==
  /\ nextSequence = 0 => nextOffset = 0
  /\ sender.step > 1 /\ nextSequence > 0 =>
       nextSequence \in {sender.step - 1, sender.step} /\ Matches(sender.upload, nextSequence)
  /\ link = AnswerOn("Ok") /\ sender.step > 0 /\ nextSequence > 0 =>
       nextSequence = sender.step /\ Matches(sender.upload, nextSequence)

(* What is staged has the length the receiver is bound to.                 *)
Staged == object # None => staged = [k \in 1 .. totalLen |-> staged[k]]

TransferInv == TransferTyped /\ OneFrame /\ InStep /\ Staged

LEMMA TransferInitInv == TransferInit => TransferInv
<1> SUFFICES ASSUME TransferInit PROVE TransferInv
  OBVIOUS
<1>1. TransferTyped
  BY UploadTypes DEF TransferInit, Start, TransferTyped
<1>2. OneFrame /\ InStep /\ Staged
  BY DEF TransferInit, OneFrame, InStep, Staged
<1>3. QED
  BY <1>1, <1>2 DEF TransferInv

-----------------------------------------------------------------------------
LEMMA FrameOfStep ==
  ASSUME TransferTyped
  PROVE  LET u == sender.upload
             f == FrameOf(sender)
         IN /\ f.upload = u
            /\ f.command = "Abort" => sender.step = 0
            /\ f.command = "WriteData" =>
                 /\ sender.step \in 1 .. Chunks(u)
                 /\ f.sequence = sender.step - 1 /\ f.end = Ends[u][sender.step]
                 /\ f.offset = IF sender.step = 1 THEN 0 ELSE Ends[u][sender.step - 1]
            /\ f.command = "Commit" =>
                 sender.step = Chunks(u) + 1 /\ f.sequence = Chunks(u) /\ f.offset = TotalLen(u)
<1> DEFINE u == sender.upload
<1>1. u \in Uploads /\ sender.step \in Nat /\ sender.step <= Chunks(u) + 1
      /\ Chunks(u) \in Nat \ {0}
  BY UploadTypes DEF TransferTyped
<1>2. CASE sender.step = 0
  BY <1>1, <1>2 DEF FrameOf, AbortFrame
<1>3. CASE sender.step \in 1 .. Chunks(u)
  <2>1. FrameOf(sender) = DataFrame(u, sender.step)
    BY <1>1, <1>3 DEF FrameOf, Chunks
  <2>2. QED
    BY <1>3, <2>1 DEF DataFrame, StartOf
<1>4. CASE sender.step = Chunks(u) + 1
  <2>1. FrameOf(sender) = CommitFrame(u)
    BY <1>1, <1>4 DEF FrameOf, Chunks
  <2>2. QED
    BY <1>4, <2>1 DEF CommitFrame, Chunks
<1>5. QED
  BY <1>1, <1>2, <1>3, <1>4

(* A refusal moves nothing but the line.                                   *)
LEMMA RefuseKeeps ==
  ASSUME TransferInv, NEW a \in Answers \ {"Ok"}, Refuse(a), UNCHANGED sender
  PROVE  TransferInv' /\ UNCHANGED durable
<1>1. /\ UNCHANGED <<sender, object, totalLen, nextOffset, nextSequence, staged, durable>>
      /\ link' = AnswerOn(a)
  BY DEF Refuse, Answer, receiverVars, storeVars
<1>2. link' # AnswerOn("Ok")
  BY <1>1, LinesDiffer
<1>3. TransferTyped' /\ Staged'
  BY <1>1 DEF TransferInv, TransferTyped, Staged
<1>4. OneFrame'
  BY <1>1 DEF OneFrame
<1>5. InStep'
  BY <1>1, <1>2 DEF TransferInv, InStep, Matches, Holds
<1>6. QED
  BY <1>1, <1>3, <1>4, <1>5 DEF TransferInv

(* WriteData: the frame is the next chunk of the sender's upload, or is    *)
(* refused.                                                                *)
LEMMA DataKeeps ==
  ASSUME TransferInv, UNCHANGED sender, FrameOf(sender).command = "WriteData",
         ReceiveData(FrameOf(sender))
  PROVE  TransferInv' /\ UNCHANGED durable
<1> DEFINE u == sender.upload
           f == FrameOf(sender)
           before == IF object = None THEN Begun(f) ELSE staged
           same == ObjectOf[f.upload] = object /\ TotalLen(f.upload) = totalLen
<1>1. /\ f.upload = u /\ u \in Uploads /\ sender.step \in 1 .. Chunks(u)
      /\ f.sequence = sender.step - 1 /\ f.end = Ends[u][sender.step]
      /\ f.offset = IF sender.step = 1 THEN 0 ELSE Ends[u][sender.step - 1]
  BY FrameOfStep DEF TransferInv, TransferTyped
<1>2. /\ ObjectOf[u] # None /\ Chunks(u) \in Nat \ {0} /\ TotalLen(u) \in Nat \ {0}
      /\ f.end \in Nat /\ f.offset \in Nat
  BY <1>1, UploadTypes
<1>3. CASE \E a \in Answers \ {"Ok"} : Refuse(a)
  BY <1>3, RefuseKeeps
<1>4. CASE ~Unexpected(f) /\ (object = None \/ same)
           /\ object' = ObjectOf[f.upload] /\ totalLen' = TotalLen(f.upload)
           /\ UNCHANGED durable
           /\ \/ /\ staged' = Written(before, f)
                 /\ nextOffset' = f.end /\ nextSequence' = nextSequence + 1
                 /\ Answer("Ok")
              \/ /\ staged' \in {before, Written(before, f)}
                 /\ UNCHANGED <<nextOffset, nextSequence>>
                 /\ Answer("Store")
  <2>1. nextSequence = sender.step - 1 /\ nextOffset = f.offset
    BY <1>1, <1>4 DEF Unexpected
  <2>2. sender.step > 1 => nextSequence > 0 /\ Holds(u) /\ object # None /\ totalLen = TotalLen(u)
    BY <1>1, <1>2, <2>1 DEF TransferInv, InStep, Matches
  <2>3. /\ before = [k \in 1 .. TotalLen(u) |-> before[k]]
        /\ object # None => before = staged /\ totalLen = TotalLen(u)
    BY <1>1, <1>2, <1>4 DEF TransferInv, Staged, Begun
  <2>4. Written(before, f) =
          [k \in 1 .. TotalLen(u) |->
             IF k \in f.offset + 1 .. f.end THEN <<u, k>> ELSE before[k]]
    BY <1>1, <2>3 DEF Written
  <2>5. /\ object' = ObjectOf[u] /\ totalLen' = TotalLen(u) /\ UNCHANGED durable
        /\ staged' \in {before, Written(before, f)}
        /\ nextSequence' \in Nat /\ nextOffset' \in Nat
    BY <1>1, <1>2, <1>4 DEF TransferInv, TransferTyped
  <2>6. TransferTyped'
    BY <2>5, <1>2 DEF TransferInv, TransferTyped
  <2>7. Staged'
    BY <2>3, <2>4, <2>5 DEF Staged
  <2>8. sender.step > 1 =>
          \A k \in 1 .. TotalLen(u) : k <= f.offset => before[k] = <<u, k>>
    BY <2>1, <2>2, <2>3 DEF Holds
  <2>9. CASE /\ staged' = Written(before, f)
             /\ nextOffset' = f.end /\ nextSequence' = nextSequence + 1
             /\ Answer("Ok")
    <3>1. Holds(u)'
      <4> SUFFICES ASSUME NEW k \in 1 .. TotalLen(u), k <= f.end
                   PROVE  Written(before, f)[k] = <<u, k>>
        BY <2>5, <2>9 DEF Holds
      <4>1. CASE k > f.offset
        BY <1>2, <2>4, <4>1
      <4>2. CASE k <= f.offset
        BY <1>1, <1>2, <2>4, <2>8, <4>2
      <4>3. QED
        BY <1>2, <4>1, <4>2
    <3>2. nextSequence' = sender.step /\ nextSequence' > 0
      BY <1>1, <2>1, <2>9
    <3>3. Matches(u, sender.step)'
      BY <1>1, <2>5, <2>9, <3>1 DEF Matches
    <3>4. InStep'
      BY <1>1, <3>2, <3>3 DEF InStep
    <3>5. OneFrame'
      BY <2>9 DEF OneFrame, Answer, Answers
    <3>6. QED
      BY <2>5, <2>6, <2>7, <3>4, <3>5 DEF TransferInv
  <2>10. CASE /\ staged' \in {before, Written(before, f)}
              /\ UNCHANGED <<nextOffset, nextSequence>>
              /\ Answer("Store")
    <3>1. link' # AnswerOn("Ok") /\ OneFrame'
      BY <2>10, LinesDiffer DEF OneFrame, Answer, Answers
    <3>2. sender.step > 1 => Matches(u, nextSequence)'
      <4> SUFFICES ASSUME sender.step > 1 PROVE Matches(u, nextSequence)'
        OBVIOUS
      <4>1. Holds(u)'
        <5> SUFFICES ASSUME NEW k \in 1 .. TotalLen(u), k <= f.offset
                     PROVE  before[k] = <<u, k>> /\ Written(before, f)[k] = <<u, k>>
          BY <2>1, <2>5, <2>10 DEF Holds
        <5>1. QED
          BY <1>2, <2>4, <2>8
      <4>2. nextSequence > 0 /\ Matches(u, nextSequence)
        BY <1>1, <2>1, <2>2 DEF TransferInv, InStep
      <4>3. QED
        BY <2>5, <2>10, <4>1, <4>2 DEF Matches
    <3>3. InStep'
      BY <2>10, <3>1, <3>2 DEF TransferInv, InStep
    <3>4. QED
      BY <2>5, <2>6, <2>7, <3>1, <3>3 DEF TransferInv
  <2>11. QED
    BY <1>4, <2>9, <2>10
<1>5. QED
  BY <1>3, <1>4 DEF ReceiveData, Answers

(* A receiver that is idle again expects a first chunk.                    *)
LEMMA IdleKeeps ==
  ASSUME TransferInv, ReceiverIdle, UNCHANGED sender, OneFrame'
  PROVE  TransferInv'
<1>1. object' = None /\ totalLen' = 0 /\ nextOffset' = 0 /\ nextSequence' = 0
  BY DEF ReceiverIdle
<1>2. TransferTyped' /\ Staged'
  BY <1>1 DEF TransferInv, TransferTyped, Staged
<1>3. InStep'
  BY <1>1 DEF InStep
<1>4. QED
  BY <1>2, <1>3 DEF TransferInv

(* What happens to the objects in a step: nothing, or one of them becomes  *)
(* a whole upload of its own.                                              *)
Replaces == \E u \in Uploads : durable' = [durable EXCEPT ![ObjectOf[u]] = Whole(u)]

(* Commit: it is accepted only of a sender whose chunks are all in place.  *)
LEMMA CommitKeeps ==
  ASSUME TransferInv, UNCHANGED sender, FrameOf(sender).command = "Commit",
         ReceiveCommit(FrameOf(sender))
  PROVE  TransferInv' /\ (UNCHANGED durable \/ Replaces)
<1> DEFINE u == sender.upload
           f == FrameOf(sender)
<1>1. /\ f.upload = u /\ u \in Uploads /\ sender.step = Chunks(u) + 1
      /\ f.sequence = Chunks(u)
  BY FrameOfStep DEF TransferInv, TransferTyped
<1>2. CASE \E a \in Answers \ {"Ok"} : Refuse(a)
  BY <1>2, RefuseKeeps
<1>3. CASE /\ Commits(f) /\ ObjectOf[f.upload] = object
           /\ durable' = [durable EXCEPT ![object] = staged]
           /\ staged' = <<>>
           /\ ReceiverIdle
           /\ Answer("Ok")
  <2>1. nextSequence = Chunks(u) /\ nextSequence > 0 /\ sender.step > 1
    <3>1. Chunks(u) \in Nat \ {0}
      BY <1>1, UploadTypes
    <3>2. nextSequence = Chunks(u)
      BY <1>1, <1>3 DEF Commits
    <3>3. QED
      BY <1>1, <3>1, <3>2
  <2>2. Matches(u, Chunks(u))
    BY <2>1 DEF TransferInv, InStep
  <2>3. staged = Whole(u)
    <3>1. /\ totalLen = TotalLen(u) /\ nextOffset = TotalLen(u)
          /\ \A k \in 1 .. TotalLen(u) : k <= TotalLen(u) => staged[k] = <<u, k>>
      BY <1>1, <2>2, UploadTypes DEF Matches, Holds
    <3>2. staged = [k \in 1 .. TotalLen(u) |-> staged[k]]
      BY <1>1, <1>3, <3>1, UploadTypes DEF TransferInv, Staged
    <3>3. \A k \in 1 .. TotalLen(u) : staged[k] = <<u, k>>
      BY <1>1, <3>1, UploadTypes
    <3>4. QED
      BY <3>2, <3>3 DEF Whole
  <2>4. Replaces
    BY <1>1, <1>3, <2>3 DEF Replaces
  <2>5. OneFrame'
    BY <1>3 DEF OneFrame, Answer, Answers
  <2>6. QED
    BY <1>3, <2>4, <2>5, IdleKeeps
<1>4. QED
  BY <1>2, <1>3 DEF ReceiveCommit, Answers

LEMMA ReceiveKeeps ==
  ASSUME TransferInv, Receive PROVE TransferInv' /\ (UNCHANGED durable \/ Replaces)
<1>1. link.carries = "frame" /\ link.frame = FrameOf(sender)
  BY LinesDiffer DEF Receive, TransferInv, OneFrame
<1>2. UNCHANGED sender
  BY DEF Receive
<1>3. CASE Refuse("Decode")
  BY <1>2, <1>3, RefuseKeeps DEF Answers
<1>4. CASE link.frame.command = "WriteData" /\ ReceiveData(link.frame)
  BY <1>1, <1>2, <1>4, DataKeeps
<1>5. CASE link.frame.command = "Commit" /\ ReceiveCommit(link.frame)
  BY <1>1, <1>2, <1>5, CommitKeeps
<1>6. CASE ReceiveAbort
  <2>1. OneFrame'
    BY <1>6 DEF ReceiveAbort, Answer, Answers, OneFrame
  <2>2. QED
    BY <1>2, <1>6, <2>1, IdleKeeps DEF ReceiveAbort
<1>7. QED
  BY <1>3, <1>4, <1>5, <1>6 DEF Receive

-----------------------------------------------------------------------------
LEMMA ReceiverResetKeeps ==
  ASSUME TransferInv, ReceiverReset PROVE TransferInv' /\ UNCHANGED durable
<1>1. OneFrame'
  BY DEF ReceiverReset, TransferInv, OneFrame
<1>2. QED
  BY <1>1, IdleKeeps DEF ReceiverReset

(* A frame sent or a line gone quiet: no answer is on it.                  *)
LEMMA LineKeeps ==
  ASSUME TransferInv, UNCHANGED <<receiverVars, storeVars, sender>>,
         link' \in {Idle, FrameOn(FrameOf(sender))}
  PROVE  TransferInv' /\ UNCHANGED durable
<1>1. UNCHANGED <<sender, object, totalLen, nextOffset, nextSequence, staged, durable>>
  BY DEF receiverVars, storeVars
<1>2. link' # AnswerOn("Ok")
  BY LinesDiffer
<1>3. OneFrame'
  BY <1>1 DEF OneFrame
<1>4. QED
  BY <1>1, <1>2, <1>3 DEF TransferInv, TransferTyped, InStep, Matches, Holds, Staged

(* A sender that starts over, with nothing on the line, expects nothing.   *)
LEMMA StartKeeps ==
  ASSUME TransferInv, UNCHANGED <<receiverVars, storeVars>>, link' = Idle, sender' \in Start({0, 1})
  PROVE  TransferInv' /\ UNCHANGED durable
<1>1. UNCHANGED <<object, totalLen, nextOffset, nextSequence, staged, durable>>
  BY DEF receiverVars, storeVars
<1>2. link' # AnswerOn("Ok")
  BY LinesDiffer
<1>3. sender' \in [upload : Uploads, step : Nat] /\ sender'.step \in {0, 1}
  BY DEF Start
<1>4. TransferTyped'
  BY <1>1, <1>3, UploadTypes DEF TransferInv, TransferTyped
<1>5. InStep'
  BY <1>1, <1>2, <1>3 DEF TransferInv, InStep
<1>6. QED
  BY <1>1, <1>4, <1>5 DEF TransferInv, OneFrame, Staged

LEMMA TakeAnswerKeeps ==
  ASSUME TransferInv, TakeAnswer PROVE TransferInv' /\ UNCHANGED durable
<1>1. /\ UNCHANGED <<receiverVars, storeVars>> /\ link' = Idle
      /\ UNCHANGED <<object, totalLen, nextOffset, nextSequence, staged, durable>>
  BY DEF TakeAnswer, receiverVars, storeVars
<1>2. PICK a \in Answers : link = AnswerOn(a) /\ link.answer = a
  BY LinesDiffer DEF TakeAnswer, TransferInv, OneFrame
<1>3. /\ sender \in [upload : Uploads, step : Nat]
      /\ sender.step <= Chunks(sender.upload) + 1
      /\ Chunks(sender.upload) \in Nat \ {0}
  BY UploadTypes DEF TransferInv, TransferTyped
<1>4. CASE sender.step = 0
  <2>1. sender' \in Start({0, 1})
    BY <1>3, <1>4 DEF TakeAnswer, Start
  <2>2. QED
    BY <1>1, <2>1, StartKeeps
<1>5. CASE sender.step > 0 /\ link.answer = "Ok" /\ ~Done(sender)
  <2>1. sender' = [sender EXCEPT !.step = @ + 1] /\ sender.step <= Chunks(sender.upload)
    BY <1>3, <1>5 DEF TakeAnswer, Done, Chunks
  <2>2. /\ sender' \in [upload : Uploads, step : Nat]
        /\ sender'.upload = sender.upload /\ sender'.step = sender.step + 1
    BY <1>3, <2>1
  <2>3. TransferTyped'
    BY <1>1, <1>3, <2>1, <2>2 DEF TransferInv, TransferTyped
  <2>4. nextSequence > 0 => nextSequence = sender.step /\ Matches(sender.upload, nextSequence)
    BY <1>2, <1>5 DEF TransferInv, InStep
  <2>5. link' # AnswerOn("Ok")
    BY <1>1, LinesDiffer
  <2>6. InStep'
    BY <1>1, <1>3, <2>2, <2>4, <2>5 DEF TransferInv, InStep, Matches, Holds
  <2>7. QED
    BY <1>1, <2>3, <2>6 DEF TransferInv, OneFrame, Staged
<1>6. CASE sender.step > 0 /\ ~(link.answer = "Ok" /\ ~Done(sender))
  <2>1. sender' \in Start({0, 1})
    BY <1>3, <1>6 DEF TakeAnswer, Start
  <2>2. QED
    BY <1>1, <2>1, StartKeeps
<1>7. QED
  BY <1>3, <1>4, <1>5, <1>6

LEMMA TransferNextInv ==
  TransferInv /\ [TransferNext]_transferVars => TransferInv' /\ (UNCHANGED durable \/ Replaces)
<1> SUFFICES ASSUME TransferInv, [TransferNext]_transferVars
             PROVE  TransferInv' /\ (UNCHANGED durable \/ Replaces)
  OBVIOUS
<1>1. CASE UNCHANGED transferVars
  BY <1>1 DEF transferVars, receiverVars, storeVars, TransferInv, TransferTyped, OneFrame,
     InStep, Matches,
              Holds, Staged
<1>2. CASE Send \/ Lose
  BY <1>2, LineKeeps DEF Send, Lose
<1>3. CASE SenderRestarts
  BY <1>3, StartKeeps DEF SenderRestarts
<1>4. QED
  BY <1>1, <1>2, <1>3, ReceiveKeeps, ReceiverResetKeeps, TakeAnswerKeeps DEF TransferNext

-----------------------------------------------------------------------------
(* Objects are only ever replaced as a whole: the receiver implements the  *)
(* store it promises (ImplementsStore).                                    *)
THEOREM TransferIsWhole == TransferSpec => ImplementsStore
<1>1. TransferInit => Abstract!StoreInit
  BY DEF TransferInit, Abstract!StoreInit
<1>2. TransferInv /\ [TransferNext]_transferVars =>
        [\E o \in TransferObjects : Abstract!Replace(o)]_durable
  <2> SUFFICES ASSUME Replaces
               PROVE  \E o \in TransferObjects : Abstract!Replace(o)
    BY TransferNextInv
  <2>1. PICK u \in Uploads : durable' = [durable EXCEPT ![ObjectOf[u]] = Whole(u)]
    BY DEF Replaces
  <2>2. ObjectOf[u] \in TransferObjects /\ Whole(u) \in UploadsOf[ObjectOf[u]]
    BY UploadTypes DEF UploadsOf
  <2>3. QED
    BY <2>1, <2>2 DEF Abstract!Replace
<1>3. QED
  BY <1>1, <1>2, TransferInitInv, TransferNextInv, PTL DEF TransferSpec, ImplementsStore,
     Abstract!StoreSpec

(* What a cell of the store can hold.                                      *)
Cells == (Uploads \X Nat) \cup {None}

(* What the store holds, and that an idle receiver has counted nothing.    *)
StoreTypes ==
  /\ object \in TransferObjects \cup {None}
  /\ staged \in Seq(Cells)
  /\ durable \in [TransferObjects -> Seq(Cells) \cup {None}]
  /\ object = None => totalLen = 0 /\ nextOffset = 0 /\ nextSequence = 0

(* A whole upload, and what is begun or written of one, is cells.          *)
LEMMA CellTypes ==
  ASSUME NEW u \in Uploads
  PROVE  /\ Whole(u) \in Seq(Cells)
         /\ [k \in 1 .. TotalLen(u) |-> None] \in Seq(Cells)
         /\ \A cells \in Seq(Cells) : \A f : f.upload = u => Written(cells, f) \in Seq(Cells)
<1>1. TotalLen(u) \in Nat
  BY UploadTypes
<1>2. \A k \in Nat : <<u, k>> \in Cells /\ None \in Cells
  BY DEF Cells
<1> HIDE DEF Cells
<1>3. Whole(u) \in Seq(Cells) /\ [k \in 1 .. TotalLen(u) |-> None] \in Seq(Cells)
  <2> DEFINE length == TotalLen(u)
  <2>1. length \in Nat
    BY <1>1
  <2> HIDE DEF length
  <2>2. \A k \in 1 .. length : <<u, k>> \in Cells /\ None \in Cells
    BY <1>2, <2>1
  <2>3. [k \in 1 .. length |-> <<u, k>>] \in [1 .. length -> Cells]
    BY <2>2
  <2>4. [k \in 1 .. length |-> None] \in [1 .. length -> Cells]
    BY <1>2
  <2>5. \A g \in [1 .. length -> Cells] : g \in Seq(Cells)
    BY <2>1
  <2>6. QED
    BY <2>3, <2>4, <2>5 DEF Whole, length
<1>4. ASSUME NEW cells \in Seq(Cells), NEW f, f.upload = u
      PROVE  Written(cells, f) \in Seq(Cells)
  <2> DEFINE length == Len(cells)
  <2>1. length \in Nat /\ DOMAIN cells = 1 .. length /\ \A k \in 1 .. length : cells[k] \in Cells
    OBVIOUS
  <2>2. Written(cells, f) =
          [k \in 1 .. length |-> IF k \in f.offset + 1 .. f.end THEN <<u, k>> ELSE cells[k]]
    BY <1>4, <2>1 DEF Written
  <2> HIDE DEF length
  <2>3. \A k \in 1 .. length :
          (IF k \in f.offset + 1 .. f.end THEN <<u, k>> ELSE cells[k]) \in Cells
    BY <1>2, <2>1
  <2>4. QED
    BY <2>1, <2>2, <2>3
<1>5. QED
  BY <1>3, <1>4

LEMMA StoreTypesInit == TransferInit => StoreTypes
<1> SUFFICES ASSUME TransferInit PROVE StoreTypes
  OBVIOUS
<1>1. durable \in [TransferObjects -> Seq(Cells) \cup {None}]
  BY DEF TransferInit
<1>2. QED
  BY <1>1 DEF TransferInit, StoreTypes

LEMMA StoreTypesNext == TransferInv /\ StoreTypes /\ [TransferNext]_transferVars => StoreTypes'
<1> SUFFICES ASSUME TransferInv, StoreTypes, [TransferNext]_transferVars PROVE StoreTypes'
  OBVIOUS
<1>1. durable' \in [TransferObjects -> Seq(Cells) \cup {None}]
  <2>1. CASE UNCHANGED durable
    BY <2>1 DEF StoreTypes
  <2>2. CASE Replaces
    <3>1. PICK u \in Uploads : durable' = [durable EXCEPT ![ObjectOf[u]] = Whole(u)]
      BY <2>2 DEF Replaces
    <3>2. Whole(u) \in Seq(Cells)
      BY CellTypes
    <3>3. QED
      BY <3>1, <3>2 DEF StoreTypes
  <2>3. QED
    BY <2>1, <2>2, TransferNextInv
<1> DEFINE Receiver ==
      /\ object \in TransferObjects \cup {None} /\ staged \in Seq(Cells)
      /\ object = None => totalLen = 0 /\ nextOffset = 0 /\ nextSequence = 0
<1>2. Receiver'
  <2>1. CASE UNCHANGED <<receiverVars, storeVars>>
    BY <2>1 DEF StoreTypes, receiverVars, storeVars
  <2>2. CASE ReceiverIdle /\ staged' = <<>>
    BY <2>2 DEF ReceiverIdle
  <2>3. CASE link.carries = "frame" /\ ReceiveData(link.frame)
    <3> DEFINE f == link.frame
               before == IF object = None THEN Begun(f) ELSE staged
    <3>1. f = FrameOf(sender)
      BY <2>3, LinesDiffer DEF TransferInv, OneFrame
    <3>2. f.upload \in Uploads
      BY <3>1, FrameOfStep DEF TransferInv, TransferTyped
    <3>3. before \in Seq(Cells) /\ Written(before, f) \in Seq(Cells)
      <4>1. before \in Seq(Cells)
        BY <3>2, CellTypes DEF Begun, StoreTypes
      <4>2. QED
        BY <3>2, <4>1, CellTypes
    <3>4. ObjectOf[f.upload] \in TransferObjects /\ ObjectOf[f.upload] # None
      BY <3>2, UploadTypes
    <3>5. \/ UNCHANGED <<receiverVars, storeVars>>
          \/ object' = ObjectOf[f.upload] /\ staged' \in {before, Written(before, f)}
      BY <2>3 DEF ReceiveData, Refuse
    <3> HIDE DEF f, before
    <3>6. QED
      BY <2>1, <3>3, <3>4, <3>5
  <2>4. CASE UNCHANGED transferVars
    BY <2>1, <2>4 DEF transferVars
  <2>5. CASE Receive
    BY <2>1, <2>2, <2>3, <2>5 DEF Receive, Refuse, ReceiveCommit, ReceiveAbort
  <2>6. QED
    BY <2>1, <2>2, <2>4, <2>5
       DEF TransferNext, ReceiverReset, Send, Lose, TakeAnswer, SenderRestarts
<1>3. QED
  BY <1>1, <1>2 DEF StoreTypes

(* The line carries the frame of a step, or an answer.                     *)
LEMMA LinkTypes == TransferInv => link \in Links
<1> SUFFICES ASSUME TransferInv PROVE link \in Links
  OBVIOUS
<1>1. FrameOf(sender) \in Frames
  <2> DEFINE u == sender.upload
  <2>1. u \in Uploads
    BY DEF TransferInv, TransferTyped
  <2>2. CASE sender.step = 0
    BY <2>1, <2>2 DEF FrameOf, Frames
  <2>3. CASE sender.step \in 1 .. Len(Ends[u])
    BY <2>1, <2>3 DEF FrameOf, Frames
  <2>4. CASE sender.step # 0 /\ sender.step \notin 1 .. Len(Ends[u])
    BY <2>1, <2>4 DEF FrameOf, Frames
  <2>5. QED
    BY <2>2, <2>3, <2>4
<1>2. QED
  BY <1>1 DEF TransferInv, OneFrame, Links

(* The receiver's fields keep their ranges, an idle receiver has counted   *)
(* nothing, and the line carries one frame or one answer.                  *)
THEOREM TransferTypesHold == TransferSpec => []TransferTypeOK
<1>1. TransferInv /\ StoreTypes => TransferTypeOK
  BY LinkTypes DEF TransferInv, TransferTyped, StoreTypes, Cells, TransferTypeOK
<1>2. TransferInv /\ StoreTypes /\ [TransferNext]_transferVars => TransferInv' /\ StoreTypes'
  BY TransferNextInv, StoreTypesNext
<1>3. QED
  BY <1>1, <1>2, TransferInitInv, StoreTypesInit, PTL DEF TransferSpec

-----------------------------------------------------------------------------
(* The optical receiver.                                                   *)

(* What the assumptions say of each constant.                              *)
LEMMA OpticalConstants ==
  /\ SequenceModulus \in Nat \ {0} /\ MaxSent \in Nat \ {0} /\ MaxInWindow \in Nat \ {0}
  /\ AuthorizationTime \in Nat \ {0}
  /\ Lag \in Nat /\ RxTimeout \in Nat /\ DutyWindow \in Nat
  /\ 2 * Lag < SequenceModulus /\ MaxFrameLen \in Nat /\ MaxFrameLen >= 4
  BY OpticalAssumption

(* The sequence number of the frame d before frame a, seen from frame a.   *)
LEMMA BehindIsReplay ==
  ASSUME NEW a \in Nat, NEW k \in Nat, k <= a, a - k <= Lag,
         lastSequence = {a % SequenceModulus}
  PROVE  Replay(k % SequenceModulus)
<1> DEFINE M == SequenceModulus
           x == a % M
           y == k % M
<1>1. M \in Nat \ {0} /\ 2 * Lag < M /\ Lag \in Nat
  BY OpticalConstants
<1>2. x \in 0 .. M - 1 /\ y \in 0 .. M - 1
  BY <1>1
<1>3. a = M * (a \div M) + x /\ k = M * (k \div M) + y
      /\ a \div M \in Nat /\ k \div M \in Nat
  BY <1>1
<1>4. \E e \in Int : y - x = M * e - (a - k)
  <2>1. y - x = M * ((a \div M) - (k \div M)) - (a - k)
    BY <1>1, <1>2, <1>3
  <2>2. (a \div M) - (k \div M) \in Int
    BY <1>3
  <2>3. QED
    BY <2>1, <2>2
<1>5. a - k \in 0 .. Lag
  BY <1>1
<1> HIDE DEF x, y
<1>6. PICK e \in Int : y - x = M * e - (a - k)
  BY <1>4
<1>7. e \in {0, 1}
  <2>1. \A z \in Int : z >= 2 => M * z >= 2 * M
    BY <1>1
  <2>2. \A z \in Int : z <= -1 => M * z <= -M
    BY <1>1
  <2>3. ~(e >= 2)
    BY <1>1, <1>2, <1>5, <1>6, <2>1
  <2>4. ~(e <= -1)
    BY <1>1, <1>2, <1>5, <1>6, <2>2
  <2>5. QED
    BY <2>3, <2>4
<1>8. CASE a = k
  <2>1. y = x
    BY <1>8 DEF x, y
  <2>2. QED
    BY <2>1 DEF Replay, x, y
<1>9. CASE a # k
  <2>1. y + M - x \in 0 .. 2 * M
    BY <1>1, <1>2
  <2>2. (y + M - x) % M = M - (a - k)
    <3>1. CASE e = 0
      <4>1. y + M - x = M - (a - k) /\ M - (a - k) \in 0 .. M - 1
        BY <1>1, <1>2, <1>5, <1>6, <1>9, <3>1
      <4>2. (M - (a - k)) % M = M - (a - k)
        BY <4>1, <1>1
      <4>3. QED
        BY <4>1, <4>2
    <3>2. CASE e = 1
      <4>1. y + M - x = M + (M - (a - k)) /\ M - (a - k) \in 0 .. M - 1
        BY <1>1, <1>2, <1>5, <1>6, <1>9, <3>2
      <4>2. \A z \in 0 .. M - 1 : (M + z) % M = z
        BY <1>1
      <4>3. QED
        BY <4>1, <4>2
    <3>3. QED
      BY <1>7, <3>1, <3>2
  <2>3. 2 * (M - (a - k)) > M
    BY <1>1, <1>5
  <2>4. x \in lastSequence
    BY DEF x
  <2>5. QED
    BY <2>2, <2>3, <2>4 DEF Replay, y
<1>10. QED
  BY <1>8, <1>9

-----------------------------------------------------------------------------
(* The bytes of frames, and noise.                                         *)
Byte == Garbage \cup {Sync1, Sync2} \cup {<<"head", k>> : k \in Nat} \cup {<<"tail", k>> : k \in Nat}

(* The bytes of a frame are bytes.                                         *)
LEMMA FrameBytes ==
  ASSUME NEW k \in Nat
  PROVE  /\ BytesOf(k) = <<Sync1, Sync2, <<"head", k>>, <<"tail", k>> >>
         /\ \A i \in 1 .. 4 : BytesOf(k)[i] \in Byte
         /\ \A i \in 1 .. 4 : \A j : BytesOf(k)[i] = <<"tail", j>> => j = k
<1>1. BytesOf(k) = <<Sync1, Sync2, <<"head", k>>, <<"tail", k>> >>
  BY DEF BytesOf
<1>2. /\ BytesOf(k)[1] = Sync1 /\ BytesOf(k)[2] = Sync2
      /\ BytesOf(k)[3] = <<"head", k>> /\ BytesOf(k)[4] = <<"tail", k>>
  BY <1>1
<1>3. \A i \in 1 .. 4 : i = 1 \/ i = 2 \/ i = 3 \/ i = 4
  OBVIOUS
<1>4. \A i \in 1 .. 4 : BytesOf(k)[i] \in Byte
  BY <1>2, <1>3 DEF Byte
<1>5. \A j : /\ Sync1 # <<"tail", j>> /\ Sync2 # <<"tail", j>>
             /\ <<"head", k>> # <<"tail", j>> /\ (<<"tail", k>> = <<"tail", j>> => j = k)
  BY DEF Sync1, Sync2
<1>6. \A i \in 1 .. 4 : \A j : BytesOf(k)[i] = <<"tail", j>> => j = k
  BY <1>2, <1>3, <1>5
<1>7. QED
  BY <1>1, <1>4, <1>6

(* What the light garbles is not a byte of a frame.                        *)
LEMMA NoiseBytes ==
  /\ Garbage \subseteq Byte
  /\ \A byte \in Garbage : \A j : byte # <<"tail", j>>
  BY DEF Garbage, Byte, Sync1

(* The decoder's buffer and clocks.                                        *)
DecoderTypes ==
  /\ buffer \in Seq(Byte) /\ Len(buffer) < MaxFrameLen
  /\ Len(buffer) >= 1 => buffer[1] = Sync1
  /\ Len(buffer) >= 2 => buffer[2] = Sync2
  /\ byteAge \subseteq 0 .. RxTimeout + 1 /\ windowAge \in 0 .. DutyWindow
  /\ framesInWindow \in 0 .. MaxInWindow

(* The session and its deadline.                                           *)
OpticalSessionTypes ==
  /\ opticalState \in {"Idle", "Receiving", "Authenticated", "Authorized", "AckQueued", "Expired"}
  /\ ack \subseteq 0 .. SequenceModulus - 1

(* The sender repeats only frames as recent as its newest less Lag, and    *)
(* what was accepted last is one that was sent.                            *)
SenderTypes ==
  /\ newest \in 1 .. MaxSent /\ sending \in 1 .. newest /\ newest - Lag <= sending
  /\ sentBytes \in 0 .. 4

(* The decoder remembers the sequence number of the frame it accepted      *)
(* last.                                                                   *)
AcceptedIsRemembered ==
  /\ accepted \in 0 .. newest /\ rtcSetBy \in 0 .. accepted
  /\ lastSequence = IF accepted = 0 THEN {} ELSE {accepted % SequenceModulus}

(* The deadline runs down as the authorization grows old.                  *)
AuthorizationIsTimed ==
  \/ deadline = {} /\ authorizedFor = {}
  \/ \E left \in 0 .. AuthorizationTime :
       deadline = {left} /\ authorizedFor = {AuthorizationTime - left}

(* The inductive invariant of the optical receiver.                        *)
OpticalInv ==
  DecoderTypes /\ OpticalSessionTypes /\ SenderTypes /\ AcceptedIsRemembered /\ AuthorizationIsTimed

LEMMA OpticalInitInv == OpticalInit => OpticalInv
  BY OpticalConstants
     DEF OpticalInit, OpticalInv, DecoderTypes, OpticalSessionTypes, SenderTypes,
        AcceptedIsRemembered,
         AuthorizationIsTimed

(* A byte is accepted as the tail of a frame the decoder has not seen, or  *)
(* changes nothing of what was accepted and authorized.                    *)
NothingAccepted == UNCHANGED <<lastSequence, accepted, rtcSetBy, deadline, authorizedFor>>

(* Frame k is accepted, and is the last one now.                           *)
FrameAccepted(k) ==
  /\ ~Replay(k % SequenceModulus)
  /\ lastSequence' = {k % SequenceModulus} /\ accepted' = k
  /\ UNCHANGED <<deadline, authorizedFor>>
  /\ rtcSetBy' = rtcSetBy \/ (rtcSetBy' = k /\ deadline \notin {{}, {0}})

LEMMA PushAccepts ==
  ASSUME DecoderTypes, NEW byte \in Byte, Push(byte)
  PROVE  NothingAccepted \/ \E k : byte = <<"tail", k>> /\ FrameAccepted(k)
<1> DEFINE grown == Append(buffer, byte)
           k == grown[HeaderLen][2]
           frames == IF windowAge >= DutyWindow THEN 0 ELSE framesInWindow
<1>1. Complete(grown) \/ (OnlyReceiving /\ UNCHANGED <<lastSequence, accepted>>)
  BY DEF Push
<1>2. CASE OnlyReceiving /\ UNCHANGED <<lastSequence, accepted>>
  BY <1>2 DEF OnlyReceiving, NothingAccepted
<1>3. CASE Complete(grown) /\ ~(OnlyReceiving /\ UNCHANGED <<lastSequence, accepted>>)
  <2>1. /\ grown = BytesOf(k) /\ ~Replay(k % SequenceModulus) /\ Serve(k)
        /\ lastSequence' = {k % SequenceModulus} /\ accepted' = k
    BY <1>3 DEF Complete
  <2>2. FrameAccepted(k)
    BY <2>1 DEF FrameAccepted, Serve
  <2>3. byte = <<"tail", k>>
    <3>1. Len(grown) = Len(buffer) + 1 /\ grown[Len(buffer) + 1] = byte /\ Len(buffer) \in Nat
      BY DEF DecoderTypes
    <3>2. Len(BytesOf(k)) = 4 /\ BytesOf(k)[4] = <<"tail", k>>
      BY DEF BytesOf
    <3> HIDE DEF grown, k
    <3>3. Len(buffer) + 1 = 4
      BY <2>1, <3>1, <3>2
    <3>4. QED
      BY <2>1, <3>1, <3>2, <3>3
  <2>4. QED
    BY <2>2, <2>3
<1>4. QED
  BY <1>1, <1>2, <1>3

(* The lengths of the buffers that a byte of a frame leaves.               *)
LEMMA ByteLengths ==
  ASSUME NEW byte \in Byte
  PROVE  Expected(byte) \in Nat
<1>1. CASE byte \in Garbage
  BY <1>1, OpticalConstants DEF Garbage, Expected, Sync1
<1>2. CASE byte \notin Garbage
  BY <1>2 DEF Byte, Expected, Sync1, Sync2
<1>3. QED
  BY <1>1, <1>2

(* Whatever byte arrives, the decoder keeps its types.                     *)
LEMMA PushKeepsDecoder ==
  ASSUME DecoderTypes, NEW byte \in Byte, Push(byte)
  PROVE  DecoderTypes'
<1> DEFINE late == \E age \in byteAge : age > RxTimeout
           grown == Append(buffer, byte)
           collects == Len(grown) < HeaderLen \/ Len(grown) < Expected(grown[HeaderLen])
           tooLong == Len(grown) >= HeaderLen /\ Expected(grown[HeaderLen]) > MaxFrameLen
           completes == ~late /\ Len(buffer) >= 2 /\ ~collects
           begins == buffer = <<>> \/ (Len(buffer) = 1 /\ byte # Sync2)
<1>1. /\ byteAge' = {0}
      /\ buffer' = CASE late -> <<>>
                     [] ~late /\ begins -> IF byte = Sync1 THEN <<byte>> ELSE <<>>
                     [] OTHER -> IF tooLong \/ completes THEN <<>> ELSE grown
      /\ \/ completes /\ Complete(grown)
         \/ UNCHANGED <<windowAge, framesInWindow>>
  BY DEF Push
<1>2. buffer' = <<>> \/ (byte = Sync1 /\ buffer' = <<byte>>)
        \/ (~late /\ ~begins /\ ~tooLong /\ ~completes /\ buffer' = grown)
  <2>1. CASE late
    BY <1>1, <2>1
  <2>2. CASE ~late /\ begins
    BY <1>1, <2>2
  <2>3. CASE ~late /\ ~begins
    BY <1>1, <2>3
  <2>4. QED
    BY <2>1, <2>2, <2>3
<1>3. /\ Len(buffer) \in Nat /\ Len(grown) = Len(buffer) + 1 /\ grown \in Seq(Byte)
      /\ grown[Len(buffer) + 1] = byte /\ \A i \in 1 .. Len(buffer) : grown[i] = buffer[i]
      /\ (buffer = <<>> <=> Len(buffer) = 0)
  BY DEF DecoderTypes
<1>4. /\ buffer' \in Seq(Byte) /\ Len(buffer') < MaxFrameLen
      /\ Len(buffer') >= 1 => buffer'[1] = Sync1
      /\ Len(buffer') >= 2 => buffer'[2] = Sync2
  <2>1. CASE buffer' = <<>>
    BY <2>1, OpticalConstants
  <2>2. CASE byte = Sync1 /\ buffer' = <<byte>>
    BY <2>2, OpticalConstants
  <2>3. CASE ~late /\ ~begins /\ ~tooLong /\ ~completes /\ buffer' = grown
    <3> HIDE DEF grown
    <3>1. Len(buffer) >= 1 /\ (Len(buffer) = 1 => byte = Sync2)
      BY <1>3, <2>3
    <3>2. grown[1] = Sync1 /\ grown[2] = Sync2
      <4>1. grown[1] = buffer[1] /\ buffer[1] = Sync1
        BY <1>3, <3>1 DEF DecoderTypes
      <4>2. CASE Len(buffer) = 1
        BY <1>3, <3>1, <4>1, <4>2
      <4>3. CASE Len(buffer) # 1
        <5>1. Len(buffer) >= 2
          <6>1. \A n \in Nat : n >= 1 /\ n # 1 => n >= 2
            OBVIOUS
          <6>2. Len(buffer) \in Nat
            BY <1>3
          <6>3. QED
            BY <3>1, <4>3, <6>1, <6>2
        <5>2. buffer[2] = Sync2 /\ 2 \in 1 .. Len(buffer)
          BY <1>3, <5>1 DEF DecoderTypes
        <5>3. QED
          BY <1>3, <4>1, <5>2
      <4>4. QED
        BY <4>2, <4>3
    <3>3. Len(grown) < MaxFrameLen
      <4>1. CASE Len(grown) < HeaderLen
        BY <4>1, <1>3, OpticalConstants DEF HeaderLen
      <4>2. CASE ~(Len(grown) < HeaderLen)
        <5>1. Len(grown) >= 3 /\ Len(buffer) >= 2
          BY <4>2, <1>3 DEF HeaderLen
        <5>2. Len(grown) < Expected(grown[HeaderLen]) /\ ~(Expected(grown[HeaderLen]) > MaxFrameLen)
          BY <2>3, <4>2, <5>1 DEF HeaderLen
        <5>3. Expected(grown[HeaderLen]) \in Nat
          <6>1. grown[HeaderLen] \in Byte
            BY <1>3, <5>1 DEF HeaderLen
          <6>2. QED
            BY <6>1, ByteLengths
        <5>4. QED
          BY <1>3, <5>2, <5>3, OpticalConstants
      <4>3. QED
        BY <4>1, <4>2
    <3>4. QED
      BY <1>3, <2>3, <3>2, <3>3
  <2>4. QED
    BY <1>2, <2>1, <2>2, <2>3
<1>5. windowAge' \in 0 .. DutyWindow /\ framesInWindow' \in 0 .. MaxInWindow
  <2> DEFINE frames == IF windowAge >= DutyWindow THEN 0 ELSE framesInWindow
  <2>1. CASE UNCHANGED <<windowAge, framesInWindow>>
    BY <2>1 DEF DecoderTypes
  <2>2. CASE Complete(grown)
    <3>1. /\ windowAge' = windowAge \/ windowAge' = 0
          /\ framesInWindow' = framesInWindow \/ framesInWindow' = frames
             \/ (~(frames >= MaxInWindow) /\ framesInWindow' = frames + 1)
      BY <2>2 DEF Complete
    <3>2. frames \in 0 .. MaxInWindow
      BY OpticalConstants DEF DecoderTypes
    <3> HIDE DEF frames
    <3>3. QED
      BY <3>1, <3>2, OpticalConstants DEF DecoderTypes
  <2>3. QED
    BY <1>1, <2>1, <2>2
<1>6. byteAge' \subseteq 0 .. RxTimeout + 1
  <2>1. byteAge' = {0}
    BY <1>1
  <2>2. QED
    BY <2>1, OpticalConstants
<1>7. QED
  BY <1>4, <1>5, <1>6 DEF DecoderTypes

(* Whatever byte arrives, the session keeps its types.                     *)
LEMMA PushKeepsSession ==
  ASSUME OpticalSessionTypes, NEW byte \in Byte, Push(byte), DecoderTypes
  PROVE  OpticalSessionTypes'
<1> DEFINE grown == Append(buffer, byte)
           k == grown[HeaderLen][2]
<1>1. /\ Polled.state \in {"Idle", "Receiving", "Authenticated", "Authorized", "AckQueued", "Expired"}
      /\ Polled.ack \subseteq 0 .. SequenceModulus - 1
  BY DEF Polled, OpticalSessionTypes
<1>2. OnlyReceiving \/ (Serve(k) /\ byte = <<"tail", k>>)
  <2>1. OnlyReceiving \/ (grown = BytesOf(k) /\ Serve(k))
    BY DEF Push, Complete
  <2>2. ASSUME grown = BytesOf(k) PROVE byte = <<"tail", k>>
    <3>1. Len(grown) = Len(buffer) + 1 /\ grown[Len(buffer) + 1] = byte /\ Len(buffer) \in Nat
      BY DEF DecoderTypes
    <3>2. Len(BytesOf(k)) = 4 /\ BytesOf(k)[4] = <<"tail", k>>
      BY DEF BytesOf
    <3> HIDE DEF grown, k
    <3>3. Len(buffer) + 1 = 4
      BY <2>2, <3>1, <3>2
    <3>4. QED
      BY <2>2, <3>1, <3>2, <3>3
  <2>3. QED
    BY <2>1, <2>2
<1>3. CASE OnlyReceiving
  BY <1>1, <1>3 DEF OnlyReceiving, OpticalSessionTypes
<1>4. CASE Serve(k) /\ byte = <<"tail", k>>
  <2> HIDE DEF k
  <2>1. k \in Nat
    BY <1>4 DEF Byte, Garbage, Sync1, Sync2
  <2>2. k % SequenceModulus \in 0 .. SequenceModulus - 1
    BY <2>1, OpticalConstants
  <2>3. QED
    BY <1>1, <1>4, <2>2 DEF Serve, OpticalSessionTypes
<1>5. QED
  BY <1>2, <1>3, <1>4

-----------------------------------------------------------------------------
(* What every step does to the frame accepted last: nothing, a reset, or   *)
(* the frame that the sender is sending.                                   *)
LEMMA SenderPushes ==
  ASSUME SenderTypes, ByteArrives
  PROVE  /\ SenderTypes' /\ newest' = newest
         /\ \E byte \in Byte : Push(byte) /\ \A k : byte = <<"tail", k>> => k = sending
<1>1. /\ sentBytes < 4 /\ sentBytes' = sentBytes + 1 /\ newest' = newest /\ sending' = sending
      /\ Push(BytesOf(sending)[sentBytes + 1])
  BY DEF ByteArrives, SendByte
<1>2. sentBytes + 1 \in 1 .. 4 /\ sending \in Nat
  BY <1>1, OpticalConstants DEF SenderTypes
<1>3. SenderTypes'
  BY <1>1, <1>2 DEF SenderTypes
<1>4. /\ BytesOf(sending)[sentBytes + 1] \in Byte
      /\ \A k : BytesOf(sending)[sentBytes + 1] = <<"tail", k>> => k = sending
  BY <1>2, FrameBytes
<1>5. QED
  BY <1>1, <1>3, <1>4

(* A frame that the decoder accepts is newer than the last one.            *)
LEMMA AcceptedIsNewer ==
  ASSUME SenderTypes, AcceptedIsRemembered, ~Replay(sending % SequenceModulus)
  PROVE  sending > accepted
<1> SUFFICES ASSUME sending <= accepted PROVE FALSE
  BY OpticalConstants DEF SenderTypes, AcceptedIsRemembered
<1>1. /\ sending \in Nat /\ accepted \in Nat /\ accepted # 0
      /\ accepted - sending <= Lag
  BY OpticalConstants DEF SenderTypes, AcceptedIsRemembered
<1>2. lastSequence = {accepted % SequenceModulus}
  BY <1>1 DEF AcceptedIsRemembered
<1>3. QED
  BY <1>1, <1>2, BehindIsReplay

(* A byte of the frame being sent arrives.                                 *)
LEMMA ByteArrivesKeeps ==
  ASSUME OpticalInv, ByteArrives
  PROVE  /\ OpticalInv'
         /\ \/ NothingAccepted
            \/ accepted' > accepted /\ FrameAccepted(accepted')
<1>1. /\ DecoderTypes /\ OpticalSessionTypes /\ SenderTypes /\ AcceptedIsRemembered
      /\ AuthorizationIsTimed
  BY DEF OpticalInv
<1>2. /\ SenderTypes' /\ newest' = newest
  BY <1>1, SenderPushes
<1>3. PICK byte \in Byte : Push(byte) /\ \A k : byte = <<"tail", k>> => k = sending
  BY <1>1, SenderPushes
<1>4. DecoderTypes' /\ OpticalSessionTypes'
  BY <1>1, <1>3, PushKeepsDecoder, PushKeepsSession
<1>5. NothingAccepted \/ FrameAccepted(sending)
  BY <1>1, <1>3, PushAccepts
<1>6. CASE NothingAccepted
  <2>1. AcceptedIsRemembered' /\ AuthorizationIsTimed'
    BY <1>1, <1>2, <1>6 DEF NothingAccepted, AcceptedIsRemembered, AuthorizationIsTimed
  <2>2. QED
    BY <1>2, <1>4, <1>6, <2>1 DEF OpticalInv
<1>7. CASE FrameAccepted(sending)
  <2>1. accepted' = sending /\ sending > accepted
    BY <1>1, <1>7, AcceptedIsNewer DEF FrameAccepted
  <2>2. AcceptedIsRemembered'
    BY <1>1, <1>2, <1>7, <2>1, OpticalConstants
       DEF FrameAccepted, AcceptedIsRemembered, SenderTypes
  <2>3. AuthorizationIsTimed'
    BY <1>1, <1>7 DEF FrameAccepted, AuthorizationIsTimed
  <2>4. QED
    BY <1>2, <1>4, <1>7, <2>1, <2>2, <2>3 DEF OpticalInv
<1>8. QED
  BY <1>5, <1>6, <1>7

(* A byte of noise arrives.                                                *)
LEMMA NoiseKeeps ==
  ASSUME OpticalInv, Noise
  PROVE  OpticalInv' /\ NothingAccepted
<1>1. PICK byte \in Garbage : Push(byte)
  BY DEF Noise
<1>2. byte \in Byte /\ \A j : byte # <<"tail", j>>
  BY NoiseBytes
<1>3. DecoderTypes' /\ OpticalSessionTypes'
  BY <1>1, <1>2, PushKeepsDecoder, PushKeepsSession DEF OpticalInv
<1>4. NothingAccepted
  BY <1>1, <1>2, PushAccepts DEF OpticalInv
<1>5. SenderTypes' /\ AcceptedIsRemembered' /\ AuthorizationIsTimed'
  BY <1>4 DEF OpticalInv, Noise, senderVars, NothingAccepted, SenderTypes, AcceptedIsRemembered,
     AuthorizationIsTimed
<1>6. QED
  BY <1>3, <1>4, <1>5 DEF OpticalInv

(* Steps that accept nothing, but may forget or change the authorization.  *)
OtherSteps ==
  \/ BeginFrame \/ ByteLost \/ OpticalTimePasses \/ TickCountWraps
  \/ AuthorizeUntil \/ ClearAuthorization \/ OpticalReset

LEMMA OtherStepsKeepOptical ==
  ASSUME OpticalInv, OtherSteps \/ UNCHANGED opticalVars
  PROVE  /\ OpticalInv'
         /\ accepted' \in {accepted, 0} /\ rtcSetBy' \in {rtcSetBy, 0}
<1>1. /\ DecoderTypes /\ OpticalSessionTypes /\ SenderTypes /\ AcceptedIsRemembered
      /\ AuthorizationIsTimed
  BY DEF OpticalInv
<1>2. CASE BeginFrame
  <2>1. /\ sentBytes' = 0 /\ sending' \in {k \in newest - Lag .. newest + 1 : k >= 1 /\ k <= MaxSent}
        /\ newest' = IF sending' > newest THEN sending' ELSE newest
        /\ UNCHANGED <<decoderVars, sessionStateVars>>
    BY <1>2 DEF BeginFrame
  <2>2. SenderTypes' /\ newest <= newest'
    <3>1. /\ newest \in 1 .. MaxSent /\ sending' \in Int /\ sending' >= 1 /\ sending' <= MaxSent
          /\ sending' >= newest - Lag /\ sending' <= newest + 1
      BY <1>1, <2>1, OpticalConstants DEF SenderTypes
    <3>2. CASE sending' > newest
      <4>1. newest' = sending' /\ sentBytes' = 0
        BY <2>1, <3>2
      <4>2. newest' - Lag <= sending' /\ sending' \in 1 .. newest' /\ newest' \in 1 .. MaxSent
        <5>1. sending' \in 1 .. MaxSent
          BY <3>1, OpticalConstants
        <5>2. \A n \in 1 .. MaxSent : n - Lag <= n /\ n \in 1 .. n
          BY OpticalConstants
        <5>3. QED
          BY <4>1, <5>1, <5>2
      <4>3. newest <= newest'
        BY <3>1, <3>2, <4>1
      <4>4. QED
        BY <4>1, <4>2, <4>3 DEF SenderTypes
    <3>3. CASE ~(sending' > newest)
      BY <2>1, <3>1, <3>3, OpticalConstants DEF SenderTypes
    <3>4. QED
      BY <3>2, <3>3
  <2>3. DecoderTypes' /\ OpticalSessionTypes' /\ AuthorizationIsTimed'
    BY <1>1, <2>1
       DEF decoderVars, sessionStateVars, DecoderTypes, OpticalSessionTypes, AuthorizationIsTimed
  <2>4. AcceptedIsRemembered' /\ accepted' = accepted /\ rtcSetBy' = rtcSetBy
    BY <1>1, <2>1, <2>2, OpticalConstants
       DEF decoderVars, sessionStateVars, AcceptedIsRemembered, SenderTypes
  <2>5. QED
    BY <2>2, <2>3, <2>4 DEF OpticalInv
<1>3. CASE ByteLost \/ UNCHANGED opticalVars
  <2>1. UNCHANGED <<decoderVars, sessionStateVars, newest, sending>>
        /\ (sentBytes' = sentBytes \/ (sentBytes < 4 /\ sentBytes' = sentBytes + 1))
    BY <1>3 DEF ByteLost, SendByte, opticalVars, senderVars
  <2>2. QED
    BY <1>1, <2>1
       DEF decoderVars, sessionStateVars, OpticalInv, DecoderTypes, OpticalSessionTypes,
          SenderTypes,
           AcceptedIsRemembered, AuthorizationIsTimed
<1>4. CASE OpticalTimePasses
  <2>1. /\ UNCHANGED <<buffer, framesInWindow, lastSequence, accepted, opticalState, ack, rtcSetBy,
                       newest, sending, sentBytes>>
        /\ byteAge' = {IF age <= RxTimeout THEN age + 1 ELSE age : age \in byteAge}
        /\ windowAge' = IF windowAge < DutyWindow THEN windowAge + 1 ELSE windowAge
        /\ deadline' = {IF left > 0 THEN left - 1 ELSE left : left \in deadline}
        /\ authorizedFor' =
             {IF age < AuthorizationTime THEN age + 1 ELSE age : age \in authorizedFor}
    BY <1>4 DEF OpticalTimePasses, senderVars
  <2>2. DecoderTypes' /\ OpticalSessionTypes' /\ SenderTypes' /\ AcceptedIsRemembered'
    BY <1>1, <2>1, OpticalConstants DEF DecoderTypes, OpticalSessionTypes, SenderTypes,
       AcceptedIsRemembered
  <2>3. AuthorizationIsTimed'
    <3>1. CASE deadline = {} /\ authorizedFor = {}
      BY <2>1, <3>1 DEF AuthorizationIsTimed
    <3>2. ASSUME NEW left \in 0 .. AuthorizationTime, deadline = {left},
                 authorizedFor = {AuthorizationTime - left}
          PROVE  AuthorizationIsTimed'
      <4>1. /\ deadline' = {IF left > 0 THEN left - 1 ELSE left}
            /\ authorizedFor' = {IF AuthorizationTime - left < AuthorizationTime
                                  THEN AuthorizationTime - left + 1
                                  ELSE AuthorizationTime - left}
        BY <2>1, <3>2
      <4>2. QED
        BY <3>2, <4>1, OpticalConstants DEF AuthorizationIsTimed
    <3>3. QED
      BY <1>1, <3>1, <3>2 DEF AuthorizationIsTimed
  <2>4. QED
    BY <2>1, <2>2, <2>3 DEF OpticalInv
<1>5. CASE TickCountWraps
  <2>1. /\ UNCHANGED <<buffer, framesInWindow, lastSequence, accepted, opticalState, ack, rtcSetBy,
                       deadline, authorizedFor, newest, sending, sentBytes>>
        /\ byteAge' = {RxTimeout + 1 : age \in byteAge} /\ windowAge' = DutyWindow
    BY <1>5 DEF TickCountWraps, sessionStateVars, senderVars
  <2>2. QED
    BY <1>1, <2>1, OpticalConstants
       DEF OpticalInv, DecoderTypes, OpticalSessionTypes, SenderTypes, AcceptedIsRemembered,
           AuthorizationIsTimed
<1>6. CASE AuthorizeUntil \/ ClearAuthorization
  <2>1. /\ UNCHANGED <<decoderVars, ack, rtcSetBy, newest, sending, sentBytes>>
        /\ opticalState' = opticalState \/ opticalState' = "Expired"
        /\ \/ deadline' = {AuthorizationTime} /\ authorizedFor' = {0}
           \/ deadline' = {} /\ authorizedFor' = {}
    BY <1>6 DEF AuthorizeUntil, ClearAuthorization, senderVars
  <2>2. AuthorizationIsTimed'
    BY <2>1, OpticalConstants DEF AuthorizationIsTimed
  <2>3. QED
    BY <1>1, <2>1, <2>2
       DEF decoderVars, OpticalInv, DecoderTypes, OpticalSessionTypes, SenderTypes,
          AcceptedIsRemembered
<1>7. CASE OpticalReset
  BY <1>1, <1>7, OpticalConstants
     DEF OpticalReset, senderVars, OpticalInv, DecoderTypes, OpticalSessionTypes, SenderTypes,
         AcceptedIsRemembered, AuthorizationIsTimed
<1>8. QED
  BY <1>2, <1>3, <1>4, <1>5, <1>6, <1>7 DEF OtherSteps

LEMMA OpticalNextInv == OpticalInv /\ [OpticalNext]_opticalVars => OpticalInv'
  BY ByteArrivesKeeps, NoiseKeeps, OtherStepsKeepOptical DEF OpticalNext, OtherSteps

(* The decoder holds less than a frame that begins with the preamble, and  *)
(* accepts no more frames than its window allows.                          *)
THEOREM OpticalTypesHold == OpticalSpec => []OpticalTypeOK
<1>1. OpticalInv => OpticalTypeOK
  <2> SUFFICES ASSUME OpticalInv PROVE OpticalTypeOK
    OBVIOUS
  <2>1. BytesOf(1)[1] = Sync1 /\ BytesOf(1)[2] = Sync2
    BY DEF BytesOf
  <2>2. \A i \in 1 .. Len(buffer) : i < 3 => buffer[i] = BytesOf(1)[i]
    <3>1. \A i \in 1 .. Len(buffer) : i < 3 => i = 1 \/ (i = 2 /\ Len(buffer) >= 2)
      BY DEF OpticalInv, DecoderTypes
    <3>2. Len(buffer) \in Nat
      BY DEF OpticalInv, DecoderTypes
    <3>3. QED
      BY <2>1, <3>1, <3>2 DEF OpticalInv, DecoderTypes
  <2>3. deadline \subseteq 0 .. AuthorizationTime
    BY DEF OpticalInv, AuthorizationIsTimed
  <2>4. lastSequence \subseteq 0 .. SequenceModulus - 1
    BY OpticalConstants DEF OpticalInv, AcceptedIsRemembered
  <2>5. QED
    BY <2>2, <2>3, <2>4
       DEF OpticalInv, DecoderTypes, OpticalSessionTypes, SenderTypes, AcceptedIsRemembered,
          OpticalTypeOK
<1>2. QED
  BY <1>1, OpticalInitInv, OpticalNextInv, PTL DEF OpticalSpec

(* A frame is accepted at most once and never after a newer one, whatever  *)
(* is lost, garbled, repeated or late, through every wrap of the sequence  *)
(* numbers; and the RTC is set only by the frame just accepted, while the  *)
(* authorization lasts (Decoder::push, OpticalSession::service).           *)
THEOREM AcceptedFramesAdvance == OpticalSpec => FramesAdvance
<1> DEFINE Advance ==
      /\ accepted' \notin {0, accepted} => accepted' > accepted
      /\ rtcSetBy' \notin {0, rtcSetBy} =>
           rtcSetBy' = accepted' /\ rtcSetBy' > accepted
           /\ \E age \in authorizedFor : age < AuthorizationTime
<1>1. OpticalInv /\ OpticalNext => Advance
  <2> SUFFICES ASSUME OpticalInv, OpticalNext PROVE Advance
    OBVIOUS
  <2>1. CASE OtherSteps
    BY <2>1, OtherStepsKeepOptical
  <2>2. CASE NothingAccepted
    BY <2>2 DEF NothingAccepted
  <2>3. CASE accepted' > accepted /\ FrameAccepted(accepted')
    <3>1. ASSUME rtcSetBy' # rtcSetBy
          PROVE  rtcSetBy' = accepted' /\ \E age \in authorizedFor : age < AuthorizationTime
      <4>1. rtcSetBy' = accepted' /\ deadline \notin {{}, {0}}
        BY <2>3, <3>1 DEF FrameAccepted
      <4>2. PICK left \in 0 .. AuthorizationTime :
              deadline = {left} /\ authorizedFor = {AuthorizationTime - left}
        BY <4>1 DEF OpticalInv, AuthorizationIsTimed
      <4>3. AuthorizationTime - left < AuthorizationTime
        BY <4>1, <4>2, OpticalConstants
      <4>4. QED
        BY <4>1, <4>2, <4>3
    <3>2. QED
      BY <2>3, <3>1
  <2>4. QED
    BY <2>1, <2>2, <2>3, ByteArrivesKeeps, NoiseKeeps DEF OpticalNext, OtherSteps
<1>2. OpticalInv /\ [OpticalNext]_opticalVars => [Advance]_opticalVars
  BY <1>1
<1>3. QED
  BY <1>2, OpticalInitInv, OpticalNextInv, PTL DEF OpticalSpec, FramesAdvance
=============================================================================
