------------------------------- MODULE Transfer -------------------------------
(***************************************************************************)
(* The chunked write protocol of src/core/src/transfer.rs: the Receiver,   *)
(* its AtomicStore, and a sender that drives it over a serial line that    *)
(* loses and corrupts frames.  The store and the sender are outside the    *)
(* repository: the store as the trait describes it, the sender as the      *)
(* Receiver's answers allow - one frame at a time, repeated when no answer *)
(* comes, Abort after every refusal.                                       *)
(*                                                                         *)
(* An upload u is a content for object ObjectOf[u], cut into chunks        *)
(* that end at Ends[u][1] < ... < Ends[u][n], its length.  A cell is one   *)
(* unit of content: its upload and its position, <<upload, k>>.            *)
(***************************************************************************)
EXTENDS Naturals, Sequences

CONSTANTS
  Uploads,         \* what senders may send
  TransferObjects, \* ObjectId
  ObjectOf,        \* [Uploads -> TransferObjects]
  Ends,            \* Frame.offset of the end of each chunk
  None             \* no object, no content

ASSUME TransferAssumption ==
  /\ ObjectOf \in [Uploads -> TransferObjects] /\ None \notin TransferObjects
  /\ Ends \in [Uploads -> Seq(Nat \ {0})]
  /\ \A u \in Uploads :
       /\ Len(Ends[u]) > 0
       /\ \A i \in 1 .. Len(Ends[u]) - 1 : Ends[u][i] < Ends[u][i + 1]

VARIABLES
  object, totalLen, nextOffset, nextSequence,  \* the Receiver
  staged,          \* AtomicStore: what was written since begin
  durable,         \*   and what was committed last, per object
  sender,          \* what the sender is about: its upload, and the next step
  link             \* the frame or the answer on the line

receiverVars == <<object, totalLen, nextOffset, nextSequence>>
storeVars == <<staged, durable>>
transferVars == <<receiverVars, storeVars, sender, link>>

TotalLen(u) == Ends[u][Len(Ends[u])]
StartOf(u, i) == IF i = 1 THEN 0 ELSE Ends[u][i - 1]

(* The content of an upload, cell by cell.                                 *)
Whole(u) == [k \in 1 .. TotalLen(u) |-> <<u, k>>]

(* Frames: chunk i of an upload with the offset it starts at, the Commit   *)
(* at its end, and Abort.                                                  *)
DataFrame(u, i) ==
  [command |-> "WriteData", upload |-> u, sequence |-> i - 1, offset |-> StartOf(u, i),
   end |-> Ends[u][i]]
CommitFrame(u) ==
  [command |-> "Commit", upload |-> u, sequence |-> Len(Ends[u]), offset |-> TotalLen(u),
   end |-> TotalLen(u)]
AbortFrame(u) ==
  [command |-> "Abort", upload |-> u, sequence |-> 0, offset |-> 0, end |-> 0]

Frames == {AbortFrame(u) : u \in Uploads} \cup {CommitFrame(u) : u \in Uploads}
          \cup UNION {{DataFrame(u, i) : i \in 1 .. Len(Ends[u])} : u \in Uploads}
Answers == {"Ok", "Decode", "Sequence", "State", "Store"}

(* The line carries one frame, one answer, or nothing.                     *)
Idle == [carries |-> "nothing"]
FrameOn(f) == [carries |-> "frame", frame |-> f]
AnswerOn(a) == [carries |-> "answer", answer |-> a]
Links == {Idle} \cup {FrameOn(f) : f \in Frames} \cup {AnswerOn(a) : a \in Answers}

-----------------------------------------------------------------------------
(* Step 0 of a sender is Abort, 1 .. n are its chunks, n + 1 its Commit.   *)
Start(steps) == [upload : Uploads, step : steps]

FrameOf(s) ==
  CASE s.step = 0 -> AbortFrame(s.upload)
    [] s.step \in 1 .. Len(Ends[s.upload]) -> DataFrame(s.upload, s.step)
    [] OTHER -> CommitFrame(s.upload)

TransferInit ==
  /\ object = None /\ totalLen = 0 /\ nextOffset = 0 /\ nextSequence = 0
  /\ staged = <<>> /\ durable = [o \in TransferObjects |-> None]
  /\ sender \in Start({0, 1})
  /\ link = Idle

(* Wrong on purpose: the count of chunks is kept.                          *)
ReceiverKeepsCount ==
  object' = None /\ totalLen' = 0 /\ nextOffset' = 0 /\ UNCHANGED nextSequence

(* Idle: what new() and every end of a transfer leave.                     *)
ReceiverIdle ==
  object' = None /\ totalLen' = 0 /\ nextOffset' = 0 /\ nextSequence' = 0

Answer(a) == link' = AnswerOn(a)

Refuse(a) == Answer(a) /\ UNCHANGED <<receiverVars, storeVars>>

(* AtomicStore: begin takes room for the whole object, write_chunk fills   *)
(* its part of it.                                                         *)
Begun(f) == [k \in 1 .. TotalLen(f.upload) |-> None]
Written(cells, f) ==
  [k \in DOMAIN cells |-> IF k \in f.offset + 1 .. f.end THEN <<f.upload, k>> ELSE cells[k]]

(* Wrong on purpose: whatever comes is taken for the next chunk.           *)
UnexpectedNever(f) == FALSE

(* The sequence and offset a data frame must have.                         *)
Unexpected(f) == f.sequence # nextSequence \/ f.offset # nextOffset

(* Receiver::receive, WriteData: begin once, then write in order.  After   *)
(* begin the receiver is bound to the object and its length.  Either call  *)
(* may fail, and a write_chunk that failed may have written or not.        *)
ReceiveData(f) ==
  LET begins == object = None
      before == IF begins THEN Begun(f) ELSE staged
      same == ObjectOf[f.upload] = object /\ TotalLen(f.upload) = totalLen
  IN \/ Unexpected(f) /\ Refuse("Sequence")
     \/ ~Unexpected(f) /\ begins /\ Refuse("Store")
     \/ ~Unexpected(f) /\ ~begins /\ ~same /\ Refuse("State")
     \/ /\ ~Unexpected(f) /\ (begins \/ same)
        /\ object' = ObjectOf[f.upload] /\ totalLen' = TotalLen(f.upload)
        /\ UNCHANGED durable
        /\ \/ /\ staged' = Written(before, f)
              /\ nextOffset' = f.end /\ nextSequence' = nextSequence + 1
              /\ Answer("Ok")
           \/ /\ staged' \in {before, Written(before, f)}
              /\ UNCHANGED <<nextOffset, nextSequence>>
              /\ Answer("Store")

(* The guard of the Commit arm.                                            *)
Commits(f) == f.sequence = nextSequence /\ f.offset = totalLen

(* Receiver::receive, Commit: the staged content becomes durable as it is. *)
ReceiveCommit(f) ==
  \/ ~Commits(f) /\ Refuse("State")
  \/ Commits(f) /\ ObjectOf[f.upload] # object /\ Refuse("State")
  \/ Commits(f) /\ ObjectOf[f.upload] = object /\ Refuse("Store")
  \/ /\ Commits(f) /\ ObjectOf[f.upload] = object
     /\ durable' = [durable EXCEPT ![object] = staged]
     /\ staged' = <<>>
     /\ ReceiverIdle
     /\ Answer("Ok")

(* Receiver::receive, Abort: always answered with an error.                *)
ReceiveAbort ==
  staged' = <<>> /\ ReceiverIdle /\ Answer("State") /\ UNCHANGED durable

(* A frame arrives, or what is left of it: decode or authenticate refuses. *)
Receive ==
  /\ link.carries = "frame"
  /\ \/ Refuse("Decode")
     \/ link.frame.command = "WriteData" /\ ReceiveData(link.frame)
     \/ link.frame.command = "Commit" /\ ReceiveCommit(link.frame)
     \/ link.frame.command = "Abort" /\ ReceiveAbort
  /\ UNCHANGED sender

(* The receiving watch resets: what was not committed is lost.             *)
ReceiverReset ==
  /\ ReceiverIdle /\ staged' = <<>>
  /\ UNCHANGED <<durable, sender, link>>

-----------------------------------------------------------------------------
(* The sender (external).                                                  *)
Send ==
  /\ link = Idle
  /\ link' = FrameOn(FrameOf(sender))
  /\ UNCHANGED <<receiverVars, storeVars, sender>>

(* The line loses a frame or an answer; the sender's timeout exceeds the   *)
(* round trip, so it sends again when nothing is under way.                *)
Lose ==
  /\ link # Idle
  /\ link' = Idle
  /\ UNCHANGED <<receiverVars, storeVars, sender>>

Done(s) == s.step > Len(Ends[s.upload])

(* An answer: the next step, another upload when all is done, or Abort     *)
(* after a refusal.  Abort is done when it is answered with its error.     *)
TakeAnswer ==
  /\ link.carries = "answer"
  /\ link' = Idle
  /\ CASE sender.step = 0 ->
            sender' = [sender EXCEPT !.step = IF link.answer = "State" THEN 1 ELSE 0]
       [] sender.step > 0 /\ link.answer = "Ok" ->
            IF Done(sender) THEN sender' \in Start({0, 1})
            ELSE sender' = [sender EXCEPT !.step = @ + 1]
       [] OTHER -> sender' \in Start({0})
  /\ UNCHANGED <<receiverVars, storeVars>>

(* The sender is restarted while nothing of its is under way.              *)
SenderRestarts ==
  /\ link = Idle
  /\ sender' \in Start({0, 1})
  /\ UNCHANGED <<receiverVars, storeVars, link>>

TransferNext ==
  Receive \/ ReceiverReset \/ Send \/ Lose \/ TakeAnswer \/ SenderRestarts

TransferSpec == TransferInit /\ [][TransferNext]_transferVars

-----------------------------------------------------------------------------
(* The receiver's fields keep their ranges; a receiver without an object   *)
(* expects a first chunk.                                                  *)
TransferTypeOK ==
  /\ object \in TransferObjects \cup {None}
  /\ {totalLen, nextOffset, nextSequence} \subseteq Nat
  /\ staged \in Seq((Uploads \X Nat) \cup {None})
  /\ durable \in [TransferObjects -> Seq((Uploads \X Nat) \cup {None}) \cup {None}]
  /\ sender \in [upload : Uploads, step : Nat]
  /\ link \in Links
  /\ object = None => totalLen = 0 /\ nextOffset = 0 /\ nextSequence = 0

(* Whatever the line loses, whoever restarts and whichever call of the     *)
(* store fails, an object only ever changes from one whole upload to       *)
(* another: nothing is committed with a chunk missing, repeated, out of    *)
(* place or from another upload.                                           *)
UploadsOf == [o \in TransferObjects |-> {Whole(u) : u \in {v \in Uploads : ObjectOf[v] = o}}]

Abstract ==
  INSTANCE TransferStore WITH
    Objects <- TransferObjects, stored <- durable,
    Nothing <- None, Contents <- UploadsOf

ImplementsStore == Abstract!StoreSpec
=============================================================================
