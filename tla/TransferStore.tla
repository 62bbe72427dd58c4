----------------------------- MODULE TransferStore -----------------------------
(***************************************************************************)
(* What the transfer protocol of src/core/src/transfer.rs promises of each *)
(* allowlisted object: it is replaced as a whole, by a whole transfer.     *)
(***************************************************************************)
CONSTANTS
  Objects,           \* ObjectId
  Contents,          \* the whole contents that may be sent for each
  Nothing            \* what an object holds at first

VARIABLE stored      \* what each object holds

StoreInit == stored = [o \in Objects |-> Nothing]

Replace(o) == \E c \in Contents[o] : stored' = [stored EXCEPT ![o] = c]

StoreSpec == StoreInit /\ [][\E o \in Objects : Replace(o)]_stored
=============================================================================
