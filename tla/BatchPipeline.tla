---------------------------- MODULE BatchPipeline ----------------------------
(***************************************************************************)
(* What a Query promises its caller (spec 4.2, 8): execute() calls run one *)
(* at a time; the k-th call puts a new batch into context k mod Depth and  *)
(* returns, eventually, the result of exactly that batch.  A batch is a    *)
(* tag counted modulo TagMod; Mixed is a result no single batch produced.  *)
(***************************************************************************)
EXTENDS Naturals

CONSTANTS Depth, MaxExec, TagMod

VARIABLES
  aCalls,   \* execute() calls begun
  aBusy,    \* a call is between its write and its return
  aBatch,   \* context -> tag of the batch it last received
  aOut      \* the result the last call returned

avars == <<aCalls, aBusy, aBatch, aOut>>

Slot(k) == k % Depth

AInit ==
  /\ aCalls = 0 /\ aBusy = FALSE /\ aOut = 0
  /\ aBatch = [c \in 0..(Depth - 1) |-> 0]

(* A call hands its batch to the next context of the ring. *)
Begin ==
  /\ ~aBusy /\ aCalls < MaxExec
  /\ aBusy' = TRUE /\ aCalls' = aCalls + 1
  /\ aBatch' = [aBatch EXCEPT ![Slot(aCalls)] = (@ + 1) % TagMod]
  /\ UNCHANGED aOut

(* The call returns the result of its own batch. *)
Return ==
  /\ aBusy /\ aBusy' = FALSE
  /\ aOut' = aBatch[Slot(aCalls - 1)]
  /\ UNCHANGED <<aCalls, aBatch>>

ASpec == AInit /\ [][Begin \/ Return]_avars /\ WF_avars(Return)
=============================================================================
