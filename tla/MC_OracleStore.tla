--------------------------- MODULE MC_OracleStore ---------------------------
(***************************************************************************)
(* The ingestion handler on its own, driven by every batch an unsigned     *)
(* caller can put in a transaction: validate_unsigned admits any           *)
(* update_enevt_htlc call whatever its records (oracle.rs 655-666), so     *)
(* the batches are arbitrary sequences of records, duplicates, terminal    *)
(* records for unknown swaps and conflicting opens included.               *)
(***************************************************************************)
EXTENDS OracleStore

CONSTANTS
    MaxBatch,    \* longest batch submitted
    MaxEvents    \* bound on the event history, to keep the model finite

ASSUME MaxBatch \in Nat /\ MaxEvents \in Nat

Batches == BoundedSeq(Records, MaxBatch)

Init == StoreInit

\* One block including one update_enevt_htlc call; batches that would push
\* the history past MaxEvents are left out (the empty batch never does).
Next ==
    \E htlcs \in Batches :
        /\ UpdateEventHtlc(htlcs)
        /\ Len(emitted') <= MaxEvents

Spec == Init /\ [][Next]_storeVars
=============================================================================
