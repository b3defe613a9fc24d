------------------------------- MODULE DidIndex -------------------------------
(***************************************************************************)
(* The index step of the DID pallet's create                               *)
(* (src/bin/node/modules/did/src/lib.rs 179-190): AllDidCount is bumped   *)
(* with checked_add, and the old count is encoded with                     *)
(* HarshBuilder::new().salt("prochain did").length(6).init().unwrap().     *)
(* The index is stored both ways: AllDidsArray[hash(idx)] = did and        *)
(* AllDidsIndex[did] = idx.                                                *)
(*                                                                         *)
(* The rest of create is in Did.  Did keys AllDidsArray by the count       *)
(* instead of by hash(idx), which is sound only while encode is injective  *)
(* on the counts reached; IndexFresh checks exactly that.  T::Hashing is   *)
(* taken to be collision-free, so hash(idx) is represented by idx.         *)
(* A did is new on every successful create (the Metadata check), so the   *)
(* did created at count c is represented by c.                             *)
(***************************************************************************)
EXTENDS Harsh

CONSTANTS
    Salt,          \* the salt bytes ("prochain did")
    HashLength,    \* the minimum hash length (6)
    FirstCount,    \* AllDidCount when the behaviour starts
    MaxDidCount    \* the largest AllDidCount: checked_add fails beyond it (u64::MAX)

VARIABLES
    allDidCount,   \* AllDidCount
    allDidsArray,  \* AllDidsArray: partial function idx -> did
    allDidsIndex   \* AllDidsIndex: partial function did -> idx

indexVars == <<allDidCount, allDidsArray, allDidsIndex>>

\* The Harsh value create builds; init() cannot fail with the default alphabet.
Harsher == HarshInit(WithLength(WithSalt(HarshBuilderNew, Salt), HashLength))

ASSUME Harsher.err = "none"

Bytes == 0..255

(* The counts below FirstCount were used by dids created before the        *)
(* behaviour starts; their entries are left out.                           *)
IndexInit ==
    /\ allDidCount = FirstCount
    /\ allDidsArray = [i \in {} |-> 0]
    /\ allDidsIndex = [d \in {} |-> <<>>]

(* lib.rs 179-190: new_count = all_did_count + 1 (Err "Overflow adding a   *)
(* new did" past MaxDidCount, where create stops for good), idx =          *)
(* encode([all_did_count]), and both index maps written.                   *)
CreateIndex ==
    LET idx == Encode(Harsher, <<allDidCount>>)
        did == allDidCount
    IN  /\ allDidCount < MaxDidCount
        /\ allDidCount' = allDidCount + 1
        /\ allDidsArray' = (idx :> did) @@ allDidsArray
        /\ allDidsIndex' = (did :> idx) @@ allDidsIndex

IndexSpec == IndexInit /\ [][CreateIndex]_indexVars

-----------------------------------------------------------------------------
(* Properties.                                                             *)

(* create never overwrites an AllDidsArray entry: the index encoded for    *)
(* the new count is not the index of any did created before, so every did  *)
(* stays reachable from its index.                                         *)
IndexFresh ==
    [][\A i \in DOMAIN allDidsArray :
          i \in DOMAIN allDidsArray' /\ allDidsArray'[i] = allDidsArray[i]]_indexVars
=============================================================================
