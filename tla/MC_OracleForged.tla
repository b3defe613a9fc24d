--------------------------- MODULE MC_OracleForged ---------------------------
(***************************************************************************)
(* Oracle with one more actor: any peer of the network.  update_enevt_htlc *)
(* only checks ensure_none (oracle.rs 221-223, "TODO: add auth control")   *)
(* and validate_unsigned admits every call of that shape (655-664), so a   *)
(* peer can put any batch of records in a pool, just as an off-chain       *)
(* worker does.                                                            *)
(***************************************************************************)
EXTENDS Oracle

CONSTANT MaxForged   \* longest forged batch

\* A peer submits an unsigned update_enevt_htlc call of its own making.
ForgeSubmit(n, htlcs) ==
    /\ pool[n] = NoTx
    /\ pool' = [pool EXCEPT ![n] = htlcs]
    /\ UNCHANGED <<ethLog, indexed, height, praTokenAddr, ocRequests, authorities,
                   swapData, swapStates, emitted, worker>>

ForgedNext ==
    \/ Next
    \/ \E n \in Nodes, htlcs \in BoundedSeq(Store!Records, MaxForged) : ForgeSubmit(n, htlcs)

ForgedSpec == Init /\ [][ForgedNext]_vars
=============================================================================
