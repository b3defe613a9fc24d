----------------------------- MODULE OracleStore -----------------------------
(***************************************************************************)
(* SwapStateStore and IngestionHandler of the Oracle pallet                *)
(* (src/bin/node/runtime/src/oracle.rs).                                   *)
(*                                                                         *)
(* The pallet keeps two maps keyed by swap_id, SwapData (the decoded       *)
(* EventHTLC) and SwapStates (always OPEN when present), and one unsigned  *)
(* call, update_enevt_htlc, that walks a batch of decoded records in order *)
(* and, per record, inserts an OPEN swap, or removes a swap on Claimed or  *)
(* Refunded.  A record whose precondition fails is skipped and the rest of *)
(* the batch goes on.  The deposited events are kept in `emitted`, a       *)
(* history of every HTLC / Claim / Refund event the pallet ever deposited. *)
(*                                                                         *)
(* A record is abstracted to the fields the handler's control reads or     *)
(* that tell records apart: its event_type, its swap_id and its receiver.  *)
(***************************************************************************)
EXTENDS Naturals, Sequences, SequencesExt, Functions, TLC

CONSTANTS
    Swaps,       \* swap ids (T::Hash of the external swap id)
    Receivers    \* receiver accounts a record can name

VARIABLES
    swapData,    \* SwapData: partial function swap_id -> record
    swapStates,  \* SwapStates: partial function swap_id -> HTLCStates
    emitted      \* every HTLC / Claim / Refund event deposited so far

storeVars == <<swapData, swapStates, emitted>>

\* HTLCType and HTLCStates of the source.
HTLCTypes  == {"HTLC", "Claimed", "Refunded"}
HTLCStates == {"INVALID", "OPEN", "COMPLETED", "EXPIRED"}

\* EventHTLC, reduced to the fields the handler branches on or stores.
Records == [event_type : HTLCTypes, swap_id : Swaps, receiver_addr : Receivers]

\* The events HTLC(..), Claim(..) and Refund(..) of decl_event!.
EventNames == {"HTLC", "Claim", "Refund"}
Events     == [name : EventNames, swap_id : Swaps]

\* The event a terminal record deposits.
TerminalEvent == [Claimed |-> "Claim", Refunded |-> "Refund"]

StoreTypeOK ==
    /\ DOMAIN swapData \subseteq Swaps
    /\ \A s \in DOMAIN swapData : swapData[s] \in Records
    /\ DOMAIN swapStates \subseteq Swaps
    /\ \A s \in DOMAIN swapStates : swapStates[s] \in HTLCStates
    /\ emitted \in Seq(Events)

NoSwaps == [s \in {} |-> "OPEN"]

StoreInit ==
    /\ swapData = NoSwaps
    /\ swapStates = NoSwaps
    /\ emitted = <<>>

(***************************************************************************)
(* One iteration of the `for htlc in htlcs` loop of update_enevt_htlc,     *)
(* on the store st = [data, states, events].  An HTLC record is inserted   *)
(* only when neither map holds its swap_id; a Claimed or Refunded record   *)
(* removes the swap only when both maps hold it.  Otherwise the record is  *)
(* skipped (the print_utf8 branches).                                      *)
(***************************************************************************)
\* Mutant: the `!exists` guard of the HTLC branch dropped.
IsAbsentAlways(st, id) == TRUE

IsAbsent(st, id)  == id \notin DOMAIN st.data /\ id \notin DOMAIN st.states
IsPresent(st, id) == id \in DOMAIN st.data /\ id \in DOMAIN st.states

OpenSwap(st, htlc) ==
    [data   |-> (htlc.swap_id :> htlc) @@ st.data,
     states |-> (htlc.swap_id :> "OPEN") @@ st.states,
     events |-> Append(st.events, [name |-> "HTLC", swap_id |-> htlc.swap_id])]

\* Mutant: SwapStates::remove forgotten.
CloseSwapKeepState(st, htlc) ==
    [data   |-> Restrict(st.data, DOMAIN st.data \ {htlc.swap_id}),
     states |-> st.states,
     events |-> Append(st.events, [name    |-> TerminalEvent[htlc.event_type],
                                   swap_id |-> htlc.swap_id])]

\* Mutant: deposit_event forgotten.
CloseSwapNoEvent(st, htlc) ==
    [data   |-> Restrict(st.data, DOMAIN st.data \ {htlc.swap_id}),
     states |-> Restrict(st.states, DOMAIN st.states \ {htlc.swap_id}),
     events |-> st.events]

CloseSwap(st, htlc) ==
    [data   |-> Restrict(st.data, DOMAIN st.data \ {htlc.swap_id}),
     states |-> Restrict(st.states, DOMAIN st.states \ {htlc.swap_id}),
     events |-> Append(st.events, [name    |-> TerminalEvent[htlc.event_type],
                                   swap_id |-> htlc.swap_id])]

\* Mutant: the `exists` guard of the Claimed / Refunded branches dropped.
ApplyHtlcNoGuard(st, htlc) ==
    IF htlc.event_type = "HTLC"
    THEN IF IsAbsent(st, htlc.swap_id) THEN OpenSwap(st, htlc) ELSE st
    ELSE CloseSwap(st, htlc)

ApplyHtlc(st, htlc) ==
    IF htlc.event_type = "HTLC"
    THEN IF IsAbsent(st, htlc.swap_id) THEN OpenSwap(st, htlc) ELSE st
    ELSE IF IsPresent(st, htlc.swap_id) THEN CloseSwap(st, htlc) ELSE st

(***************************************************************************)
(* update_enevt_htlc(origin, htlcs): ensure_none, then the whole batch in  *)
(* order, as one state transition of the block that includes the call.     *)
(* The `_ => Err` arm is unreachable: HTLCType has exactly three variants  *)
(* and a call with another discriminant fails to decode before dispatch.   *)
(***************************************************************************)
UpdateEventHtlc(htlcs) ==
    LET final == FoldLeft(ApplyHtlc,
                          [data |-> swapData, states |-> swapStates, events |-> emitted],
                          htlcs)
    IN  /\ swapData' = final.data
        /\ swapStates' = final.states
        /\ emitted' = final.events

-----------------------------------------------------------------------------
(* Properties of the store, for any sequence of batches.                   *)

(* SwapStateStore consistency: update_enevt_htlc writes SwapData and       *)
(* SwapStates together, so the two maps always hold the same swap ids, and *)
(* every stored state is OPEN.                                             *)
StoresAgree ==
    /\ DOMAIN swapData = DOMAIN swapStates
    /\ \A s \in DOMAIN swapStates : swapStates[s] = "OPEN"

(* Per swap, the deposited events alternate HTLC, terminal, HTLC, ...:     *)
(* update_enevt_htlc never deposits a Claim or Refund for a swap that has  *)
(* no open HTLC event before it, and never two HTLC events without a       *)
(* terminal event between them.  Stated on the event history, so it takes  *)
(* several batches, and records skipped in between, to break.              *)
SwapEvents(s) == SelectSeq(emitted, LAMBDA e : e.swap_id = s)

EventsAlternate ==
    \A s \in Swaps :
        LET ev == SwapEvents(s)
        IN  \A i \in DOMAIN ev : (ev[i].name = "HTLC") <=> (i % 2 = 1)

(* The swap currently stored is exactly the one whose last event is HTLC:  *)
(* the event stream a client replays agrees with storage.                  *)
EventsMatchStore ==
    \A s \in Swaps :
        (s \in DOMAIN swapData) <=>
            (SwapEvents(s) # <<>> /\ Last(SwapEvents(s)).name = "HTLC")

(* A stored swap record is never rewritten in place: a swap stored before *)
(* and after a step, with no Claim or Refund deposited for it during the   *)
(* step, keeps its record (the source inserts only into an absent key and  *)
(* otherwise only removes; it never updates).                              *)
NewEvents == SubSeq(emitted', Len(emitted) + 1, Len(emitted'))

RecordsImmutable ==
    [][\A s \in DOMAIN swapData \cap DOMAIN swapData' :
          (\A i \in DOMAIN NewEvents : NewEvents[i].swap_id = s => NewEvents[i].name = "HTLC")
              => swapData'[s] = swapData[s]]_storeVars
=============================================================================
