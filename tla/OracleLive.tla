------------------------------ MODULE OracleLive ------------------------------
(***************************************************************************)
(* The Oracle ingestion pipeline over unbounded time, for liveness         *)
(* (src/bin/node/runtime/src/oracle.rs 213-304, 594-622, 655-664).         *)
(*                                                                         *)
(* The behaviour starts after kickoff_event_fetch: OcRequests holds one    *)
(* source and PraTokenAddr is the custody account Custody, and root makes  *)
(* no further call (a kill_event_fetch would stop ingestion by design).    *)
(* The block number is kept modulo BLOCK_DURATION, which is all that       *)
(* offchain_worker reads of it, so behaviours are infinite and the state   *)
(* space finite.  The event history of the store is left out (it grows    *)
(* without bound); Oracle checks the events over bounded heights.          *)
(*                                                                         *)
(* Every import of a block whose number the period divides starts a worker *)
(* on every node; workers of one node run concurrently.  worker[n] is the  *)
(* set of the states of n's workers in flight: two workers of one node in  *)
(* the same state are one element (they take the same steps).              *)
(***************************************************************************)
EXTENDS Naturals, Sequences, SequencesExt, Functions

CONSTANTS
    Nodes,           \* nodes running off-chain workers and authoring blocks
    Swaps,           \* external swap ids
    Accounts,        \* ledger accounts
    Custody,         \* PraTokenAddr, set by kickoff_event_fetch
    BLOCK_DURATION,  \* the period of offchain_worker
    Classes,         \* the entry classes the indexer may serve
    MaxBadAnswers,   \* how many 200 answers with a bad envelope the indexer gives
    NoTx             \* an empty pool

ASSUME Custody \in Accounts /\ BLOCK_DURATION \in Nat \ {0} /\ MaxBadAnswers \in Nat

VARIABLES
    ethLog,          \* the HTLC contract's log entries, in order
    indexed,         \* how many of them the indexer serves
    badAnswers,      \* how many bad-envelope answers it has given
    tick,            \* the best block number modulo BLOCK_DURATION
    swapData, swapStates,   \* SwapData and SwapStates (see OracleStore)
    worker,          \* worker[n]: the states of node n's workers in flight
    pool             \* pool[n]: the update_enevt_htlc transaction in n's pool

liveVars == <<ethLog, indexed, badAnswers, tick, swapData, swapStates, worker, pool>>

Store == INSTANCE OracleStore WITH Receivers <- Accounts, emitted <- <<>>
Codec == INSTANCE OracleCodec

\* A worker before its fetch (after it, the phase is "fetched" and the
\* record holds the parsed batch).
Start == [phase |-> "start", batch |-> <<>>]

LiveInit ==
    /\ ethLog = <<>>
    /\ indexed = 0
    /\ badAnswers = 0
    /\ tick \in 0..(BLOCK_DURATION - 1)
    /\ Store!StoreInit
    /\ worker = [n \in Nodes |-> {}]
    /\ pool = [n \in Nodes |-> NoTx]

-----------------------------------------------------------------------------
(* The external chain and the indexer (environment), as in Oracle.         *)

HasEntry(s, kinds) == \E i \in DOMAIN ethLog : ethLog[i].swap = s /\ ethLog[i].kind \in kinds

EthOpen(s, r, c) ==
    /\ ~HasEntry(s, Codec!LogKinds)
    /\ ethLog' = Append(ethLog, [kind |-> "HTLC", swap |-> s, receiver |-> r, class |-> c])
    /\ UNCHANGED <<indexed, badAnswers, tick, swapData, swapStates, worker, pool>>

EthSettle(s, kind, c) ==
    /\ HasEntry(s, {"HTLC"})
    /\ ~HasEntry(s, {"Claimed", "Refunded"})
    /\ LET open == SelectInSeq(ethLog, LAMBDA e : e.swap = s)
       IN  ethLog' = Append(ethLog, [kind |-> kind, swap |-> s,
                                     receiver |-> ethLog[open].receiver, class |-> c])
    /\ UNCHANGED <<indexed, badAnswers, tick, swapData, swapStates, worker, pool>>

IndexerCatchUp ==
    /\ indexed < Len(ethLog)
    /\ indexed' = indexed + 1
    /\ UNCHANGED <<ethLog, badAnswers, tick, swapData, swapStates, worker, pool>>

-----------------------------------------------------------------------------
(***************************************************************************)
(* Node n authors the next block with the transaction of its pool, if      *)
(* any: update_enevt_htlc folds the batch into the store, and the included *)
(* transaction leaves every pool holding it.  On import, offchain_worker   *)
(* starts a worker on every node iff BLOCK_DURATION divides the number.    *)
(***************************************************************************)
Included(n) ==
    IF pool[n] = NoTx THEN [data |-> swapData, states |-> swapStates]
    ELSE FoldLeft(Store!ApplyHtlc,
                  [data |-> swapData, states |-> swapStates, events |-> <<>>], pool[n])

\* Mutant: the included transaction is not removed from the author's pool.
AuthorBlockKeepPool(n) ==
    LET st == Included(n)
        due == (tick + 1) % BLOCK_DURATION = 0
    IN  /\ swapData' = st.data
        /\ swapStates' = st.states
        /\ pool' = [m \in Nodes |-> IF m # n /\ pool[m] = pool[n] THEN NoTx ELSE pool[m]]
        /\ tick' = (tick + 1) % BLOCK_DURATION
        /\ worker' = [m \in Nodes |-> IF due THEN worker[m] \cup {Start} ELSE worker[m]]
        /\ UNCHANGED <<ethLog, indexed, badAnswers>>

AuthorBlock(n) ==
    LET st == Included(n)
        due == (tick + 1) % BLOCK_DURATION = 0
    IN  /\ swapData' = st.data
        /\ swapStates' = st.states
        /\ pool' = [m \in Nodes |-> IF pool[m] = pool[n] THEN NoTx ELSE pool[m]]
        /\ tick' = (tick + 1) % BLOCK_DURATION
        /\ worker' = [m \in Nodes |-> IF due THEN worker[m] \cup {Start} ELSE worker[m]]
        /\ UNCHANGED <<ethLog, indexed, badAnswers>>

-----------------------------------------------------------------------------
(* Off-chain workers: offchain_events, fetch_events, http_request_get.     *)
(* The chain's OcRequests is never changed by a worker (its kill runs in   *)
(* the off-chain overlay), so every worker sees the one source.            *)

\* http_request_get returns Err (status not 200, an empty body), or never
\* returns: the body read loop (611-616) exits only on Ok(0), and once the
\* 10 s deadline passes http_response_read_body returns Err on every call.
\* Either way the round ends for the pipeline with nothing submitted.
WorkerHttpFail(n) ==
    /\ Start \in worker[n]
    /\ worker' = [worker EXCEPT ![n] = @ \ {Start}]
    /\ UNCHANGED <<ethLog, indexed, badAnswers, tick, swapData, swapStates, pool>>

\* The indexer's current body is parsed against Custody; a panic of the
\* decoder ends the worker.  A bad envelope parses to an empty batch,
\* which is submitted all the same.
WorkerFetch(n, envelopeOk) ==
    LET body == [envelopeOk |-> envelopeOk, result |-> SubSeq(ethLog, 1, indexed)]
    IN  /\ Start \in worker[n]
        /\ envelopeOk \/ badAnswers < MaxBadAnswers
        /\ badAnswers' = IF envelopeOk THEN badAnswers ELSE badAnswers + 1
        /\ worker' = [worker EXCEPT ![n] =
                        IF Codec!Panics(body) THEN @ \ {Start}
                        ELSE (@ \ {Start}) \cup
                             {[phase |-> "fetched", batch |-> Codec!ParseData(body, Custody)]}]
        /\ UNCHANGED <<ethLog, indexed, tick, swapData, swapStates, pool>>

\* submit_unsigned: the pool admits the call iff it holds none with the
\* constant `provides` tag; either way the worker ends.
WorkerSubmit(n, w) ==
    /\ w \in worker[n]
    /\ w.phase = "fetched"
    /\ pool' = IF pool[n] = NoTx THEN [pool EXCEPT ![n] = w.batch] ELSE pool
    /\ worker' = [worker EXCEPT ![n] = @ \ {w}]
    /\ UNCHANGED <<ethLog, indexed, badAnswers, tick, swapData, swapStates>>

\* Transaction propagation: a peer with no transaction of the tag imports
\* the gossiped one.
Gossip(n, m) ==
    /\ n # m
    /\ pool[n] # NoTx
    /\ pool[m] = NoTx
    /\ pool' = [pool EXCEPT ![m] = pool[n]]
    /\ UNCHANGED <<ethLog, indexed, badAnswers, tick, swapData, swapStates, worker>>

-----------------------------------------------------------------------------
WorkerStep(n) ==
    \/ WorkerHttpFail(n)
    \/ \E ok \in BOOLEAN : WorkerFetch(n, ok)

LiveNext ==
    \/ \E s \in Swaps, r \in Accounts, c \in Classes : EthOpen(s, r, c)
    \/ \E s \in Swaps, k \in {"Claimed", "Refunded"}, c \in Classes : EthSettle(s, k, c)
    \/ IndexerCatchUp
    \/ \E n \in Nodes : \/ AuthorBlock(n)
                        \/ WorkerStep(n)
                        \/ \E w \in worker[n] : WorkerSubmit(n, w)
    \/ \E n, m \in Nodes : Gossip(n, m)

(***************************************************************************)
(* Fairness.  Aura gives every authority a slot in turn, so each node      *)
(* authors infinitely often; the indexer eventually serves every entry; a  *)
(* started worker eventually takes its fetch step and a fetched one its    *)
(* submission.  Strong fairness of a fetch with a good envelope is an      *)
(* assumption on the environment: the indexer does not answer late or      *)
(* badly forever.  The external chain and gossip get no fairness.  Bad    *)
(* envelopes are bounded by MaxBadAnswers: an endless supply of them lets  *)
(* the empty batch of one node's worker hold the pool slot, by gossip, of  *)
(* every node whenever a good batch is submitted, forever.                 *)
(***************************************************************************)
LiveFairness ==
    /\ WF_liveVars(IndexerCatchUp)
    /\ \A n \in Nodes :
         /\ WF_liveVars(AuthorBlock(n))
         /\ WF_liveVars(WorkerStep(n))
         /\ WF_liveVars(\E w \in worker[n] : WorkerSubmit(n, w))
         /\ SF_liveVars(WorkerFetch(n, TRUE))

LiveSpec == LiveInit /\ [][LiveNext]_liveVars /\ LiveFairness

-----------------------------------------------------------------------------
(* Properties.                                                             *)

(* Every swap the ledger holds open was opened on the external chain, by   *)
(* an entry the codec accepts, for the receiver stored, with stale and     *)
(* gossiped transactions of concurrent workers on several nodes.           *)
RecordsAreExternalOpens ==
    \A s \in DOMAIN swapData :
        \E i \in DOMAIN ethLog :
            ethLog[i] = [kind |-> "HTLC", swap |-> s,
                         receiver |-> swapData[s].receiver_addr, class |-> "ok"]

(* The ledger the external log implies: the full log, parsed as parse_data *)
(* does when it skips every entry it cannot decode (spec 7: a decode       *)
(* failure aborts that one record only), folded into an empty store.       *)
ExpectedData ==
    FoldLeft(Store!ApplyHtlc,
             [data |-> Store!NoSwaps, states |-> Store!NoSwaps, events |-> <<>>],
             Codec!ParseData([envelopeOk |-> TRUE, result |-> ethLog], Custody)).data

Synced == swapData = ExpectedData

(* Once the external chain stops changing, SwapData eventually equals the  *)
(* ledger the external log implies and stays so: every round re-submits    *)
(* the full history, stale batches of earlier rounds, hung workers and     *)
(* refused submissions notwithstanding.                                    *)
EventuallySynced == <>[]Synced
=============================================================================
