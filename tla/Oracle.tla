-------------------------------- MODULE Oracle --------------------------------
(***************************************************************************)
(* The Oracle pallet's ingestion pipeline end to end                       *)
(* (src/bin/node/runtime/src/oracle.rs):                                   *)
(*                                                                         *)
(*  - the external chain's HTLC contract appends log entries, which the    *)
(*    indexer serves after some lag;                                       *)
(*  - blocks are authored one at a time; each block includes the ready     *)
(*    update_enevt_htlc transaction of its author's pool, if any, and on   *)
(*    import every node starts an off-chain worker when                    *)
(*    height % BLOCK_DURATION = 0;                                         *)
(*  - a worker reads OcRequests and PraTokenAddr as of its block, fetches  *)
(*    the indexer, parses the body and submits the batch as an unsigned    *)
(*    transaction to its node's pool; workers of different blocks and      *)
(*    nodes run concurrently with each other and with block production;    *)
(*  - validate_unsigned gives every such transaction the same `provides`   *)
(*    tag, so a pool holds at most one (gossip between pools is in         *)
(*    OracleLive, whose runs have two nodes);                              *)
(*  - root calls kickoff_event_fetch, kill_event_fetch and add_authority.  *)
(***************************************************************************)
EXTENDS Naturals, Sequences, SequencesExt, Functions, TLC

CONSTANTS
    Nodes,           \* nodes running off-chain workers and authoring blocks
    Swaps,           \* external swap ids
    Accounts,        \* ledger accounts: receivers and custody candidates
    BLOCK_DURATION,  \* the period of offchain_worker (5 in the source)
    MaxHeight,       \* last block authored in the model
    Classes,         \* the entry classes the indexer may serve
    Src,             \* the EventLogSource of kickoff_event_fetch
    NoAccount,       \* PraTokenAddr = None
    NoTx             \* an empty pool

ASSUME BLOCK_DURATION \in Nat /\ MaxHeight \in Nat
ASSUME NoAccount \notin Accounts

VARIABLES
    \* external chain and indexer
    ethLog,          \* the HTLC contract's log entries, in order
    indexed,         \* how many of them the indexer serves
    \* on-chain storage of the pallet
    height,          \* the best block number
    praTokenAddr,    \* PraTokenAddr (custody account) or NoAccount
    ocRequests,      \* OcRequests: the configured EventLogSources
    authorities,     \* Authorities
    swapData, swapStates, emitted,   \* see OracleStore
    \* off-chain side
    worker,          \* worker[<<n, h>>]: node n's off-chain worker of block h
    pool             \* pool[n]: the update_enevt_htlc transaction in n's pool

vars == <<ethLog, indexed, height, praTokenAddr, ocRequests, authorities,
          swapData, swapStates, emitted, worker, pool>>

Store == INSTANCE OracleStore WITH Receivers <- Accounts
Codec == INSTANCE OracleCodec

-----------------------------------------------------------------------------
\* offchain_worker(now): runs offchain_events iff the period divides now.
OffchainDue(now) == BLOCK_DURATION > 0 /\ now % BLOCK_DURATION = 0

WorkerHeights == {h \in 1..MaxHeight : OffchainDue(h)}
Workers       == Nodes \X WorkerHeights

\* The result of the worker's fetch_events call, as far as the run goes:
\*  "httpFail"  non-200, deadline, or empty body: Ok(()) with nothing sent;
\*  "panic"     the decoder panicked: the run aborts;
\*  "submitted" submit_unsigned accepted the call: Ok(());
\*  "rejected"  the pool refused it: Err.
Results == {"none", "httpFail", "panic", "submitted", "rejected"}

\* A worker's local state; `sources` is OcRequests in the worker's own view
\* of storage, which offchain_events' `OcRequests::kill()` writes to.
WorkerStates ==
    [phase : {"unborn", "start", "fetched", "done"}, sources : Seq({Src}),
     pra : Accounts \cup {NoAccount}, batch : Seq(Store!Records), res : Results]

Unborn == [phase |-> "unborn", sources |-> <<>>, pra |-> NoAccount,
           batch |-> <<>>, res |-> "none"]

TypeOK ==
    /\ ethLog \in Seq(Codec!LogEntries)
    /\ indexed \in 0..Len(ethLog)
    /\ height \in 0..MaxHeight
    /\ praTokenAddr \in Accounts \cup {NoAccount}
    /\ ocRequests \in Seq({Src})
    /\ authorities \in Seq(Accounts)
    /\ Store!StoreTypeOK
    /\ worker \in [Workers -> WorkerStates]
    /\ pool \in [Nodes -> Seq(Store!Records) \cup {NoTx}]

Init ==
    /\ ethLog = <<>>
    /\ indexed = 0
    /\ height = 0
    /\ praTokenAddr = NoAccount
    /\ ocRequests = <<>>
    /\ authorities = <<>>
    /\ Store!StoreInit
    /\ worker = [w \in Workers |-> Unborn]
    /\ pool = [n \in Nodes |-> NoTx]

-----------------------------------------------------------------------------
(* The external chain and the indexer (environment).                       *)

HasEntry(s, kinds) == \E i \in DOMAIN ethLog : ethLog[i].swap = s /\ ethLog[i].kind \in kinds

\* The HTLC contract opens swap s once, for receiver r.
EthOpen(s, r, c) ==
    /\ ~HasEntry(s, Codec!LogKinds)
    /\ ethLog' = Append(ethLog, [kind |-> "HTLC", swap |-> s, receiver |-> r, class |-> c])
    /\ UNCHANGED <<indexed, height, praTokenAddr, ocRequests, authorities,
                   swapData, swapStates, emitted, worker, pool>>

\* An open swap is claimed or refunded once, to the receiver it was opened for.
EthSettle(s, kind, c) ==
    /\ HasEntry(s, {"HTLC"})
    /\ ~HasEntry(s, {"Claimed", "Refunded"})
    /\ LET open == SelectInSeq(ethLog, LAMBDA e : e.swap = s)
       IN  ethLog' = Append(ethLog, [kind |-> kind, swap |-> s,
                                     receiver |-> ethLog[open].receiver, class |-> c])
    /\ UNCHANGED <<indexed, height, praTokenAddr, ocRequests, authorities,
                   swapData, swapStates, emitted, worker, pool>>

IndexerCatchUp ==
    /\ indexed < Len(ethLog)
    /\ indexed' = indexed + 1
    /\ UNCHANGED <<ethLog, height, praTokenAddr, ocRequests, authorities,
                   swapData, swapStates, emitted, worker, pool>>

-----------------------------------------------------------------------------
(* Root calls (oracle.rs 172-211).                                         *)

\* kickoff_event_fetch: set PraTokenAddr, replace OcRequests by one source.
KickoffEventFetch(a) ==
    /\ praTokenAddr' = a
    /\ ocRequests' = <<Src>>
    /\ UNCHANGED <<ethLog, indexed, height, authorities,
                   swapData, swapStates, emitted, worker, pool>>

\* kill_event_fetch: clear OcRequests (no Kill event is deposited).
KillEventFetch ==
    /\ ocRequests' = <<>>
    /\ UNCHANGED <<ethLog, indexed, height, praTokenAddr, authorities,
                   swapData, swapStates, emitted, worker, pool>>

\* is_authority: `who` is in Authorities.
IsAuthority(who) == Contains(authorities, who)

\* add_authority: push `who` unless already present.
AddAuthority(who) ==
    /\ authorities' = IF IsAuthority(who) THEN authorities
                      ELSE Append(authorities, who)
    /\ UNCHANGED <<ethLog, indexed, height, praTokenAddr, ocRequests,
                   swapData, swapStates, emitted, worker, pool>>

-----------------------------------------------------------------------------
(* Block production and import.                                            *)

(***************************************************************************)
(* Node n authors block height+1 with the transaction in its pool, if any: *)
(* update_enevt_htlc runs (OracleStore), the included transaction leaves   *)
(* every pool that holds it (a pool holding another transaction with the   *)
(* same tag keeps it: it is re-validated and stays valid).  On import,     *)
(* every node whose offchain_worker fires for the new block starts a       *)
(* worker over the storage of that block.                                  *)
(***************************************************************************)
StartWorker ==
    [phase |-> "start", sources |-> ocRequests, pra |-> praTokenAddr,
     batch |-> <<>>, res |-> "none"]

AuthorBlock(n) ==
    /\ height < MaxHeight
    /\ IF pool[n] = NoTx
       THEN UNCHANGED <<swapData, swapStates, emitted>>
       ELSE Store!UpdateEventHtlc(pool[n])
    /\ pool' = [m \in Nodes |-> IF pool[m] = pool[n] THEN NoTx ELSE pool[m]]
    /\ height' = height + 1
    /\ worker' = [w \in Workers |-> IF w[2] = height + 1 THEN StartWorker ELSE worker[w]]
    /\ UNCHANGED <<ethLog, indexed, praTokenAddr, ocRequests, authorities>>

-----------------------------------------------------------------------------
(* Off-chain workers (oracle.rs 268-304, 594-622).                         *)

\* The end of offchain_events: fetch_success is still true iff no call of
\* fetch_events returned Ok; then OcRequests::kill() empties the worker's
\* view of storage.  That view is discarded with the worker: off-chain
\* runs never commit storage, so the chain's OcRequests is untouched.
Finish(w, res, fetchSuccess) ==
    worker' = [worker EXCEPT ![w] = [phase |-> "done",
                                     sources |-> IF fetchSuccess THEN <<>> ELSE @.sources,
                                     pra |-> @.pra, batch |-> <<>>, res |-> res]]

\* A worker whose view has no source: the loop does nothing, the flag stays
\* true and the (discarded) kill runs.
WorkerNoSource(w) ==
    /\ worker[w].phase = "start"
    /\ worker[w].sources = <<>>
    /\ Finish(w, "none", TRUE)
    /\ UNCHANGED <<ethLog, indexed, height, praTokenAddr, ocRequests, authorities,
                   swapData, swapStates, emitted, pool>>

\* fetch_events with PraTokenAddr None (an Err that keeps the flag true) is
\* unreachable: neither PraTokenAddr nor OcRequests has a genesis config,
\* kickoff_event_fetch sets both together and nothing resets PraTokenAddr,
\* so a worker that sees a source always sees a custody account.

\* http_request_get fails (status not 200, the 10 s deadline, an empty
\* body): fetch_events returns Ok(()) anyway, which clears the flag.
WorkerHttpFail(w) ==
    /\ worker[w].phase = "start"
    /\ worker[w].sources # <<>>
    /\ worker[w].pra # NoAccount
    /\ Finish(w, "httpFail", FALSE)
    /\ UNCHANGED <<ethLog, indexed, height, praTokenAddr, ocRequests, authorities,
                   swapData, swapStates, emitted, pool>>

\* http_request_get returns the indexer's current body; parse_data decodes
\* it against the worker's PraTokenAddr, or panics, ending the run.
WorkerFetch(w) ==
    /\ worker[w].phase = "start"
    /\ worker[w].sources # <<>>
    /\ worker[w].pra # NoAccount
    /\ \E envelopeOk \in BOOLEAN :
         LET body == [envelopeOk |-> envelopeOk, result |-> SubSeq(ethLog, 1, indexed)]
         IN  IF Codec!Panics(body)
             THEN worker' = [worker EXCEPT ![w] = [@ EXCEPT !.phase = "done", !.res = "panic"]]
             ELSE worker' = [worker EXCEPT ![w] = [@ EXCEPT !.phase = "fetched",
                                 !.batch = Codec!ParseData(body, worker[w].pra)]]
    /\ UNCHANGED <<ethLog, indexed, height, praTokenAddr, ocRequests, authorities,
                   swapData, swapStates, emitted, pool>>

\* submit_unsigned(update_enevt_htlc(htlcs)), even for an empty batch.  The
\* pool admits it iff it holds no transaction with the constant tag (an
\* equal-priority transaction with the same tag, or the same transaction,
\* is refused); a refusal is fetch_events' Err, which keeps the flag true.
WorkerSubmit(w) ==
    LET n == w[1]
    IN  /\ worker[w].phase = "fetched"
        /\ IF pool[n] = NoTx
           THEN /\ pool' = [pool EXCEPT ![n] = worker[w].batch]
                /\ Finish(w, "submitted", FALSE)
           ELSE /\ UNCHANGED pool
                /\ Finish(w, "rejected", TRUE)
        /\ UNCHANGED <<ethLog, indexed, height, praTokenAddr, ocRequests, authorities,
                       swapData, swapStates, emitted>>

-----------------------------------------------------------------------------
Next ==
    \/ \E s \in Swaps, r \in Accounts, c \in Classes : EthOpen(s, r, c)
    \/ \E s \in Swaps, k \in {"Claimed", "Refunded"}, c \in Classes : EthSettle(s, k, c)
    \/ IndexerCatchUp
    \/ \E a \in Accounts : KickoffEventFetch(a)
    \/ KillEventFetch
    \/ \E a \in Accounts : AddAuthority(a)
    \/ \E n \in Nodes : AuthorBlock(n)
    \/ \E w \in Workers : \/ WorkerNoSource(w)
                          \/ WorkerHttpFail(w)
                          \/ WorkerFetch(w)
                          \/ WorkerSubmit(w)

Spec == Init /\ [][Next]_vars

-----------------------------------------------------------------------------
(* Properties.                                                             *)

(* Every swap the ledger holds open was opened on the external chain, by   *)
(* an entry the codec accepts, for the receiver stored: the records that   *)
(* reach SwapData through fetch, parse, submission, gossip and inclusion,  *)
(* in any interleaving of workers and blocks, come from real HTLC events.  *)
RecordsAreExternalOpens ==
    \A s \in DOMAIN swapData :
        \E i \in DOMAIN ethLog :
            /\ ethLog[i] = [kind |-> "HTLC", swap |-> s,
                            receiver |-> swapData[s].receiver_addr, class |-> "ok"]

(* Every Claim (Refund) event the ledger deposits answers a Claimed         *)
(* (Refunded) entry of the external chain for that swap: the signature     *)
(* dispatch of parse_data and the terminal branch of update_enevt_htlc     *)
(* keep the two kinds apart.                                               *)
SettledKind == [Claim |-> "Claimed", Refund |-> "Refunded"]

SettlementsAreExternal ==
    \A i \in DOMAIN emitted :
        emitted[i].name # "HTLC" =>
            \E j \in DOMAIN ethLog :
                /\ ethLog[j].kind = SettledKind[emitted[i].name]
                /\ ethLog[j].swap = emitted[i].swap_id
                /\ ethLog[j].class = "ok"

(* The event history of the composed system alternates per swap (see      *)
(* OracleStore): with real, stale and replayed batches from every node.    *)
EventsAlternate == Store!EventsAlternate

(* Spec 8: "ingesting the same Open record twice results in exactly one    *)
(* stored record/state and exactly one HTLC event".  Checked over the      *)
(* whole history: each swap gets at most one HTLC event.                   *)
HTLCEventOncePerSwap ==
    \A s \in Swaps :
        Len(SelectSeq(emitted, LAMBDA e : e.swap_id = s /\ e.name = "HTLC")) <= 1

(* Spec 4.4: "If no source yielded a usable result this round, clear the   *)
(* configured source list."  A worker that finishes after its fetch failed *)
(* leaves OcRequests empty.                                                *)
SourcesClearedWhenFetchFails ==
    [][\A w \in Workers :
          (worker[w].phase # "done" /\ worker'[w].phase = "done"
             /\ worker'[w].res = "httpFail")
          => ocRequests' = <<>>]_vars
=============================================================================
