# TLA+ models of prochain-node

Model-checking project for the ProChain node runtime modules under `src/`:
the Oracle bridge pallet (`src/bin/node/runtime/src/oracle.rs`), the DID
identity pallet (`src/bin/node/modules/did/src/lib.rs`), its hashid encoder
(`harsh.rs`), the Ads pallet (`src/bin/node/modules/ads/src/lib.rs`) and the
chain specification (`src/bin/node/cli/src/chain_spec.rs`).

All runs use `tlc -workers 2 -config <cfg> <module>` from this directory.

## 1. Inventory

### 1.1 Oracle pallet (`oracle.rs`) — the bridge

A one-way bridge: off-chain workers fetch HTLC events of an Ethereum contract
from an indexer (Etherscan-style JSON) and feed them back to the chain as an
unsigned transaction that records or settles swaps.

| Part (spec name) | Code | State | Operations |
|---|---|---|---|
| SwapStateStore | `decl_storage!` 122-139 | `SwapData: swap_id -> EventHTLC`, `SwapStates: swap_id -> HTLCStates` | read/insert/remove by the handler |
| IngestionHandler | `update_enevt_htlc` 221-263 | the two maps, deposited events | per record: open (if absent), remove on Claimed/Refunded (if present); skip otherwise |
| Admin | `kickoff_event_fetch` 172-190, `kill_event_fetch` 194-201, `add_authority` 204-211 | `PraTokenAddr` (custody), `OcRequests` (sources), `Authorities` | root only |
| Scheduler | `offchain_worker` 214-218, `offchain_events` 268-282 | worker-local flag `fetch_success`; writes `OcRequests::kill()` | fires when `now % BLOCK_DURATION == 0` |
| OffchainFetcher | `fetch_events` 284-304, `http_request_get` 594-622 | none | HTTP GET with a 10 s deadline, body read loop, `submit_unsigned` |
| EnvelopeParser | `parse_data` 306-449 | none | UTF-8, JSON, status/message, field extraction, signature dispatch |
| EventCodec | `parse_htlc_event` 451-509, `parse_claim_event` 511-550, `parse_refund_event` 552-592 | none | fixed-offset hex slicing, `from_str_radix`, amount and custody checks, `expire - event` |
| AdmissionValidator | `validate_unsigned` 652-667 | (node tx pool) | admits any `update_enevt_htlc` with a constant `provides` tag |
| helpers | `is_authority` 625-627, `is_swap_exist` 630-633, `is_claimable` 636-649 | — | the last two are never called |

Interaction. Two execution contexts:
* *block execution* (deterministic): admin calls and `update_enevt_htlc`
  mutate storage as part of a block;
* *off-chain workers*: after every imported block, on every node, a worker
  runs over the storage of that block. Workers of different blocks and nodes
  overlap in time. Their storage writes go to a throw-away overlay (Substrate
  never commits off-chain writes), so `OcRequests::kill()` at line 280 never
  reaches the chain. The only effect of a worker is a transaction submitted
  to its node's pool. Pools gossip it. A block author includes it, and then
  the handler runs.

What is hard here: concurrent workers producing stale batches; the indexer
returning the whole history every round (the same records are re-submitted
forever); record presence as the only terminal marker (an absent swap cannot be
told from a completed one); a single constant pool tag; an unauthenticated
unsigned call; partial failure inside the parser (panics abort a whole
worker); an inverted `fetch_success` flag; `u32` underflow in `expire_height`;
an HTTP body loop that never ends once the deadline passes.

What makes the bridge correct:
* the two maps agree;
* the ledger holds a swap only if the external chain opened it with a valid
  entry;
* Claim and Refund events answer the external Claimed and Refunded entries;
* per swap, the events alternate HTLC, then terminal;
* each swap gets at most one HTLC event (spec §8);
* a completed swap never returns to OPEN;
* sources are cleared when fetching fails (spec §4.4);
* a swap that is opened and then settled on Ethereum is eventually settled
  on the ledger too (liveness).

### 1.2 DID pallet (`did/src/lib.rs`)

State: `Identity: AccountId -> did`, `IdentityOf: did -> AccountId`,
`SocialAccount: social hash -> did`, `Metadata: did -> MetadataRecord`
(superior, locked/unlock records, subordinate_count, max_quota,
rewards_ratio, group name, external addresses), `AllDidCount`, `AllDidsArray`,
`AllDidsIndex`, plus the balances pallet's free and reserved balances.
Operations: `create`, `update`, `transfer` / `transfer_by_did` (with an "ads"
revenue split to the superior), `lock`, `unlock`, `add_external_address`,
`set_group_name`.

What is hard here:
* In this Substrate version a dispatch that returns `Err` does not roll back
  the writes made before it. For example, `lock` pays the fee to the superior
  and then `reserve` fails; `create` writes Metadata, Identity and IdentityOf
  before `checked_add` on the count.
* The `Identity` / `IdentityOf` bijection across `update`.
* Quota accounting (`subordinate_count <= max_quota`) across `lock`, `unlock`
  and `create`.
* Balance arithmetic: the fee subtraction in `update`, and `locked_funds -
  value` in `unlock`.
* Rounding of the ads revenue split.

What makes it correct:
* Identity and IdentityOf are inverse functions;
* every did has one index and one count slot;
* locked funds equal the reserved balance;
* transfers conserve the total balance.

### 1.3 Harsh encoder (`did/src/harsh.rs`)

A pure hashids encoder. `create` uses it to derive `AllDidsIndex` from
`AllDidCount`. The encoder must be injective over the counts that occur,
otherwise `AllDidsArray` entries overwrite each other. It is a pure
algorithm, so it is checked as RECURSIVE operators against a reference
over bounded inputs.

### 1.4 Ads pallet (`ads/src/lib.rs`)

State: `AdsRecords: did -> AdsMetadata` (total_amount, surplus), `AllAdsCount`.
Operations: `publish`, `deposit`, `withdraw`, `distribute`, `update_ads`. All
of them move money through DID's `transfer_by_did` to or from the contract
account's did. Correctness: `surplus` never exceeds the contract's balance
attributable to a publisher. Watch for partial failure, because the transfer
happens before the `checked_add` / `checked_sub` of the record.

### 1.5 Chain spec (`cli/src/chain_spec.rs`)

Genesis configuration builders and key derivation. Nothing here changes
over time: each builder is a function from its inputs to a `GenesisConfig`.
Two parts matter to the rest of the system:
* The DID genesis account and the Ads contract. Every config sets both to
  the same account, 22df…. The prochain testnet also makes it the sudo key.
* The money supply. `prochain_testnet_genesis` gives the root
  `100_000_000 DOLLARS - intial_total - total_stash`, where `intial_total`
  is read from `intial_drop.json`.

## 2. Plan

Modules, in order of importance (✔ = done in this sitting):

1. ✔ `OracleStore`: SwapStateStore plus IngestionHandler (`update_enevt_htlc`
   as a fold over the batch). Checked on its own against every batch an
   unsigned caller can submit (`MC_OracleStore`).
2. ✔ `OracleCodec`: `parse_data` and the three decoders as operators over
   abstract log entries. Each entry is classified as ok, invalid, skip or
   malformed. Malformed means the slice indexing panics.
3. ✔ `Oracle`: the composition. It covers the external chain and indexer,
   block authoring with inclusion, per-node off-chain workers (no source, no
   custody, HTTP failure, fetch+parse or panic, submit), per-node pools with
   the constant tag, and the admin calls. `MC_Oracle` checks it.
   `MC_OracleForged` adds a forging peer.
4. ✔ `OracleLive`: the pipeline over unbounded time (height modulo the
   period), with gossip between two nodes. Liveness under weak fairness of
   authoring, the indexer and the workers, and strong fairness of a fetch
   with a good envelope (an environment assumption). Finding: a malformed
   entry poisons every later round.
5. ✔ `OracleCodecNum`: the numeric part of `parse_htlc_event`, with
   `expire_height = (expire - event) % 2^W`. Release builds wrap and debug
   builds panic, so the build is a parameter. It is checked, as ASSUMEs of
   `MC_Oracle`, against spec 8's `expire_height == expire - event`.
6. ✔ `DidRegistry` (abstract): what the DID pallet promises of its
   identities. `Did` is shown to implement it under `INSTANCE ... WITH` a
   refinement mapping. A `SwapLifecycle` refinement of the Oracle ledger
   was not written: one included batch re-applies a whole history, which
   is many abstract steps in one, and `oracle_live` already states what the
   ledger must converge to.
7. ✔ `Did`: identity, lock and unlock, and transfer_by_did with balances,
   under non-transactional dispatch (writes made before an `Err` persist).
8. ✔ `Ads`: composes `Did` (EXTENDS).
9. ✔ `Harsh` and `DidIndex`: the encoder as RECURSIVE operators, and the
   index step of `create` that uses it.
10. ✔ `ChainSpec`: the genesis builders as operators. Its facts are checked
    as ASSUMEs of `MC_Ads`, and the Ads runs take their genesis account
    from them.

## 3. What is modelled now

### OracleStore (oracle.rs 63-139, 221-263)
* `swapData`, `swapStates` are partial functions (domain = stored keys).
  `emitted` is the history of HTLC / Claim / Refund events.
* A record is abstracted to `event_type`, `swap_id` and `receiver_addr`.
* `ApplyHtlc` is one loop iteration, with `IsAbsent` / `IsPresent` being the
  exact guards of lines 228, 239 and 250. `UpdateEventHtlc` is the whole loop
  (`FoldLeft`), executed atomically inside the block.
* The `_ => Err` arm is unreachable (there are three variants, and an unknown
  discriminant fails extrinsic decoding). It is therefore not an action.

### OracleCodec (oracle.rs 306-592)
* Hex offsets, radix parsing and JSON walking are abstracted to the class of
  an entry:
  * `ok`: decodes;
  * `invalid`: a parse_* function returns Err;
  * `skip`: empty topics or an unknown signature;
  * `malformed`: a missing or short field, where the slice indexing panics
    and aborts the whole worker.
* The custody check (`receiver != pra_token_addr`) is kept explicitly.
* `ParseData` returns the decoded records in indexer order. A bad envelope
  gives the empty vector.

### OracleCodecNum (oracle.rs 451-530, 635-648)

`OracleCodec` reduces an entry to its class. `OracleCodecNum` models what
that class abstracts: the numeric fields.
* A field is a sequence of symbols: a hex digit, `NonHex` (an ASCII byte
  that is not a hex digit) or `NonUtf8` (a char that the `as u8` cast
  truncates into invalid UTF-8).
* `FromStrRadix16` is `from_str_radix(_, 16)` digit by digit, with the
  checked overflow. `AfterPrefix` skips two bytes unchecked. For a data word
  these are its top two digits, not "0x". `ParsePanics` is the
  `from_utf8(..).unwrap()`.
* `ParseHtlcNumbers(f, build)` makes the eight numeric steps in the code's
  order. `Outcome` lets the first failing or panicking step decide.
* `IsClaimable` is the u32 addition of `is_claimable`.

u32 is scaled to 4 bits and a data word to 4 digits. The digit arithmetic
is the same at any width. `MC_Oracle` checks three ASSUMEs over every
small input, and so every `MC_Oracle` run re-checks them:
* `FromStrRadixIsHexValue`: the parser returns the digits' value, and
  returns Err exactly where the reference says.
* `HtlcNumbersAgainstSpec`: an Open entry is accepted exactly when
  out = pra is in 1..u32::MAX. Spec 8's `expire_height == expire - event`
  holds only when the event is not after the expiry. Otherwise
  `expire_height` wraps (release), or the worker panics (debug). The debug
  panic is the poison class of `oracle_poison`.
* `ClaimableWindowSurvivesWrap`: in release, `is_claimable`'s wrapping
  addition undoes the wrap, while the absolute expiry block fits in u32.

These are results about pure functions. They are ASSUMEs rather than
violation runs, so they are recorded as hazard notes in `PROJECT.json`.

### Oracle (oracle.rs 108-304, 594-667)
* `worker[<<n, h>>]` is node n's worker of block h. It starts at import
  (`AuthorBlock`) with the block's `OcRequests` and `PraTokenAddr`. It takes
  one of these paths:
  * `WorkerNoSource`;
  * `WorkerHttpFail`: returns Ok(()), nothing sent;
  * `WorkerFetch`: the body is the indexer's current prefix. It panics, or
    it parses and is followed by `WorkerSubmit`.
* `Finish` applies the `fetch_success` flag to the worker's own view of
  `OcRequests`, which is discarded. Chain storage is unchanged.
* `pool[n]` holds at most one transaction, because of the constant
  `provides` tag. Submission into a non-empty pool is refused.
  Inclusion removes that transaction from every pool.
* The `pra_token_addr` None error of `fetch_events` is unreachable and is not an action. Neither storage item has a genesis config, `kickoff_event_fetch` sets both, and nothing resets `PraTokenAddr`.
* Not modelled: the `Init` event, and `print_utf8` logging.

### OracleLive (oracle.rs 171-189, 213-304, 594-622, 652-667)
* The behaviour starts after `kickoff_event_fetch`: one source and the
  custody account `Custody` are fixed, and root makes no further call.
* `tick` is the block number modulo `BLOCK_DURATION`, which is all that
  `offchain_worker` reads. So behaviours are infinite and the state space
  is finite. The event history is left out, because it grows without bound.
* `worker[n]` is the set of states of node n's workers in flight. Every
  import of a due block adds a `Start` worker on every node, whether or not
  earlier ones have finished. Two workers in the same state are one element.
* The worker steps are these:
  * `WorkerHttpFail` covers both an HTTP error and a read loop that never
    returns. Both lose the round.
  * `WorkerFetch(n, envelopeOk)` parses the served prefix, or panics. A bad
    envelope parses to an empty batch, which is still submitted.
  * `WorkerSubmit` sends the batch to the node's single pool slot.
  * `Gossip` copies a pool's transaction to an empty pool.
* `AuthorBlock` folds the author's pool into the store (`Included`, the
  same `ApplyHtlc` as `OracleStore`), clears that transaction from every
  pool, and starts workers on due blocks.
* `MaxBadAnswers` bounds the indexer's 200 answers with a bad envelope.

**Fairness.** The fairness assumed, and why:
* `WF(AuthorBlock(n))` for every node. Aura gives each authority a slot in
  turn.
* `WF(IndexerCatchUp)`. The indexer eventually serves every entry.
* `WF` of each node's fetch step and of its submission. A started worker
  runs on, because the node keeps scheduling it.
* `SF(WorkerFetch(n, TRUE))`. The indexer does not answer late or badly
  forever. This is an assumption on the environment, not something the
  code guarantees.
* The external chain and gossip have no fairness. Neither root nor the
  external chain is obliged to act.

**What it shows.** `EventuallySynced` says that SwapData eventually equals
the ledger the external log implies, and stays so. That ledger is the log
parsed the way spec 7 says, skipping undecodable records, and folded into an
empty store. The property holds in `oracle_live`, although every round
replays the full history, stale batches are included out of order, and
rounds are lost. It needs the bad-envelope bound: without it, TLC shows one
node's empty batch gossiped into every pool each time another node's good
batch is submitted, forever. `oracle_poison` shows that a single malformed
entry makes every later round panic. From the moment the indexer serves it,
nothing is ingested: not a valid entry before it in the log that no round
submitted yet, and not a valid open after it. Which of the two TLC's
counterexample shows depends on the order it explores.

### Did (did/src/lib.rs 29-392, 436-470)

State mapping:
* `identity`, `identityOf`, `socialAccount` and `metadata` are partial
  functions.
* A metadata record keeps the following fields: address, superior,
  social_account, subordinate_count, the lock record (funds, ratio, quota,
  time, period), whether a group name is set, and the set of external
  address kinds.
* creator, did_ele and unlock_records are written but never read, so they
  are left out.
* `free` and `reserved` are the balances pallet's two balances.
* `now` is the timestamp.

Actions:
* One action per call: `Create`, `Update`, `Transfer`, `AddExternalAddress`
  and `SetGroupName`.
* `lock` has three outcomes: `LockFirst`, `LockFirstReserveFails` (the fee
  was paid, the reserve failed, and the dispatch keeps the payment) and
  `LockMore`.
* `unlock` is `Unlock`.
* `transfer_by_did` is an operator that returns `[error, free]`, and `lock`
  and `transfer` compose it.
* A failing `ensure!` with no write before it is a stutter. A failure after
  a write is its own action (non-transactional dispatch).

Modelling choices:
* Balance `+`/`-` written in the pallet wrap modulo `BalanceMod`. The wasm
  runtime is built without overflow checks. `Values` includes
  `BalanceMod - 1`, so that `value + 1` wraps in `lock`.
* TransferFee, CreationFee and ExistentialDeposit are 0, as in the pallet's
  tests.
* `Currency::transfer` (outside `src/`) is modelled from its interface: it
  fails if the balance is short, and a transfer to oneself is a no-op.

Runs, bounds and results:
* `did_identity`: 3 accounts (one of them the genesis account), 3 dids and
  1 social account, 580k states in about 65 s.
  * 3 dids let a non-genesis superior lock (after its own superior
    exists) and then have a subordinate counted against its quota, and let
    a did be created under a superior that does not exist yet.
  * External addresses are left out here to keep the run short.
    `add_external_address` fires in the Ads run instead.
* `did_update_lock`: finds the stranded reserve in 6 steps: create, create,
  update, lock, update.

### DidRegistry (abstract) and RegistryRefined

`DidRegistry` states what the DID pallet promises of identities, leaving out
balances and locks:
* `Register` adds a new did for an account that has none, with its superior
  and unbound social accounts.
* `Move` hands a did to an account that has none.
* Nothing else changes the registry.

`Did` implements it under the mapping owner <- `identityOf`, superiorOf <-
each metadata's superior, and socialOf <- `socialAccount`. `Did`'s other
calls (lock, unlock, transfers, group name, external addresses) are
stuttering steps of the abstract spec. The property is checked in
`ads_accounting`, where every DID call also fires. Its mutant drops
`create`'s "did already existed" check (`DidIsNew`).

### Ads (ads/src/lib.rs 17-180)

State mapping:
* `adsRecords` maps a publisher's did to total_amount, surplus and
  single_click_fee. The fields that are written but never read are left
  out.
* `allAdsCount` is AllAdsCount.

Actions:
* One action per call: `Publish`, `Deposit`, `Withdraw`, `Distribute` and
  `UpdateAds`.
* Money moves through Did's `TransferByDid`, and `deposit` and `withdraw`
  pass the caller's memo.
* Memos are byte strings. `IsSub` translates `is_sub`, and transfer_by_did
  splits when `IsSub(memo, b"ads")` holds.
  * A caller's memo is either empty or "uploads". "uploads" merely contains
    "ads", and it splits.
  * The pallets' own memos are "开户广告费" (publish), "看广告收益"
    (distribute) and "新群主抵押分成" (lock), as UTF-8 bytes. They never
    split.
  * The split of each memo is a constant (`Splits`, `PublishSplits`, …),
    so TLC evaluates it once.
  * Two more ASSUMEs of `MC_Ads` check this. `IsSubIsContiguousRun` checks
    `is_sub` against "needle is a contiguous run of haystack", on every
    haystack of up to five bytes. `SplitOnlyByCallerMemo` checks the memos.
    The counterexample of `ads_solvency` splits a deposit whose memo is
    "uploads".
* `identity(account)` of a did-less account is the default hash `NoDid`,
  which no did has. Calls through it fail.
* The Contract account is the operator's key. It acts only through
  `distribute`, so the users' DID calls are `DidStep(Users)`.
* `GenesisAccount = Contract` (a3), as every chain spec configures them.
  `MC_Ads` asserts this. The contract's did, once someone creates it, is
  therefore exempt from the subordinate quota. The two user accounts are
  ordinary accounts.

Bounds:
* `MaxAdsCount` caps publish calls and `MaxTotal` caps a record's total.
  Both are named guards.

Runs and results:
* `ads_accounting`: 3 accounts and 2 dids (a publisher and the contract),
  with one external-address kind, so that every DID call also fires here.
  It also checks `RegistryRefined` (see `DidRegistry` above). 107k states,
  about 20 seconds. A third did takes more than 10 minutes.
* `ads_solvency`: needs 3 dids, because the contract's did must have a
  locked superior for the "ads" split to divert money. TLC finds the
  violation after 11 steps, in under 1 minute. Its click fee is fixed at 1,
  which the split does not depend on.

Deadlock: both Ads runs disable the deadlock check. Users can pay all their
funds into the contract, and after that no call of the modelled accounts
can succeed. The chain keeps producing blocks, so the system does not
really stop.

### ChainSpec (cli/src/chain_spec.rs 86-580)

One operator per builder:
* `TestnetGenesis` (`testnet_genesis`) is used by `StagingTestnetGenesis`,
  `DevelopmentGenesis`, `LocalTestnetGenesis` and `InstantSingleGenesis`.
* `ProchainTestnetGenesis` (`prochain_testnet_genesis`) is used with
  `GetIntialAllocation` (`get_intial_allocation`).

Each returns the parts of the `GenesisConfig` that the pallets here, or the
supply, depend on:
* the balances and indices lists;
* the stakers, the validator counts and the invulnerables;
* the council and the technical committee;
* sudo, and the DID and Ads configs.

Accounts are named by their seed (`AccountFromSeed`) or hex literal
(`HexAccount`). `intial_drop.json` is a record:
* a status: missing, invalid or ok;
* a list of entries, each an account (or `BadHex`) and the integer its
  decimal string denotes.

The parse's unwraps panic. The u128 `.sum()` (`U128Sum`) and the
`endowed_amount` subtraction wrap in a release build and panic in a debug
build.

`MC_Ads` instantiates it with u128 scaled to 28 bits and DOLLARS = 1. That
keeps the supply (10^8) below the bound, so both the subtraction's wrap and
the sum's wrap are reachable. Three ASSUMEs are re-checked by every Ads run:
* `ContractIsGenesisAccount`: every config makes the Ads contract the DID
  genesis account. The prochain testnet also makes it the sudo key. The
  dev, local and staging chains give that account no balance. The Ads runs
  follow this, with `GenesisAccount = Contract`.
* `GenesisMintsSupply`: the check covers every allocation file of up to two
  entries, with accounts fresh, root or bad, and amounts at the edges
  (-1, 0, the supply minus the stashes, 2^27, 2^28 - 1, 2^28), in both
  builds. A genesis that is built sums to the supply modulo 2^128. It sums
  to the supply itself exactly when the allocation plus the stashes fit.
  Otherwise a release build endows the root with a wrapped, huge balance
  (94 of the 465 files), and a debug build panics exactly then.
* `StashEndowedTwice`: on the dev and local chains every authority stash
  is listed twice in the balances genesis, once with ENDOWMENT and once
  with STASH. How that is resolved is up to the balances pallet, which is
  outside `src/`.

### Harsh, DidIndex (did/src/harsh.rs 4-366, did/src/lib.rs 179-190)

`Harsh` translates the encoder function by function into pure operators
over byte sequences: a byte is its ASCII code, and the source's 0-based
index k is the sequence's k+1.

* Loops become RECURSIVE operators with the loop variables as parameters:
  `ShuffleFrom`, `HashDigits`, `EncodeValues`, `Pad`, `UniqueFrom`,
  `UnhashSegments` and `SplitOn`.
* The f64 divisions by 3.5 and 12 are exact on these lengths, so
  `x / 3.5` is computed as `2x \div 7`.
* Option results are represented as follows: `_decode`'s None is `<<>>`,
  `_unhash`'s None is -1, and an `Err` or panic of the builder is the
  outcome's `err`.

The builder (`HarshBuilder::new`, `salt`, `alphabet`, `separators`,
`length`, 143-204) is a record with one operator per setter, and
`HarshInit(b)` is `init`. `DidIndex` builds the pallet's `Harsh` through
that chain.

The translation is validated against every test of harsh.rs (372-577).
`MC_Did` states each as one definition, named after the test, and a single
ASSUME conjoins them:
* `harsh_default_does_not_panic`, `create_nhash`, `hash` and `shuffle`;
* `can_encode`, `can_encode_with_guards` and `can_encode_with_padding`;
* `can_decode`, `can_decode_with_guards` and `can_decode_with_padding`;
* the custom-alphabet tests, `can_decode_with_invalid_alphabet`;
* both `alphabet_and_separator_generation` tests.

Every run of that module re-checks them. `can_encode`'s value
1226198605112 is beyond TLC's 32-bit integers, so it is left out. Two
tests disagree with each other: `can_encode` encodes [1,2,3] as
"1vGlaHquq0Ba", and `can_decode` decodes "9LGlaHquq06D" to [1,2,3]. `_decode`
does not re-encode its result to check it, so both hold in the
translation, as they do in the source.

`DidIndex` models the index step of `create`:
* `AllDidCount` is bumped with `checked_add`.
* `idx = encode([count])`, using the pallet's builder (salt "prochain
  did", length 6).
* `AllDidsArray[idx] = did` and `AllDidsIndex[did] = idx`.

`T::Hashing` is taken as collision-free, so `hash(idx)` is `idx`. A did is
new on each create, so the did created at count c is represented by c.
`Did` keys `AllDidsArray` by the count, and `IndexFresh` is what makes that
sound.

With the pallet's configuration:
* There are 44 alphabet bytes, 14 separators and 4 guards.
* Hashes of 1 and 2 digits get two guards and the alphabet padding.
* 3 digits (counts 1936 and up) get two guards and no padding.
* 4 digits (counts 85184 = 44^3 and up) get one front guard.

`did_index` covers counts 0..150, which includes the 1- and 2-digit shapes
and nhash wrapping at 100. Every count's encoding is a 6-byte string with
its guards at positions fixed by the digit count, so indices of different
digit counts cannot collide. That is why checking within the shapes is
enough for `IndexFresh`.

`MC_DidIndex` also states, as the ASSUME `IndexInjectiveAtFourDigits`,
that the indices of counts 85164..85204 are pairwise distinct. That window
straddles 85184, where the hash grows to 4 digits and keeps one guard.

Evaluating the operators also shows two defects of harsh.rs. Neither is a
hazard of this code, because the pallet never reaches either of them:
* **`_decode` fails from count 85184.** `encode([85184])` is "1oPzzz", and
  `_decode` returns None for it. With 4 digits, encode adds only the front
  guard, and `_decode` truncates at the last guard before it drops the
  bytes up to the first one, so nothing is left. `_decode` is never called.
* **`unique_alphabet` panics on a repeated byte.** With an alphabet such as
  "aabcdefghijklmnop", `reg.insert(idx, item)` indexes past the end of
  `reg`. The pallet passes no custom alphabet.

### Bounds
`BLOCK_DURATION = 2`, `MaxHeight = 4` (5 for the replay run), giving two
worker rounds per node. Period 2 stands in for the source's 5: only the
set of worker heights matters, and two rounds let a worker of one round
submit after the block that includes another round's batch. One swap (two
log entries). Two accounts, so that custody and receiver can coincide.
One node for the full-class pipeline run. `OracleLive` uses two nodes, one
swap, period 2 and one bad answer (110k states). That is enough for one
node's stale or empty batch to be gossiped past the other's fresh one. Its
poison run uses one node and two swaps, so that a valid swap can sit
before or after a malformed entry. No symmetry is used for the liveness runs.

### Runs

| run | cfg | expect | what it shows |
|---|---|---|---|
| store_any_batch | MC_OracleStore.cfg | pass | for any sequence of arbitrary batches (duplicates, unknown swaps, conflicting opens), the maps agree, events alternate per swap and match storage, and a stored record is never rewritten |
| oracle_pipeline | MC_Oracle_pipeline.cfg | pass | through fetch, parse (all entry classes, panics included), submit and inclusion, the ledger holds only valid external opens, and Claim and Refund answer external settlements |
| oracle_live | MC_OracleLive.cfg | pass | with two nodes, gossip, concurrent and stale workers, failed fetches and a bad answer, under the fairness above it eventually equals the ledger the external log implies |
| oracle_poison | MC_OracleLive_poison.cfg | violation | one malformed log entry makes every later round panic on the replayed history, so no entry still un-ingested when it is served, before it in the log or after it, is ever ingested (spec 7: a decode failure aborts that record only) |
| oracle_replay | MC_Oracle_replay.cfg | violation | the spec's "exactly one HTLC event" fails: each round re-submits the full history, and a settled (absent) swap is opened again |
| oracle_kill | MC_Oracle_kill.cfg | violation | the spec's "clear the sources when no source yielded a result" fails: the flag is inverted, and the kill runs in the off-chain overlay |
| oracle_forged | MC_OracleForged.cfg | violation | any peer can submit an unsigned batch, so the ledger records swaps that never existed |
| did_identity | MC_Did.cfg | pass | Identity, IdentityOf and Metadata.address stay a bijection and SocialAccount agrees with Metadata, over every sequence of DID calls |
| ads_accounting | MC_Ads.cfg | pass | no Ads record owes more than was paid in and not withdrawn, over every interleaving with the DID calls; and `Did` implements the abstract `DidRegistry` |
| ads_solvency | MC_Ads_solvency.cfg | violation | a deposit whose memo merely contains "ads" ("uploads") is split, so the contract owes more surplus than it holds |
| did_index | MC_DidIndex.cfg | pass | for the first 151 dids, `create`'s Harsh index never overwrites an `AllDidsArray` entry |
| did_update_lock | MC_Did_lock.cfg | violation | `update` moves the did but not its reserved funds, so the locked funds are no longer reserved by the did's account and can never be unlocked |

Fairness is assumed only in `OracleLive`, as described above. Every other
run checks safety.

## 4. Not modelled

* Chain spec, the parts left out of `ChainSpec`:
  * `flaming_fir_config`, which loads a JSON file outside `src/`;
  * the `ChainSpec::from_genesis` metadata (names, telemetry, token
    properties);
  * the session, BABE, GRANDPA and im-online key material.
  The chain spec is built once, before any block, so its facts are ASSUMEs
  rather than run properties.
* `max_quota = balance * 10` in u64 (did lib.rs 274, 320): `Did` keeps the
  balances as small integers, so the wrap past 2^64 is not reached.
* The bound "a did never has more subordinates than its `max_quota`" is not
  checked. `create` (did lib.rs 135) skips the quota check when the superior
  has no did yet. That superior, once created, starts at `subordinate_count`
  0 while it already has subordinates. `Did` reaches such a state in a
  few `Create` steps. The code itself keeps no such bound: `unlock` (lines
  319-321) lowers `max_quota` below `subordinate_count` and sets
  `rewards_ratio` to 100 for that case. So there is nothing for a passing
  run to check, and nothing stated for a violation run to contradict.
* `is_swap_exist`: never called. `is_claimable` is never called either. Its arithmetic is modelled in `OracleCodecNum`.
* Balances and timestamp pallets: outside `src/`. Only the interfaces that DID uses are modelled, as `Transferred` and `Tick`.
* JSON/hex text: abstracted to entry classes, as explained above.
