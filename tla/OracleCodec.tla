----------------------------- MODULE OracleCodec -----------------------------
(***************************************************************************)
(* EnvelopeParser and EventCodec of the Oracle pallet: parse_data and      *)
(* parse_htlc_event / parse_claim_event / parse_refund_event               *)
(* (src/bin/node/runtime/src/oracle.rs 306-592), as pure operators.        *)
(*                                                                         *)
(* A log entry of the indexer's `result` array is abstracted to the event  *)
(* signature in topics[0] (kind), the swap id in topics[3], the receiver   *)
(* account in the data tail, and the class of its remaining fields:        *)
(*   "ok"        every slice and hex word decodes and, for an HTLC entry,  *)
(*               out_amount > 0 and out_amount = pra_amount;               *)
(*   "invalid"   a hex word, the amount check or the account decode fails: *)
(*               the parse_* function returns Err and the entry is skipped;*)
(*   "skip"      topics is empty or topics[0] is no known signature: the   *)
(*               entry is skipped before decoding;                         *)
(*   "malformed" a field the decoder slices is missing or short (topics    *)
(*               with fewer than 4 words, data shorter than its fixed      *)
(*               layout, a missing blockNumber or timeStamp, which the     *)
(*               parser fills with an empty string): the slice indexing    *)
(*               panics and the whole off-chain worker run aborts.         *)
(* The swap id is T::Hashing::hash of the topic, taken as injective, so a  *)
(* swap is one model value on both chains.                                 *)
(***************************************************************************)
EXTENDS Naturals, Sequences, SequencesExt

CONSTANTS
    Swaps,       \* external swap ids
    Accounts     \* ledger accounts (receivers and the custody account)

\* The three known signatures EVENT_SIG_HTLC / _CLAIM / _REFUND and the
\* HTLCType each decodes to.
LogKinds     == {"HTLC", "Claimed", "Refunded"}
EntryClasses == {"ok", "invalid", "skip", "malformed"}

LogEntries == [kind : LogKinds, swap : Swaps, receiver : Accounts, class : EntryClasses]

\* The indexer's response body: whether the envelope has status "1" and
\* message "OK" (and is UTF-8 JSON), and the `result` entries.
Bodies == [envelopeOk : BOOLEAN, result : Seq(LogEntries)]

(***************************************************************************)
(* parse_*_event: an entry decodes to an EventHTLC iff its fields decode   *)
(* and its receiver is not the custody account pra_token_addr (the         *)
(* "Needs different accounts" ensure of all three decoders).               *)
(***************************************************************************)
\* Mutant: the amount / hex ensures dropped, only the custody check kept.
DecodesAnyClass(entry, custody) == entry.receiver # custody

Decodes(entry, custody) ==
    /\ entry.class = "ok"
    /\ entry.receiver # custody

\* Mutant: parse_refund_event copied from parse_claim_event, event_type
\* left as Claimed.
AsRecordRefundAsClaim(entry) ==
    [event_type    |-> IF entry.kind = "Refunded" THEN "Claimed" ELSE entry.kind,
     swap_id       |-> entry.swap,
     receiver_addr |-> entry.receiver]

AsRecord(entry) ==
    [event_type |-> entry.kind, swap_id |-> entry.swap, receiver_addr |-> entry.receiver]

\* Some entry panics the decoder (slice out of range).
Panics(body) ==
    /\ body.envelopeOk
    /\ \E i \in DOMAIN body.result : body.result[i].class = "malformed"

(***************************************************************************)
(* parse_data(res): an empty vector on a bad envelope; otherwise, in the   *)
(* order of `result`, the record of every entry that decodes (entries with *)
(* empty topics, unknown signatures or decode errors are logged and        *)
(* skipped).  Meaningful only when ~Panics(body).                          *)
(***************************************************************************)
ParseData(body, custody) ==
    IF body.envelopeOk
    THEN LET kept == SelectSeq(body.result, LAMBDA e : Decodes(e, custody))
         IN  [i \in DOMAIN kept |-> AsRecord(kept[i])]
    ELSE <<>>
=============================================================================
