---------------------------- MODULE OracleCodecNum ----------------------------
(***************************************************************************)
(* The numeric fields of the Oracle decoders (src/bin/node/runtime/src/    *)
(* oracle.rs 451-592, 635-648): what OracleCodec abstracts to an entry's   *)
(* class.                                                                  *)
(*                                                                         *)
(* A field is the byte string the parser copied out of the JSON entry (a   *)
(* JSON string, each char cast `as u8`) or sliced out of `data` (a 64-hex- *)
(* digit word), as a sequence of symbols: a hex digit 0..15, NonHex (an    *)
(* ASCII byte that is no hex digit) or NonUtf8 (a byte that makes the      *)
(* field invalid UTF-8, e.g. a non-ASCII char truncated to 0x80..0xFF).    *)
(* U32Bits is the width of u32 (u64 is twice it) and WordDigits the length *)
(* of a data word; both are scaled down for TLC, the digit arithmetic is   *)
(* exact at any width.                                                     *)
(*                                                                         *)
(* The runtime may be built with or without overflow checks: a u32         *)
(* subtraction that underflows wraps in one build and panics in the other, *)
(* so the build is a parameter of the decoder.                             *)
(***************************************************************************)
EXTENDS Integers, Sequences, SequencesExt

CONSTANTS
    U32Bits,       \* bits of u32 (32)
    WordDigits     \* hex digits of an ABI data word (64)

ASSUME U32Bits \in Nat \ {0} /\ WordDigits \in Nat /\ WordDigits >= 2

HexDigit == 0..15
NonHex   == 16
NonUtf8  == 17
Symbols  == HexDigit \cup {NonHex, NonUtf8}
Builds   == {"release", "debug"}

(* The environment's encodings: an ABI data word (big-endian, zero-padded *)
(* to WordDigits digits) and an indexer JSON number ("0x" and the digits  *)
(* without leading zeros).                                                 *)
Word(v) == [i \in 1..WordDigits |-> (v \div 16^(WordDigits - i)) % 16]

RECURSIVE HexOf(_)
HexOf(v) == IF v < 16 THEN <<v>> ELSE HexOf(v \div 16) \o <<v % 16>>

JsonHex(v) == <<0, NonHex>> \o HexOf(v)

\* The Err of from_str_radix (no value is negative).
Err == -1

(***************************************************************************)
(* u32 / u64 ::from_str_radix(s, 16): Err on an empty string; otherwise    *)
(* digit by digit, Err on a byte that is no hex digit and on a checked_mul *)
(* or checked_add past the type's range.  (A leading '+', which it skips, *)
(* is not among the symbols: the indexer serves no signed numbers.)       *)
(***************************************************************************)
RECURSIVE RadixDigits(_, _, _)
RadixDigits(s, acc, bound) ==
    IF s = <<>> THEN acc
    ELSE IF Head(s) \notin HexDigit \/ acc * 16 + Head(s) >= bound THEN Err
    ELSE RadixDigits(Tail(s), acc * 16 + Head(s), bound)

FromStrRadix16(s, bits) == IF s = <<>> THEN Err ELSE RadixDigits(s, 0, 2^bits)

\* &field[STR_PREFIX.len()..]: the first two bytes are skipped unchecked.
\* For the JSON strings they are "0x"; for a data word they are its two
\* most significant hex digits.  A field shorter than two bytes panics.
AfterPrefix(s) == SubSeq(s, 3, Len(s))

\* core::str::from_utf8(..).unwrap() before every parse.
ParsePanics(s) == Len(s) < 2 \/ NonUtf8 \in ToSet(AfterPrefix(s))

ParseField(s, bits) == FromStrRadix16(AfterPrefix(s), bits)

\* One `?` or ensure! of a decoder: it may panic, or return Err.
Step(panics, fails) == [panics |-> panics, fails |-> fails]

\* The decoder's outcome: the first step that panics or fails decides it.
Outcome(steps, value) ==
    LET first == SelectInSeq(steps, LAMBDA st : st.panics \/ st.fails)
    IN  IF first = 0 THEN [outcome |-> "ok"] @@ value
        ELSE IF steps[first].panics THEN [outcome |-> "panic"] @@ value
        ELSE [outcome |-> "err"] @@ value

(***************************************************************************)
(* The numeric part of parse_htlc_event (468-481, 496), in the code's      *)
(* order: event_time_stamp and htlc_time_stamp as u64, event_block_number, *)
(* expire_height, out_amount and pra_amount as u32, the amount ensure,     *)
(* and expire_height = expire_block_num - event_block_num in u32.  The     *)
(* receiver's hex and account decode between the ensure and the record     *)
(* are taken to succeed.  f has the fields event_ts and event_block (JSON  *)
(* strings) and htlc_ts, expire, out and pra (data words).                 *)
(***************************************************************************)
ParseHtlcNumbers(f, build) ==
    LET evTs  == ParseField(f.event_ts, 2 * U32Bits)
        htTs  == ParseField(f.htlc_ts, 2 * U32Bits)
        evBlk == ParseField(f.event_block, U32Bits)
        exBlk == ParseField(f.expire, U32Bits)
        out   == ParseField(f.out, U32Bits)
        pra   == ParseField(f.pra, U32Bits)
        steps == << Step(ParsePanics(f.event_ts), evTs = Err),
                    Step(ParsePanics(f.htlc_ts), htTs = Err),
                    Step(ParsePanics(f.event_block), evBlk = Err),
                    Step(ParsePanics(f.expire), exBlk = Err),
                    Step(ParsePanics(f.out), out = Err),
                    Step(ParsePanics(f.pra), pra = Err),
                    Step(FALSE, ~(out > 0 /\ out = pra)),
                    Step(build = "debug" /\ exBlk < evBlk, FALSE) >>
    IN  Outcome(steps, [expire_height |-> (exBlk - evBlk) % 2^U32Bits,
                        out_amount |-> out, event_block |-> evBlk])

\* parse_claim_event / parse_refund_event (529-530, 571-572): the only
\* number is event_block_number, parsed after the receiver checks.
ParseSettleNumbers(f) ==
    LET evBlk == ParseField(f.event_block, U32Bits)
    IN  Outcome(<< Step(ParsePanics(f.event_block), evBlk = Err) >>,
                [expire_height |-> 0, out_amount |-> 0, event_block |-> evBlk])

(***************************************************************************)
(* is_claimable (635-648), never called by the pallet: an open swap is     *)
(* claimable while the block number is below htlc_block_number +          *)
(* expire_height, a u32 addition.                                          *)
(***************************************************************************)
IsClaimable(now, htlcBlock, expireHeight, build) ==
    LET until == htlcBlock + expireHeight
    IN  [panics    |-> build = "debug" /\ until >= 2^U32Bits,
         claimable |-> now < until % 2^U32Bits]
=============================================================================
