------------------------------ MODULE MC_Oracle ------------------------------
(***************************************************************************)
(* Model-checking instance of Oracle; the constants are given in the .cfg  *)
(* files.  Nodes, Swaps and Accounts are sets of model values.             *)
(***************************************************************************)
EXTENDS Oracle

\* Nodes are interchangeable, and so are accounts: no action or property
\* names one of them.
Symmetry == Permutations(Nodes) \cup Permutations(Accounts)

(***************************************************************************)
(* The numeric decoders (OracleCodecNum) against reference definitions,    *)
(* with u32 scaled to 4 bits (one hex digit) and 4-digit data words.       *)
(* Every run of this module re-checks them.                                *)
(***************************************************************************)
Num == INSTANCE OracleCodecNum WITH U32Bits <- 4, WordDigits <- 4

\* The value of a string of hex digits.
HexValue(s) == FoldLeft(LAMBDA acc, d : acc * 16 + d, 0, s)

\* from_str_radix returns the value of the digits, and Err exactly on an
\* empty string, a byte that is no hex digit, or a value past the type.
FromStrRadixIsHexValue ==
    \A s \in SeqOf({0, 1, 15, Num!NonHex}, 3), bits \in {4, 8} :
        Num!FromStrRadix16(s, bits) =
            IF s # <<>> /\ Num!NonHex \notin ToSet(s) /\ HexValue(s) < 2^bits
            THEN HexValue(s) ELSE Num!Err

\* The fields of an Open entry as the contract and the indexer encode them.
OpenFields(ev, ex, out, pra) ==
    [event_ts |-> Num!JsonHex(1), htlc_ts |-> Num!Word(1), event_block |-> Num!JsonHex(ev),
     expire |-> Num!Word(ex), out |-> Num!Word(out), pra |-> Num!Word(pra)]

\* Spec 8: "for all valid Open-event hex payloads, expire_height ==
\* expire_block_number - event_block_number, and amount == mirrored_amount".
\* On what the contract emits, parse_htlc_event accepts exactly the entries
\* with out = pra in 1..u32::MAX (a larger amount is refused), and its
\* expire_height is the difference exactly when the event is not after the
\* expiry; otherwise it wraps (release) or panics the worker (debug).
HtlcNumbersAgainstSpec ==
    \A ev, ex \in 0..15, out, pra \in {0, 1, 15, 16} :
        LET rel == Num!ParseHtlcNumbers(OpenFields(ev, ex, out, pra), "release")
            dbg == Num!ParseHtlcNumbers(OpenFields(ev, ex, out, pra), "debug")
        IN  /\ rel.outcome = "ok" <=> out = pra /\ out \in 1..15
            /\ rel.outcome = "ok" => /\ rel.out_amount = out
                                     /\ rel.expire_height = ex - ev <=> ex >= ev
            /\ dbg.outcome = IF rel.outcome = "ok" /\ ex < ev THEN "panic" ELSE rel.outcome

\* In a release build is_claimable's u32 addition undoes the wrap of
\* expire_height: while the absolute expiry block fits in u32, a swap
\* included at block h is claimable exactly before h + expire - event.
ClaimableWindowSurvivesWrap ==
    \A ev, ex, h, now \in 0..15 :
        (h <= now /\ h + ex - ev \in 0..15) =>
            LET eh == Num!ParseHtlcNumbers(OpenFields(ev, ex, 1, 1), "release").expire_height
            IN  Num!IsClaimable(now, h, eh, "release").claimable = (now < h + ex - ev)

ASSUME FromStrRadixIsHexValue /\ HtlcNumbersAgainstSpec /\ ClaimableWindowSurvivesWrap
=============================================================================
