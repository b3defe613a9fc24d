-------------------------------- MODULE Harsh --------------------------------
(***************************************************************************)
(* The hashids encoder of the DID pallet                                   *)
(* (src/bin/node/modules/did/src/harsh.rs), as pure operators over byte    *)
(* sequences.  A byte is a Nat (its ASCII code); a Rust slice is a TLA+    *)
(* sequence, so the source's 0-based index k is the sequence's k+1.        *)
(*                                                                         *)
(* A Harsh value is the record [salt, alphabet, separators, hashLength,    *)
(* guards] that HarshBuilder::init builds.  Option<T> results: an Err or   *)
(* a panic of the builder is the outcome record's `err`; _decode's None is *)
(* <<>> (it never returns Some of an empty vector) and _unhash's None is   *)
(* -1 (its values are u64).                                                *)
(***************************************************************************)
EXTENDS Integers, Sequences, SequencesExt, Functions

\* DEFAULT_ALPHABET: a-z, A-Z, 1-9, 0.
DefaultAlphabet ==
    [i \in 1..26 |-> 96 + i] \o [i \in 1..26 |-> 64 + i]
        \o [i \in 1..9 |-> 48 + i] \o <<48>>

\* DEFAULT_SEPARATORS: "cfhistuCFHISTU".
DefaultSeparators == <<99, 102, 104, 105, 115, 116, 117, 67, 70, 72, 73, 83, 84, 85>>

MinimumAlphabetLength == 16
Space == 32

Swap(s, i, j) == [s EXCEPT ![i] = s[j], ![j] = s[i]]

(* shuffle(values, salt): for i from len-1 down to 1, v := v % salt_len,   *)
(* n := salt[v], p += n, swap values[i] and values[(n + v + p) % i],       *)
(* v += 1.  Indices i and v below are the source's (0-based).              *)
RECURSIVE ShuffleFrom(_, _, _, _, _)
ShuffleFrom(values, salt, i, v, p) ==
    IF i <= 0 THEN values
    ELSE LET w == v % Len(salt)
             n == salt[w + 1]
             q == p + n
         IN  ShuffleFrom(Swap(values, i + 1, ((n + w + q) % i) + 1), salt, i - 1, w + 1, q)

Shuffle(values, salt) ==
    IF salt = <<>> THEN values ELSE ShuffleFrom(values, salt, Len(values) - 1, 0, 0)

(* hash(value, alphabet): the digits of value in base len(alphabet), most  *)
(* significant first, at least one digit.                                  *)
RECURSIVE HashDigits(_, _)
HashDigits(value, alphabet) ==
    LET digit == <<alphabet[(value % Len(alphabet)) + 1]>>
    IN  IF value \div Len(alphabet) = 0 THEN digit
        ELSE HashDigits(value \div Len(alphabet), alphabet) \o digit

\* Position of byte u in s, 0-based, or -1 (Iterator::position).
PositionOf(s, u) == SelectInSeq(s, LAMBDA x : x = u) - 1

(* _unhash(input, alphabet): sum of position * len^(len(input)-idx-1),     *)
(* None (-1) as soon as a byte is not in the alphabet.                     *)
Unhash(input, alphabet) ==
    IF \E k \in DOMAIN input : PositionOf(alphabet, input[k]) < 0 THEN -1
    ELSE LET pos(k) == PositionOf(alphabet, input[k])
             step(a, k) == a + pos(k) * Len(alphabet)^(Len(input) - k)
         IN  FoldLeft(step, 0, [k \in DOMAIN input |-> k])

(* create_nhash(values): sum of value % (idx + 100).                       *)
CreateNhash(values) ==
    FoldLeft(LAMBDA a, k : a + (values[k] % ((k - 1) + 100)), 0, [k \in DOMAIN values |-> k])

-----------------------------------------------------------------------------
(* HarshBuilder::init and its helpers.                                     *)

(* unique_alphabet(Some(alphabet)): the alphabet's bytes without repeats,  *)
(* Err on a space.  A first occurrence is inserted into `reg` at its index *)
(* in the input, `reg.insert(idx, item)`, which panics once a repeat has   *)
(* made idx larger than len(reg).                                          *)
RECURSIVE UniqueFrom(_, _, _, _)
UniqueFrom(input, idx, reg, ret) ==
    IF idx = Len(input) THEN [err |-> "none", alphabet |-> ret]
    ELSE LET item == input[idx + 1]
         IN  CASE item = Space              -> [err |-> "illegal words", alphabet |-> ret]
               [] item \in Range(reg)       -> UniqueFrom(input, idx + 1, reg, ret)
               [] idx > Len(reg)            -> [err |-> "panic", alphabet |-> ret]
               [] OTHER -> UniqueFrom(input, idx + 1, InsertAt(reg, idx + 1, item), Append(ret, item))

\* unique_alphabet: None is the default alphabet; a custom one needs 16 bytes.
UniqueAlphabet(custom) ==
    IF custom = <<>> THEN [err |-> "none", alphabet |-> DefaultAlphabet]
    ELSE LET u == UniqueFrom(custom, 0, <<>>, <<>>)
         IN  IF u.err = "none" /\ Len(u.alphabet) < 16
             THEN [u EXCEPT !.err = "length error"] ELSE u

(* alphabet_and_separators: keep the separators that are in the alphabet, *)
(* drop them from the alphabet, shuffle the separators by the salt; when   *)
(* there are none, or len(alphabet) / len(separators) > 3.5, take         *)
(* floor(len(alphabet) / 3.5) separators (2 instead of 1), moving the      *)
(* missing ones from the front of the alphabet; shuffle the alphabet.      *)
(* The f64 arithmetic is exact on these lengths: x / 3.5 = 2x / 7.         *)
AlphabetAndSeparators(separators, alphabet, salt) ==
    LET seps0  == SelectSeq(separators, LAMBDA x : x \in Range(alphabet))
        alpha0 == SelectSeq(alphabet, LAMBDA x : x \notin Range(seps0))
        seps1  == Shuffle(seps0, salt)
        n      == (2 * Len(alpha0)) \div 7
        length == IF n = 1 THEN 2 ELSE n
        diff   == length - Len(seps1)
        resize == seps1 = <<>> \/ 2 * Len(alpha0) > 7 * Len(seps1)
        seps2  == IF ~resize THEN seps1
                  ELSE IF length > Len(seps1) THEN seps1 \o SubSeq(alpha0, 1, diff)
                  ELSE SubSeq(seps1, 1, length)
        alpha2 == IF resize /\ length > Len(seps1)
                  THEN SubSeq(alpha0, diff + 1, Len(alpha0)) ELSE alpha0
    IN  [alphabet |-> Shuffle(alpha2, salt), separators |-> seps2]

(* guards: floor(len(alphabet) / 12) guards, taken from the front of the   *)
(* separators when the alphabet is shorter than 3, else of the alphabet.   *)
Guards(alphabet, separators) ==
    LET count == Len(alphabet) \div 12
    IN  IF Len(alphabet) < 3
        THEN [guards |-> SubSeq(separators, 1, count), alphabet |-> alphabet,
              separators |-> SubSeq(separators, count + 1, Len(separators))]
        ELSE [guards |-> SubSeq(alphabet, 1, count), separators |-> separators,
              alphabet |-> SubSeq(alphabet, count + 1, Len(alphabet))]

(* HarshBuilder: the options set so far.  <<>> stands for an option left *)
(* None (a salt of None is the empty salt anyway).                         *)
HarshBuilderNew == [salt |-> <<>>, alphabet |-> <<>>, separators |-> <<>>, hashLength |-> 0]

WithSalt(b, salt)        == [b EXCEPT !.salt = salt]
WithAlphabet(b, custom)  == [b EXCEPT !.alphabet = custom]
WithSeparators(b, seps)  == [b EXCEPT !.separators = seps]
WithLength(b, length)    == [b EXCEPT !.hashLength = length]

(* init(): the Harsh value, or the error of unique_alphabet / the length   *)
(* check.                                                                  *)
HarshInit(b) ==
    LET u  == UniqueAlphabet(b.alphabet)
        as == AlphabetAndSeparators(IF b.separators = <<>> THEN DefaultSeparators
                                    ELSE b.separators,
                                    u.alphabet, b.salt)
        g  == Guards(as.alphabet, as.separators)
    IN  IF u.err # "none" THEN [err |-> u.err]
        ELSE IF Len(u.alphabet) < MinimumAlphabetLength THEN [err |-> "_alphabet length error"]
        ELSE [err |-> "none", salt |-> b.salt, alphabet |-> g.alphabet,
              separators |-> g.separators, hashLength |-> b.hashLength, guards |-> g.guards]

\* Harsh::default(): HarshBuilder::new().init().unwrap().
DefaultHarsh == HarshInit(HarshBuilderNew)

-----------------------------------------------------------------------------
(* Harsh::encode and Harsh::_decode.                                       *)

(* The `for (idx, &value) in values` loop of encode: per value, shuffle    *)
(* the alphabet by the first len(alphabet) bytes of lottery ++ salt ++     *)
(* alphabet, append hash(value); between values append the separator       *)
(* chosen by value % (last[0] + idx).  Returns the alphabet and buffer.    *)
RECURSIVE EncodeValues(_, _, _, _, _, _)
EncodeValues(h, values, idx, alphabet, buffer, lottery) ==
    IF idx = Len(values) THEN [alphabet |-> alphabet, buffer |-> buffer]
    ELSE LET temp  == SubSeq(<<lottery>> \o h.salt \o alphabet, 1, Len(alphabet))
             alpha == Shuffle(alphabet, temp)
             last  == HashDigits(values[idx + 1], alpha)
             sep   == h.separators[((values[idx + 1] % (last[1] + idx)) % Len(h.separators)) + 1]
         IN  EncodeValues(h, values, idx + 1, alpha,
                          buffer \o last \o (IF idx + 1 < Len(values) THEN <<sep>> ELSE <<>>),
                          lottery)

(* The guards: below hash_length, a guard chosen by (nhash + buffer[0])    *)
(* goes in front, and, still below, one chosen by (nhash + buffer[2])      *)
(* goes at the back.                                                       *)
AddGuards(h, nhash, buffer) ==
    LET guardAt(k) == h.guards[(k % Len(h.guards)) + 1]
        front == <<guardAt(nhash + buffer[1])>> \o buffer
    IN  IF Len(buffer) >= h.hashLength THEN buffer
        ELSE IF Len(front) >= h.hashLength THEN front
        ELSE Append(front, guardAt(nhash + front[3]))

(* The padding loop: while below hash_length, shuffle the alphabet by      *)
(* itself, wrap the buffer in its two halves and keep the middle           *)
(* hash_length bytes, starting at excess / 2.                              *)
RECURSIVE Pad(_, _, _)

\* Mutant: the window taken from the start of the wrapped buffer.
PadFromStart(h, alphabet, buffer) ==
    IF Len(buffer) >= h.hashLength THEN buffer
    ELSE LET half    == Len(alphabet) \div 2
             alpha   == Shuffle(alphabet, alphabet)
             wrapped == SubSeq(alpha, 1, half) \o buffer \o SubSeq(alpha, half + 1, Len(alpha))
         IN  Pad(h, alpha, SubSeq(wrapped, 1, h.hashLength))

Pad(h, alphabet, buffer) ==
    IF Len(buffer) >= h.hashLength THEN buffer
    ELSE LET half    == Len(alphabet) \div 2
             alpha   == Shuffle(alphabet, alphabet)
             wrapped == SubSeq(alpha, 1, half) \o buffer \o SubSeq(alpha, half + 1, Len(alpha))
             excess  == Len(wrapped) - h.hashLength
         IN  Pad(h, alpha, IF excess > 0
                           THEN SubSeq(wrapped, (excess \div 2) + 1, (excess \div 2) + h.hashLength)
                           ELSE wrapped)

(* encode(values): None (<<>>) for no values; else the lottery byte        *)
(* alphabet[nhash % len], the encoded values, the guards and the padding.  *)
Encode(h, values) ==
    LET nhash   == CreateNhash(values)
        lottery == h.alphabet[(nhash % Len(h.alphabet)) + 1]
        enc     == EncodeValues(h, values, 0, h.alphabet, <<lottery>>, lottery)
    IN  IF values = <<>> THEN <<>>
        ELSE Pad(h, enc.alphabet, AddGuards(h, nhash, enc.buffer))

\* value.split(|u| separators.contains(u)): always at least one segment.
RECURSIVE SplitOn(_, _)
SplitOn(s, seps) ==
    LET k == SelectInSeq(s, LAMBDA u : u \in Range(seps))
    IN  IF k = 0 THEN <<s>>
        ELSE <<SubSeq(s, 1, k - 1)>> \o SplitOn(SubSeq(s, k + 1, Len(s)), seps)

\* The segments decoded in order, each after one more shuffle of the alphabet.
RECURSIVE UnhashSegments(_, _, _, _)
UnhashSegments(h, segments, alphabet, lottery) ==
    IF segments = <<>> THEN <<>>
    ELSE LET alpha == Shuffle(alphabet, SubSeq(<<lottery>> \o h.salt \o alphabet, 1, Len(alphabet)))
         IN  <<Unhash(Head(segments), alpha)>>
                 \o UnhashSegments(h, Tail(segments), alpha, lottery)

(* _decode(value): truncate at the LAST guard, then drop everything up to  *)
(* and including the first guard left; None below 2 bytes; split the rest  *)
(* after the lottery byte on the separators and unhash every segment;      *)
(* None if one segment is None.                                            *)
Decode(h, value) ==
    LET isGuard(u) == u \in Range(h.guards)
        lastG  == SelectLastInSeq(value, isGuard)
        v1     == IF lastG = 0 THEN value ELSE SubSeq(value, 1, lastG - 1)
        firstG == SelectInSeq(v1, isGuard)
        v2     == IF firstG = 0 THEN v1 ELSE SubSeq(v1, firstG + 1, Len(v1))
        nums   == UnhashSegments(h, SplitOn(Tail(v2), h.separators), h.alphabet, v2[1])
    IN  IF Len(v2) < 2 \/ \E k \in DOMAIN nums : nums[k] < 0 THEN <<>> ELSE nums
=============================================================================
