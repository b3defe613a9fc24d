-------------------------------- MODULE MC_Did --------------------------------
(***************************************************************************)
(* Model-checking instance of Did; the constants are given in the .cfg     *)
(* files.  Accounts, Dids and Socials are sets of model values.            *)
(***************************************************************************)
EXTENDS Did

\* Dids and social accounts are interchangeable; accounts are not (one is
\* the genesis account).
Symmetry == Permutations(Dids) \cup Permutations(Socials)

H == INSTANCE Harsh

(***************************************************************************)
(* The tests of harsh.rs, on the Harsh operators that DidIndex uses.       *)
(* Did keys AllDidsArray by the count (see DidIndex).  The encode and      *)
(* decode of 1226198605112 in can_encode / can_decode are left out: the    *)
(* value does not fit TLC's integers.                                      *)
(***************************************************************************)
TestSalt == <<116, 104, 105, 115, 32, 105, 115, 32, 109, 121, 32, 115, 97, 108, 116>>
TestHarsh(length) == H!HarshInit(H!WithLength(H!WithSalt(H!HarshBuilderNew, TestSalt), length))
LowerAlphabet == <<97, 98, 99, 100, 101, 102, 103, 104, 105, 106, 107, 108, 109, 110, 111, 112, 113, 114, 115, 116, 117, 118, 119, 120, 121, 122>>
CustomHarsh == H!HarshInit(H!WithAlphabet(H!HarshBuilderNew, LowerAlphabet))

HarshDefaultDoesNotPanic == H!DefaultHarsh.err = "none"
CanEncode == H!Encode(TestHarsh(0), <<1, 2, 3>>) = <<108, 97, 72, 113, 117, 113>>
CanEncodeWithGuards == H!Encode(TestHarsh(8), <<1, 2, 3>>) = <<71, 108, 97, 72, 113, 117, 113, 48>>
CanEncodeWithPadding == H!Encode(TestHarsh(12), <<1, 2, 3>>) = <<49, 118, 71, 108, 97, 72, 113, 117, 113, 48, 66, 97>>
CanDecode == H!Decode(TestHarsh(0), <<108, 97, 72, 113, 117, 113>>) = <<1, 2, 3>>
CanDecodeWithGuards == H!Decode(TestHarsh(8), <<71, 108, 97, 72, 113, 117, 113, 48>>) = <<1, 2, 3>>
CanDecodeWithPadding == H!Decode(TestHarsh(12), <<57, 76, 71, 108, 97, 72, 113, 117, 113, 48, 54, 68>>) = <<1, 2, 3>>
CanEncodeWithCustomAlphabet == H!Encode(CustomHarsh, <<1, 2, 3>>) = <<108, 113, 102, 113, 104, 114>>
CanDecodeWithInvalidAlphabet == H!Decode(H!DefaultHarsh, <<116, 104, 105, 115, 36, 97, 105, 110, 39, 116, 124, 97, 10, 117, 109, 98, 101, 114>>) = <<>>
CanDecodeWithCustomAlphabet == H!Decode(CustomHarsh, <<108, 113, 102, 113, 104, 114>>) = <<1, 2, 3>>
CreateNhashTest == H!CreateNhash(<<1, 2, 3>>) = 6
HashTest == H!HashDigits(22, LowerAlphabet) = <<119>>
AlphabetAndSeparatorGeneration ==
    H!AlphabetAndSeparators(H!DefaultSeparators, H!DefaultAlphabet, TestSalt) =
        [alphabet |-> <<65, 100, 71, 48, 53, 78, 54, 121, 50, 114, 108, 106, 68, 81, 97, 107, 52, 120, 103, 122, 110, 56, 90, 82, 49, 111, 75, 89, 76, 109, 74, 112, 69, 98, 86, 113, 51, 79, 66, 118, 57, 87, 119, 88, 80, 77, 101, 55>>,
         separators |-> <<85, 72, 117, 104, 116, 99, 73, 84, 67, 115, 70, 105, 102, 83>>]
AlphabetAndSeparatorGenerationWithFewSeparators ==
    H!AlphabetAndSeparators(<<102, 117>>, H!DefaultAlphabet, TestSalt) =
        [alphabet |-> <<53, 55, 49, 52, 56, 73, 86, 69, 72, 54, 115, 75, 113, 50, 66, 51, 85, 65, 116, 88, 89, 76, 121, 82, 77, 119, 118, 74, 67, 87, 78, 114, 83, 120, 122, 90, 70, 79, 71, 57, 84, 81, 48, 80, 68>>,
         separators |-> <<117, 102, 97, 98, 99, 100, 101, 103, 104, 105, 106, 107, 108, 109, 110, 111, 112>>]
ShuffleTest == H!Shuffle(<<97, 115, 100, 102, 122, 120, 99, 118, 113, 119, 101, 114>>, <<49, 50, 51, 52>>) = <<118, 100, 119, 113, 102, 114, 122, 99, 115, 120, 97, 101>>

ASSUME /\ HarshDefaultDoesNotPanic
       /\ CanEncode /\ CanEncodeWithGuards /\ CanEncodeWithPadding
       /\ CanDecode /\ CanDecodeWithGuards /\ CanDecodeWithPadding
       /\ CanEncodeWithCustomAlphabet /\ CanDecodeWithInvalidAlphabet
       /\ CanDecodeWithCustomAlphabet
       /\ CreateNhashTest /\ HashTest
       /\ AlphabetAndSeparatorGeneration
       /\ AlphabetAndSeparatorGenerationWithFewSeparators
       /\ ShuffleTest
=============================================================================
