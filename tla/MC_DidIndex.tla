----------------------------- MODULE MC_DidIndex -----------------------------
(* The index step of create with the pallet's Harsh configuration.         *)
EXTENDS DidIndex

\* "prochain did", the salt of lib.rs:185, as bytes.
ProchainSalt == <<112, 114, 111, 99, 104, 97, 105, 110, 32, 100, 105, 100>>

(* Counts around 44^3 = 85184, where the hash grows to 4 digits and encode  *)
(* adds only the front guard: the indices create writes there are still    *)
(* pairwise distinct, so IndexFresh's conclusion carries past the 2-digit  *)
(* counts its run reaches.                                                 *)
FourDigitWindow == 85164..85204

IndexInjectiveAtFourDigits ==
    LET idx == [c \in FourDigitWindow |-> Encode(Harsher, <<c>>)]
    IN  \A c1, c2 \in FourDigitWindow : c1 # c2 => idx[c1] # idx[c2]

ASSUME IndexInjectiveAtFourDigits
=============================================================================
