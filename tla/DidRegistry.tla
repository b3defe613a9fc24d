------------------------------ MODULE DidRegistry ------------------------------
(***************************************************************************)
(* What the DID pallet promises of its identities, whatever the balances   *)
(* and locks do: a did, once registered, stays registered, with the        *)
(* superior and the social accounts it was registered with; an account     *)
(* controls at most one did; and a did changes hands only to an account    *)
(* that controls none.  Did implements it (RegistryRefined, checked with  *)
(* the Ads calls in ads_accounting).                                      *)
(***************************************************************************)
EXTENDS Functions, TLC

CONSTANTS
    Accounts,      \* AccountIds
    Dids,          \* did hashes
    Socials        \* social account hashes

VARIABLES
    owner,         \* did -> the account controlling it
    superiorOf,    \* did -> the superior hash it was registered under
    socialOf       \* social account -> the did it is bound to

regVars == <<owner, superiorOf, socialOf>>

RegInit ==
    /\ owner = [d \in {} |-> CHOOSE a \in Accounts : TRUE]
    /\ superiorOf = [d \in {} |-> CHOOSE x \in Dids : TRUE]
    /\ socialOf = [s \in {} |-> CHOOSE x \in Dids : TRUE]

\* A new did for an account without one, binding social accounts not bound.
Register(d, a, sup, socials) ==
    /\ d \notin DOMAIN owner
    /\ a \notin Range(owner)
    /\ socials \cap DOMAIN socialOf = {}
    /\ owner' = (d :> a) @@ owner
    /\ superiorOf' = (d :> sup) @@ superiorOf
    /\ socialOf' = [x \in socials |-> d] @@ socialOf

\* A registered did handed to an account without one.
Move(d, b) ==
    /\ d \in DOMAIN owner
    /\ b \notin Range(owner)
    /\ owner' = [owner EXCEPT ![d] = b]
    /\ UNCHANGED <<superiorOf, socialOf>>

RegNext ==
    \/ \E d, sup \in Dids, a \in Accounts, socials \in SUBSET Socials :
          Register(d, a, sup, socials)
    \/ \E d \in Dids, b \in Accounts : Move(d, b)

RegSpec == RegInit /\ [][RegNext]_regVars
=============================================================================
