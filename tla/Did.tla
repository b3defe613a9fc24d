--------------------------------- MODULE Did ---------------------------------
(***************************************************************************)
(* The DID pallet (src/bin/node/modules/did/src/lib.rs) with the balances  *)
(* it moves.                                                               *)
(*                                                                         *)
(* A did is a model value (the hash of its did_ele); an account holds at   *)
(* most one did (Identity) and a did one account (IdentityOf).  Metadata   *)
(* keeps, per did, the fields the calls read: address, superior, bound     *)
(* social account, subordinate_count, the lock record, whether a group     *)
(* name is set and which external address kinds are set.  creator,         *)
(* did_ele and unlock_records are written but never read and are left     *)
(* out; AllDidsIndex is the inverse of AllDidsArray and is left out too.   *)
(*                                                                         *)
(* Dispatch in this Substrate version is not transactional: a call that    *)
(* returns Err after a write keeps the write.  Each call is one atomic     *)
(* step whose effect is exactly the writes made before its first Err.      *)
(*                                                                         *)
(* Balance arithmetic written with + and - in the source is taken modulo   *)
(* BalanceMod (the wasm runtime is built without overflow checks);        *)
(* balances' own checked arithmetic never wraps.  TransferFee,             *)
(* CreationFee and ExistentialDeposit are 0, as in the pallet's tests.    *)
(***************************************************************************)
EXTENDS Naturals, FiniteSets, Sequences, Functions, TLC

CONSTANTS
    Accounts,        \* AccountIds
    Dids,            \* did hashes
    Socials,         \* social account hashes (hash of account ++ did_type)
    NoSocial,        \* None
    NoLock,          \* locked_records = None
    GenesisAccount,  \* GenesisAccount (genesis config)
    Endowment,       \* every account's free balance at genesis
    MinDeposit,      \* MinDeposit (genesis config)
    FeeToPrevious,   \* FeeToPrevious (genesis config)
    BalanceMod,      \* 2^(bits of T::Balance)
    Values,          \* amounts a caller passes
    Periods,         \* lock periods a caller passes
    MaxTime,         \* last timestamp of the model
    AddressKinds     \* the add_type values "btc", "eth", "eos" a caller passes

ASSUME GenesisAccount \in Accounts
ASSUME NoSocial \notin Socials
ASSUME MinDeposit >= FeeToPrevious

VARIABLES
    identity,        \* Identity: partial function account -> did
    identityOf,      \* IdentityOf: partial function did -> account
    socialAccount,   \* SocialAccount: partial function social hash -> did
    metadata,        \* Metadata: partial function did -> MetadataRecord
    allDidCount,     \* AllDidCount
    allDidsArray,    \* AllDidsArray, keyed by the count the index encodes
    free,            \* balances: free balance per account
    reserved,        \* balances: reserved balance per account
    now              \* timestamp::now

didVars == <<identity, identityOf, socialAccount, metadata, allDidCount,
             allDidsArray, free, reserved, now>>


LockedRecords ==
    [funds : 0..(BalanceMod - 1), ratio : 0..100, quota : Nat,
     time : 0..MaxTime, period : Periods]

MetadataRecords ==
    [address : Accounts, superior : Dids, social : Socials \cup {NoSocial},
     count : Nat, locked : LockedRecords \cup {NoLock},
     group : BOOLEAN, external : SUBSET AddressKinds]

Nothing == [x \in {} |-> NoSocial]

DidTypeOK ==
    /\ identity \in [DOMAIN identity -> Dids] /\ DOMAIN identity \subseteq Accounts
    /\ identityOf \in [DOMAIN identityOf -> Accounts] /\ DOMAIN identityOf \subseteq Dids
    /\ socialAccount \in [DOMAIN socialAccount -> Dids] /\ DOMAIN socialAccount \subseteq Socials
    /\ metadata \in [DOMAIN metadata -> MetadataRecords] /\ DOMAIN metadata \subseteq Dids
    /\ allDidCount \in Nat
    /\ free \in [Accounts -> Nat]
    /\ reserved \in [Accounts -> Nat]
    /\ now \in 0..MaxTime

DidInit ==
    /\ identity = Nothing
    /\ identityOf = Nothing
    /\ socialAccount = Nothing
    /\ metadata = Nothing
    /\ allDidCount = 0
    /\ allDidsArray = Nothing
    /\ free = [a \in Accounts |-> Endowment]
    /\ reserved = [a \in Accounts |-> 0]
    /\ now = 0

\* Balance arithmetic of the runtime (wrapping).
BalAdd(x, y) == (x + y) % BalanceMod
BalSub(x, y) == (x - y + BalanceMod) % BalanceMod

\* Currency::transfer with no fees: fails when the sender's free balance is
\* short; a transfer to oneself changes nothing.
Transferred(f, from, to, value) ==
    IF from = to THEN f ELSE [f EXCEPT ![from] = @ - value, ![to] = @ + value]

(***************************************************************************)
(* transfer_by_did(from_did, to_did, value, memo) on free balances f,      *)
(* returning the outcome: both dids must map to accounts, the sender must  *)
(* hold value and not be the receiver.  With a memo containing "ads" the   *)
(* value is split: rewards_ratio percent (0 when the superior has no lock) *)
(* to the receiver's superior, the rest to the receiver, each share        *)
(* rounded down, in two transfers; an Err of the second keeps the first.   *)
(***************************************************************************)
TransferChecks(fromDid, toDid, value, f) ==
    /\ fromDid \in DOMAIN identityOf
    /\ f[identityOf[fromDid]] >= value
    /\ toDid \in DOMAIN identityOf
    /\ identityOf[fromDid] # identityOf[toDid]

RewardsRatio(d) ==
    IF d \in DOMAIN metadata /\ metadata[d].locked # NoLock
    THEN metadata[d].locked.ratio ELSE 0

\* Memos are byte strings.  fee_type is b"ads"; a caller passes either no
\* memo or one that merely contains it.
FeeType == <<97, 100, 115>>
Memos   == {<< >>, <<117, 112, 108, 111, 97, 100, 115>>}   \* "" and "uploads"

StartsWith(haystack, needle) ==
    Len(needle) <= Len(haystack) /\ SubSeq(haystack, 1, Len(needle)) = needle

\* is_sub(haystack, needle): needle occurs somewhere in haystack; the
\* haystack is shortened by one byte until it starts with needle or is empty.
RECURSIVE IsSub(_, _)
IsSub(haystack, needle) ==
    \/ needle = << >>
    \/ /\ haystack # << >>
       /\ \/ StartsWith(haystack, needle)
          \/ IsSub(Tail(haystack), needle)

\* is_sub(&memo, fee_type) for every memo a caller may pass (a constant,
\* evaluated once): whether transfer_by_did splits the payment.
Splits == [m \in Memos |-> IsSub(m, FeeType)]

\* ads is is_sub(&memo, fee_type) of the memo passed.
TransferByDid(fromDid, toDid, value, ads, f) ==
    LET fa         == identityOf[fromDid]
        ta         == identityOf[toDid]
        sup        == metadata[toDid].superior
        toSuperior == (value * RewardsRatio(sup)) \div 100
        toUser     == (value * (100 - RewardsRatio(sup))) \div 100
        f1         == Transferred(f, fa, identityOf[sup], toSuperior)
    IN  CASE ~TransferChecks(fromDid, toDid, value, f) -> [error |-> TRUE, free |-> f]
          [] ~ads -> [error |-> FALSE, free |-> Transferred(f, fa, ta, value)]
          [] sup \notin DOMAIN identityOf -> [error |-> TRUE, free |-> f]
          [] f1[fa] < toUser -> [error |-> TRUE, free |-> f1]
          [] OTHER -> [error |-> FALSE, free |-> Transferred(f1, fa, ta, toUser)]

-----------------------------------------------------------------------------
(* create(origin, pubkey, address, did_type, superior, social_account,     *)
(* social_superior) (lib.rs 101-194).                                      *)

\* The superior a new did gets: the did bound to social_superior when both
\* social accounts are given, else the `superior` argument.
SuperiorOf(superior, social, socialSup) ==
    IF social # NoSocial /\ socialSup # NoSocial THEN socialAccount[socialSup] ELSE superior

\* The superior's subordinate_count is raised, under its quota, when it is
\* an existing did whose address is not the genesis account.
Counted(sup) == sup \in DOMAIN metadata /\ metadata[sup].address # GenesisAccount

QuotaOk(sup) ==
    /\ metadata[sup].locked # NoLock
    /\ metadata[sup].count + 1 <= metadata[sup].locked.quota

\* Mutant: the "this social account has been bound" ensure dropped.
SocialFreeAlways(social) == TRUE

SocialFree(social) == social \notin DOMAIN socialAccount

\* Mutant: the "did alread existed" ensure dropped.
DidIsNewAlways(did) == TRUE

DidIsNew(did) == did \notin DOMAIN metadata

NewMetadata(address, sup, social) ==
    [address |-> address, superior |-> sup, social |-> social, count |-> 0,
     locked |-> NoLock, group |-> FALSE, external |-> {}]

Create(address, did, superior, social, socialSup) ==
    LET sup == SuperiorOf(superior, social, socialSup)
    IN  /\ DidIsNew(did)
        /\ address \notin DOMAIN identity
        /\ social # NoSocial => SocialFree(social)
        /\ (social # NoSocial /\ socialSup # NoSocial) => socialSup \in DOMAIN socialAccount
        /\ Counted(sup) => QuotaOk(sup)
        /\ metadata' = (did :> NewMetadata(address, sup, social)) @@
                       (IF Counted(sup) THEN [metadata EXCEPT ![sup].count = @ + 1]
                                        ELSE metadata)
        /\ socialAccount' = IF social # NoSocial THEN (social :> did) @@ socialAccount
                                                 ELSE socialAccount
        /\ identity' = (address :> did) @@ identity
        /\ identityOf' = (did :> address) @@ identityOf
        /\ allDidCount' = allDidCount + 1
        /\ allDidsArray' = (allDidCount :> did) @@ allDidsArray
        /\ UNCHANGED <<free, reserved, now>>

\* Mutant: Identity::remove(sender) forgotten.
MovedIdentityKeepOld(a, to, did) == (to :> did) @@ identity

\* Identity after update: the old account's entry removed, `to` mapped.
MovedIdentity(a, to, did) == (to :> did) @@ [x \in DOMAIN identity \ {a} |-> identity[x]]

(* update(origin, to) (lib.rs 196-224): move the sender's did and its whole *)
(* free balance to the fresh account `to`.  Only the free balance moves.   *)
Update(a, to) ==
    LET did == identity[a]
    IN  /\ a \in DOMAIN identity
        /\ did \in DOMAIN metadata
        /\ to \notin DOMAIN identity
        /\ free' = Transferred(free, a, to, free[a])
        /\ identity' = MovedIdentity(a, to, did)
        /\ identityOf' = [identityOf EXCEPT ![did] = to]
        /\ metadata' = [metadata EXCEPT ![did].address = to]
        /\ UNCHANGED <<socialAccount, allDidCount, allDidsArray, reserved, now>>

(* transfer(origin, to_did, value, memo) (lib.rs 227-234).                 *)
Transfer(a, toDid, value, memo) ==
    LET res == TransferByDid(identity[a], toDid, value, Splits[memo], free)
    IN  /\ a \in DOMAIN identity
        /\ TransferChecks(identity[a], toDid, value, free)
        /\ Splits[memo] => metadata[toDid].superior \in DOMAIN identityOf
        /\ free' = res.free
        /\ UNCHANGED <<identity, identityOf, socialAccount, metadata, allDidCount,
                       allDidsArray, reserved, now>>

(***************************************************************************)
(* lock(origin, value, period) (lib.rs 237-291).  The first lock needs     *)
(* value >= MinDeposit, pays FeeToPrevious to the superior by              *)
(* transfer_by_did and reserves the rest; a later lock reserves value on   *)
(* top.  Either way the record gets max_quota = 10 * locked_funds,         *)
(* rewards_ratio 20 (both arms of the `if` at line 276 set 20), the        *)
(* current time and the period.  The balance guard computes value + 1      *)
(* with wrapping arithmetic.                                               *)
(***************************************************************************)
LockGuard(a, value) ==
    /\ free[a] >= BalAdd(value, 1)
    /\ a \in DOMAIN identity
    /\ metadata[identity[a]].superior \in DOMAIN metadata

\* The record written and the funds moved once the reserve succeeded.
LockRecorded(a, locked, f, amount, period) ==
    LET did == identity[a]
    IN  /\ free' = [f EXCEPT ![a] = @ - amount]
        /\ reserved' = [reserved EXCEPT ![a] = @ + amount]
        /\ metadata' = [metadata EXCEPT ![did].locked =
                          [funds |-> locked, ratio |-> 20, quota |-> 10 * locked,
                           time |-> now, period |-> period]]
        /\ UNCHANGED <<identity, identityOf, socialAccount, allDidCount, allDidsArray, now>>

\* The fee transfer of a first lock, with the memo "新群主抵押分成" (UTF-8).
LockMemo == <<230, 150, 176, 231, 190, 164, 228, 184, 187, 230, 138, 181, 230, 138, 188,
              229, 136, 134, 230, 136, 144>>

LockMemoSplits == IsSub(LockMemo, FeeType)

LockFee(a) ==
    TransferByDid(identity[a], metadata[identity[a]].superior, FeeToPrevious, LockMemoSplits, free)

LockFirst(a, value, period) ==
    LET locked == BalSub(value, FeeToPrevious)
    IN  /\ LockGuard(a, value)
        /\ metadata[identity[a]].locked = NoLock
        /\ value >= MinDeposit
        /\ ~LockFee(a).error
        /\ LockFee(a).free[a] >= locked
        /\ LockRecorded(a, locked, LockFee(a).free, locked, period)

\* The reserve of a first lock fails after the fee went to the superior:
\* lock returns Err and the fee transfer stays.
LockFirstReserveFails(a, value) ==
    /\ LockGuard(a, value)
    /\ metadata[identity[a]].locked = NoLock
    /\ value >= MinDeposit
    /\ ~LockFee(a).error
    /\ LockFee(a).free[a] < BalSub(value, FeeToPrevious)
    /\ free' = LockFee(a).free
    /\ UNCHANGED <<identity, identityOf, socialAccount, metadata, allDidCount,
                   allDidsArray, reserved, now>>

LockMore(a, value, period) ==
    LET md == metadata[identity[a]]
    IN  /\ LockGuard(a, value)
        /\ md.locked # NoLock
        /\ free[a] >= value
        /\ LockRecorded(a, BalAdd(md.locked.funds, value), free, value, period)

(***************************************************************************)
(* unlock(origin, value) (lib.rs 294-338): once locked_time +              *)
(* locked_period has passed, lower locked_funds by value (wrapping),       *)
(* recompute max_quota and rewards_ratio, and unreserve value.  The guard  *)
(* compares value with the account's reserved balance, not with            *)
(* locked_funds.                                                           *)
(***************************************************************************)
\* Mutant: the reserved-balance ensure dropped.
CanUnreserveAlways(a, value) == TRUE

CanUnreserve(a, value) == reserved[a] >= value

UnlockRatio(quota, count) == IF quota >= count THEN 20 ELSE 100 * (1 - quota \div count)

Unlock(a, value) ==
    LET did == identity[a]
        lr  == metadata[did].locked
        newLocked == BalSub(lr.funds, value)
    IN  /\ CanUnreserve(a, value)
        /\ a \in DOMAIN identity
        /\ lr # NoLock
        /\ now >= lr.time + lr.period
        /\ metadata' = [metadata EXCEPT ![did].locked =
                          [lr EXCEPT !.funds = newLocked, !.quota = 10 * newLocked,
                                     !.ratio = UnlockRatio(10 * newLocked, metadata[did].count)]]
        /\ free' = [free EXCEPT ![a] = @ + value]
        /\ reserved' = [reserved EXCEPT ![a] = @ - value]
        /\ UNCHANGED <<identity, identityOf, socialAccount, allDidCount, allDidsArray, now>>

(* add_external_address(origin, add_type, address) (lib.rs 341-374): a     *)
(* valid address of a known kind is stored; anything else is an Err.       *)
AddExternalAddress(a, kind) ==
    LET did == identity[a]
    IN  /\ a \in DOMAIN identity
        /\ metadata' = [metadata EXCEPT ![did].external = @ \cup {kind}]
        /\ UNCHANGED <<identity, identityOf, socialAccount, allDidCount, allDidsArray,
                       free, reserved, now>>

(* set_group_name(origin, name) (lib.rs 376-392): only a did with a lock,  *)
(* and a name shorter than 50 bytes.                                       *)
SetGroupName(a) ==
    LET did == identity[a]
    IN  /\ a \in DOMAIN identity
        /\ metadata[did].locked # NoLock
        /\ metadata' = [metadata EXCEPT ![did].group = TRUE]
        /\ UNCHANGED <<identity, identityOf, socialAccount, allDidCount, allDidsArray,
                       free, reserved, now>>

\* The timestamp pallet sets a later time in a new block.
Tick ==
    /\ now < MaxTime
    /\ now' = now + 1
    /\ UNCHANGED <<identity, identityOf, socialAccount, metadata, allDidCount,
                   allDidsArray, free, reserved>>

\* One call by one of the accounts in `actors` (create may name any account
\* as the new did's address), or a new timestamp.
DidStep(actors) ==
    \/ \E a \in Accounts, d, sup \in Dids, so, ss \in Socials \cup {NoSocial} :
          Create(a, d, sup, so, ss)
    \/ \E a \in actors, to \in Accounts : Update(a, to)
    \/ \E a \in actors, d \in Dids, v \in Values, memo \in Memos : Transfer(a, d, v, memo)
    \/ \E a \in actors, v \in Values, p \in Periods : LockFirst(a, v, p)
    \/ \E a \in actors, v \in Values : LockFirstReserveFails(a, v)
    \/ \E a \in actors, v \in Values, p \in Periods : LockMore(a, v, p)
    \/ \E a \in actors, v \in Values : Unlock(a, v)
    \/ \E a \in actors, k \in AddressKinds : AddExternalAddress(a, k)
    \/ \E a \in actors : SetGroupName(a)
    \/ Tick

DidNext == DidStep(Accounts)

DidSpec == DidInit /\ [][DidNext]_didVars

-----------------------------------------------------------------------------
(* Properties.                                                             *)

(* Identity and IdentityOf are inverse functions over exactly the dids     *)
(* that have Metadata, and Metadata's address is the did's account:        *)
(* create writes the three maps and update rewrites them, removing the old *)
(* account's entry, over any sequence of creates and updates.              *)
IdentityBijection ==
    /\ DOMAIN identityOf = DOMAIN metadata
    /\ \A a \in DOMAIN identity :
          identity[a] \in DOMAIN identityOf /\ identityOf[identity[a]] = a
    /\ \A d \in DOMAIN identityOf :
          /\ identityOf[d] \in DOMAIN identity
          /\ identity[identityOf[d]] = d
          /\ metadata[d].address = identityOf[d]

(* A social account binds one did and the did records it: SocialAccount    *)
(* and Metadata's social_account agree, since create refuses a social      *)
(* account already bound.                                                  *)
SocialBinding ==
    /\ \A sh \in DOMAIN socialAccount :
          socialAccount[sh] \in DOMAIN metadata /\ metadata[socialAccount[sh]].social = sh
    /\ \A d \in DOMAIN metadata :
          metadata[d].social # NoSocial =>
              /\ metadata[d].social \in DOMAIN socialAccount
              /\ socialAccount[metadata[d].social] = d

(* The funds a did's record says are locked are held in reserve by the     *)
(* account that controls the did, so that its unlock can release them.     *)
LockedFundsReserved ==
    \A d \in DOMAIN metadata :
        metadata[d].locked # NoLock =>
            reserved[metadata[d].address] >= metadata[d].locked.funds

(* The refinement: Did implements DidRegistry, with the owner of a did     *)
(* read from IdentityOf, its superior from Metadata and the social         *)
(* bindings from SocialAccount.                                            *)
Registry == INSTANCE DidRegistry WITH
    owner <- identityOf,
    superiorOf <- [d \in DOMAIN metadata |-> metadata[d].superior],
    socialOf <- socialAccount

(* Every call, balance, lock and Ads calls included, changes identities   *)
(* only as DidRegistry allows: no did is re-created or lost, its superior  *)
(* and social binding never change, and update hands it only to an        *)
(* account without a did.                                                  *)
RegistryRefined == Registry!RegSpec
====
