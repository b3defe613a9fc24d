--------------------------------- MODULE Ads ---------------------------------
(***************************************************************************)
(* The Ads pallet (src/bin/node/modules/ads/src/lib.rs) over the DID       *)
(* pallet it pays through.                                                 *)
(*                                                                         *)
(* A publisher's did owns one AdsRecords entry; the money of every entry   *)
(* sits in the free balance of the Contract account, whose did is          *)
(* Identity(Contract).  publish and deposit pay the contract with          *)
(* transfer_by_did, withdraw and distribute pay out of it, and surplus is  *)
(* what the contract still owes the publisher.  advertiser, topic,         *)
(* gas_fee_used, create_time and period are written but never read and    *)
(* are left out.  The Contract account is the operator's key: it acts     *)
(* only through distribute, never through the DID calls.                   *)
(***************************************************************************)
EXTENDS Did

CONSTANTS
    Contract,        \* Contract (genesis config)
    AdsMinDeposit,   \* MinDeposit of the Ads pallet (genesis config)
    ClickFees,       \* single_click_fee values a publisher passes
    NoDid,           \* the default T::Hash, which no did has
    MaxAdsCount,     \* bound on AllAdsCount (publish calls)
    MaxTotal         \* bound on a record's total_amount

ASSUME Contract \in Accounts /\ NoDid \notin Dids

VARIABLES
    adsRecords,      \* AdsRecords: partial function did -> AdsMetadata
    allAdsCount      \* AllAdsCount

adsVars == <<adsRecords, allAdsCount>>
vars    == <<didVars, adsVars>>

AdsMetadata == [total : Nat, surplus : Nat, clickFee : ClickFees]

AdsTypeOK ==
    /\ DidTypeOK
    /\ adsRecords \in [DOMAIN adsRecords -> AdsMetadata] /\ DOMAIN adsRecords \subseteq Dids
    /\ allAdsCount \in Nat

Init ==
    /\ DidInit
    /\ adsRecords = [x \in {} |-> 0]
    /\ allAdsCount = 0

\* identity(account): the did, or the default hash when there is none.
IdentityOrDefault(a) == IF a \in DOMAIN identity THEN identity[a] ELSE NoDid

ContractDid == IdentityOrDefault(Contract)

-----------------------------------------------------------------------------
(* publish(origin, name, topic, total_amount, single_click_fee, period)    *)
(* (ads lib.rs 59-91): pay total_amount to the contract and (re)write the  *)
(* publisher's record with surplus = total_amount.                          *)
\* The pallet's own memos, UTF-8: "开户广告费" (publish) and "看广告收益"
\* (distribute).
PublishMemo    == <<229, 188, 128, 230, 136, 183, 229, 185, 191, 229, 145, 138, 232, 180, 185>>
DistributeMemo == <<231, 156, 139, 229, 185, 191, 229, 145, 138, 230, 148, 182, 231, 155, 138>>
PublishSplits    == IsSub(PublishMemo, FeeType)
DistributeSplits == IsSub(DistributeMemo, FeeType)

Publish(a, total, fee) ==
    LET res == TransferByDid(identity[a], ContractDid, total, PublishSplits, free)
    IN  /\ a \in DOMAIN identity
        /\ total >= AdsMinDeposit
        /\ allAdsCount < MaxAdsCount
        /\ ~res.error
        /\ free' = res.free
        /\ adsRecords' = (identity[a] :> [total |-> total, surplus |-> total, clickFee |-> fee])
                             @@ adsRecords
        /\ allAdsCount' = allAdsCount + 1
        /\ UNCHANGED <<identity, identityOf, socialAccount, metadata, allDidCount,
                       allDidsArray, reserved, now>>

\* Mutant: the deposited value credited to surplus only.
CreditTotalMissing(r, value) == [r EXCEPT !.surplus = @ + value]

\* The record after a deposit of value.
Credit(r, value) == [r EXCEPT !.total = @ + value, !.surplus = @ + value]

(* deposit(origin, value, memo) (ads lib.rs 93-114): pay value to the      *)
(* contract by transfer_by_did with the caller's memo, then credit it.     *)
Deposit(a, value, memo) ==
    LET did == IdentityOrDefault(a)
        res == TransferByDid(did, ContractDid, value, Splits[memo], free)
    IN  /\ a \in DOMAIN identity
        /\ value >= AdsMinDeposit
        /\ did \in DOMAIN adsRecords
        /\ adsRecords[did].total + value <= MaxTotal
        /\ ~res.error
        /\ free' = res.free
        /\ adsRecords' = [adsRecords EXCEPT ![did] = Credit(@, value)]
        /\ UNCHANGED <<identity, identityOf, socialAccount, metadata, allDidCount,
                       allDidsArray, reserved, now, allAdsCount>>

\* Mutant: the surplus ensure dropped.
CanWithdrawAlways(r, value) == TRUE

\* "withdrawl money is larger than your surplus"
CanWithdraw(r, value) == r.surplus >= value

(* withdraw(origin, value, memo) (ads lib.rs 116-139): up to the surplus,  *)
(* the contract pays value back by transfer_by_did with the caller's memo; *)
(* total and surplus are lowered by value.                                 *)
Withdraw(a, value, memo) ==
    LET did == IdentityOrDefault(a)
        res == TransferByDid(ContractDid, did, value, Splits[memo], free)
    IN  /\ a \in DOMAIN identity
        /\ did \in DOMAIN adsRecords
        /\ CanWithdraw(adsRecords[did], value)
        /\ ~res.error
        /\ free' = res.free
        /\ adsRecords' = [adsRecords EXCEPT ![did].total = @ - value, ![did].surplus = @ - value]
        /\ UNCHANGED <<identity, identityOf, socialAccount, metadata, allDidCount,
                       allDidsArray, reserved, now, allAdsCount>>

(* distribute(origin, publisher, user, value) (ads lib.rs 141-163): the    *)
(* Contract account pays value of a publisher's surplus to a user's did.   *)
Distribute(publisher, user, value) ==
    LET res == TransferByDid(ContractDid, user, value, DistributeSplits, free)
    IN  /\ publisher \in DOMAIN adsRecords
        /\ user \in DOMAIN metadata
        /\ adsRecords[publisher].surplus >= value
        /\ ~res.error
        /\ free' = res.free
        /\ adsRecords' = [adsRecords EXCEPT ![publisher].surplus = @ - value]
        /\ UNCHANGED <<identity, identityOf, socialAccount, metadata, allDidCount,
                       allDidsArray, reserved, now, allAdsCount>>

(* update_ads(origin, single_click_fee, period) (ads lib.rs 165-180).      *)
UpdateAds(a, fee) ==
    LET did == IdentityOrDefault(a)
    IN  /\ did \in DOMAIN adsRecords
        /\ adsRecords' = [adsRecords EXCEPT ![did].clickFee = fee]
        /\ UNCHANGED <<didVars, allAdsCount>>

-----------------------------------------------------------------------------
Users == Accounts \ {Contract}

Next ==
    \/ DidStep(Users) /\ UNCHANGED adsVars
    \/ \E a \in Users, v \in Values, f \in ClickFees : Publish(a, v, f)
    \/ \E a \in Users, v \in Values, memo \in Memos : Deposit(a, v, memo)
    \/ \E a \in Users, v \in Values, memo \in Memos : Withdraw(a, v, memo)
    \/ \E p, u \in Dids, v \in Values : Distribute(p, u, v)
    \/ \E a \in Users, f \in ClickFees : UpdateAds(a, f)

Spec == Init /\ [][Next]_vars

-----------------------------------------------------------------------------
(* Properties.                                                             *)

(* A record never owes more than was paid in and not withdrawn: surplus   *)
(* <= total_amount, across publish, deposit, withdraw and distribute.      *)
SurplusWithinTotal ==
    \A d \in DOMAIN adsRecords : adsRecords[d].surplus <= adsRecords[d].total

(* The contract can pay every publisher's surplus: its free balance is at *)
(* least the sum of the surpluses the records promise.                     *)
Owed == SumFunction([d \in DOMAIN adsRecords |-> adsRecords[d].surplus])

ContractSolvent == free[Contract] >= Owed
====
