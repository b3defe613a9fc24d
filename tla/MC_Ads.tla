-------------------------------- MODULE MC_Ads --------------------------------
(***************************************************************************)
(* Model-checking instance of Ads; the constants are given in the .cfg     *)
(* files.  Accounts, Dids and Socials are sets of model values.            *)
(*                                                                         *)
(* The genesis configuration comes from chain_spec.rs: the ASSUMEs below   *)
(* evaluate ChainSpec's builders (u128 scaled to 28 bits, DOLLARS to 1,    *)
(* which keeps the supply of 10^8 below the bound) and are checked by      *)
(* every run of this module.                                               *)
(***************************************************************************)
EXTENDS Ads, SequencesExt

CS == INSTANCE ChainSpec WITH BalanceBits <- 28, Dollars <- 1

\* Every chain spec makes the Ads contract the DID genesis account, and the
\* prochain testnet also its sudo key; the dev, local and staging chains
\* leave that account without any balance.  The runs therefore give
\* GenesisAccount and Contract the same account.
ContractIsGenesisAccount ==
    LET empty  == [status |-> "ok", balances |-> << >>]
        tests  == {CS!StagingTestnetGenesis, CS!DevelopmentGenesis,
                   CS!LocalTestnetGenesis, CS!InstantSingleGenesis}
        prochain == CS!ProchainTestnetGenesis(empty, "release")
    IN  /\ \A g \in tests \cup {prochain} : g.ads.contract = g.did.genesis_account
        /\ prochain.sudo = prochain.ads.contract
        /\ \A g \in tests :
              g.ads.contract \notin {g.balances[i].who : i \in DOMAIN g.balances}

ASSUME ContractIsGenesisAccount /\ GenesisAccount = Contract

\* Allocation files of up to two entries: a fresh account, the root, an
\* undecodable hex string; amounts at the edges of the supply and of u128.
DropEntries ==
    {[who |-> w, amount |-> a] :
        w \in {CS!HexAccount("aa11bb22"), CS!ProchainRoot, CS!BadHex},
        a \in {-1, 0, 99960000, 99960001, 2^27, 2^28 - 1, 2^28}}

DropFiles ==
    {[status |-> s, balances |-> << >>] : s \in {"missing", "invalid"}}
    \cup {[status |-> "ok", balances |-> b] : b \in SeqOf(DropEntries, 2)}

SumOfAmounts(bal) == FoldLeft(LAMBDA acc, e : acc + e.amount, 0, bal)

\* prochain_testnet_genesis mints 100_000_000 DOLLARS: the root receives
\* what the allocation and the four stashes leave.  Whatever intial_drop.json
\* holds, a genesis that is built sums to the supply modulo 2^128; it sums
\* to the supply itself exactly when the allocation plus the stashes fit in
\* it.  Otherwise a release build endows the root with a wrapped, huge
\* balance, and a debug build panics exactly then.
GenesisMintsSupply ==
    \A f \in DropFiles, build \in CS!Builds :
        LET g    == CS!ProchainTestnetGenesis(f, build)
            owed == SumOfAmounts(f.balances) + 4 * CS!STASH
        IN  /\ ~g.panics => SumOfAmounts(g.balances) % CS!BalanceBound = CS!ENDOWMENT
            /\ ~g.panics => (SumOfAmounts(g.balances) = CS!ENDOWMENT <=> owed <= CS!ENDOWMENT)
            /\ (build = "debug" /\ ~CS!GetIntialAllocation(f, "release").panics)
                   => (g.panics <=> owed > CS!ENDOWMENT)

\* testnet_genesis endows the default accounts, the authorities' stashes
\* among them, and then each stash again with STASH: on the dev and local
\* chains every stash is listed twice in the balances genesis.
StashEndowedTwice ==
    \A g \in {CS!DevelopmentGenesis, CS!LocalTestnetGenesis} :
        \A s \in ToSet(g.invulnerables) :
            Cardinality({i \in DOMAIN g.balances : g.balances[i].who = s}) = 2

ASSUME GenesisMintsSupply /\ StashEndowedTwice
\* transfer_by_did splits exactly when the memo contains b"ads" as a
\* contiguous run: is_sub agrees with that on every haystack of up to five
\* bytes over a, d, s and x and every needle of up to three.  The pallets'
\* own memos (publish's "开户广告费", distribute's "看广告收益" and lock's
\* "新群主抵押分成") never split, while a caller's memo that merely contains
\* "ads", like "uploads", does: the split is the caller's choice alone.
IsSubIsContiguousRun ==
    \A h \in SeqOf({97, 100, 115, 120}, 5), n \in SeqOf({97, 100, 115}, 3) :
        IsSub(h, n) <=> \E i \in 0..Len(h), k \in 0..Len(h) : i <= k /\ SubSeq(h, i + 1, k) = n

SplitOnlyByCallerMemo ==
    /\ \A m \in {PublishMemo, DistributeMemo, LockMemo} : ~IsSub(m, FeeType)
    /\ \A m \in Memos : IsSub(m, FeeType) <=> m # << >>

ASSUME IsSubIsContiguousRun /\ SplitOnlyByCallerMemo
=============================================================================
