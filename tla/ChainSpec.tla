------------------------------ MODULE ChainSpec ------------------------------
(***************************************************************************)
(* The genesis configurations that src/bin/node/cli/src/chain_spec.rs      *)
(* builds.  Nothing here changes over time: every builder is an operator  *)
(* from its inputs to the part of the GenesisConfig that the pallets of    *)
(* this repository, or the money supply, depend on: the balances and       *)
(* indices lists, staking, the collectives, sudo and the DID and Ads       *)
(* configs.  System code, session keys, contracts, BABE, GRANDPA,          *)
(* im-online, authority discovery, democracy and treasury are defaults or *)
(* key material and are left out.                                          *)
(*                                                                         *)
(* An account is named by what it is derived from: [seed |-> s] for        *)
(* get_account_id_from_seed(s), [key |-> h] for a hex! literal (its first *)
(* eight digits).  Derivation is taken to be injective.                    *)
(***************************************************************************)
EXTENDS Integers, Sequences, SequencesExt

CONSTANTS
    BalanceBits,   \* bits of Balance (u128)
    Dollars        \* DOLLARS of node_runtime::constants::currency

ASSUME BalanceBits \in Nat \ {0} /\ Dollars \in Nat \ {0}

Builds == {"release", "debug"}

\* One past u128::MAX.
BalanceBound == 2^BalanceBits

ENDOWMENT == 100000000 * Dollars
STASH     == 10000 * Dollars

AccountFromSeed(seed) == [seed |-> seed]
HexAccount(h) == [key |-> h]

\* get_authority_keys_from_seed: the stash is seed//stash, the controller
\* the seed itself (the session keys are left out).
AuthorityKeysFromSeed(seed) ==
    [stash |-> AccountFromSeed(seed \o "//stash"), controller |-> AccountFromSeed(seed)]

\* The account 22df4b68... that every config makes the DID genesis account
\* and the Ads contract (and the prochain testnet its root key).
ProchainRoot == HexAccount("22df4b68")

Stashes(auths) == [i \in 1..Len(auths) |-> auths[i].stash]

\* A list of (AccountId, Balance) pairs, all with the same balance.
EndowAll(accounts, amount) ==
    [i \in 1..Len(accounts) |-> [who |-> accounts[i], amount |-> amount]]

DefaultEndowed ==
    LET seeds == <<"Alice", "Bob", "Charlie", "Dave", "Eve", "Ferdie">>
    IN  [i \in 1..6 |-> AccountFromSeed(seeds[i])]
        \o [i \in 1..6 |-> AccountFromSeed(seeds[i] \o "//stash")]

\* The staking, sudo, DID and Ads parts that testnet_genesis and
\* prochain_testnet_genesis build alike.
CommonGenesis(auths, rootKey) ==
    [stakers |-> [i \in 1..Len(auths) |->
                    [stash |-> auths[i].stash, controller |-> auths[i].controller,
                     bond |-> STASH]],
     validator_count |-> Len(auths) * 2,
     minimum_validator_count |-> Len(auths),
     invulnerables |-> Stashes(auths),
     sudo |-> rootKey,
     did |-> [genesis_account |-> ProchainRoot, min_deposit |-> 50 * Dollars,
              base_quota |-> 250, fee_to_previous |-> 25 * Dollars],
     ads |-> [contract |-> ProchainRoot, min_deposit |-> 500 * Dollars]]

\* testnet_genesis: endowed is a sequence of accounts, or "None" for the
\* twelve default ones.
TestnetGenesis(auths, rootKey, endowed) ==
    LET acc == IF endowed = "None" THEN DefaultEndowed ELSE endowed
    IN  [panics |-> FALSE,
         balances |-> EndowAll(acc, ENDOWMENT) \o EndowAll(Stashes(auths), STASH),
         indices |-> acc \o Stashes(auths),
         council |-> acc,
         technical |-> acc]
        @@ CommonGenesis(auths, rootKey)

StagingTestnetGenesis ==
    TestnetGenesis(<< [stash |-> HexAccount("9c7a2ee1"), controller |-> HexAccount("781ead1e")] >>,
                   HexAccount("9ee5e5bd"), << HexAccount("9ee5e5bd") >>)

DevelopmentGenesis ==
    TestnetGenesis(<< AuthorityKeysFromSeed("Alice") >>, AccountFromSeed("Alice"), "None")

LocalTestnetGenesis ==
    TestnetGenesis(<< AuthorityKeysFromSeed("Alice"), AuthorityKeysFromSeed("Bob") >>,
                   AccountFromSeed("Alice"), "None")

\* local_testnet_genesis_instant_single of the tests module.
InstantSingleGenesis == DevelopmentGenesis

(***************************************************************************)
(* prochain_testnet_genesis and get_intial_allocation.                     *)
(*                                                                         *)
(* intial_drop.json is read as a record: status "missing" (File::open     *)
(* fails), "invalid" (not UTF-8, or not an Allocation) or "ok", with the    *)
(* balances list, a sequence of [who, amount].  who is the account its hex *)
(* string names, or BadHex for a string from_hex refuses; amount is the    *)
(* integer its decimal string denotes (parse::<u128> refuses a negative    *)
(* one and one past u128::MAX).                                            *)
(***************************************************************************)
ProchainAuthorities ==
    << [stash |-> HexAccount("c21bbbee"), controller |-> HexAccount("1081bdf7")],
       [stash |-> HexAccount("5e9c7923"), controller |-> HexAccount("dcd30ff8")],
       [stash |-> HexAccount("e8fe40d6"), controller |-> HexAccount("f2bcd74b")],
       [stash |-> HexAccount("3cdb0017"), controller |-> HexAccount("1a12b3a8")] >>

\* <[u8; 32]>::from_hex(..).unwrap() and parse::<Balance>().unwrap().
BadHex == HexAccount("0xzz")

EntryParses(e) == e.who # BadHex /\ e.amount \in 0..(BalanceBound - 1)

\* The u128 .sum() of the amounts: each + wraps (release) or panics (debug).
U128Sum(amounts, build) ==
    FoldLeft(LAMBDA acc, x :
                [value  |-> (acc.value + x) % BalanceBound,
                 panics |-> acc.panics \/ (build = "debug" /\ acc.value + x >= BalanceBound)],
             [value |-> 0, panics |-> FALSE], amounts)

GetIntialAllocation(file, build) ==
    LET entries == file.balances
    IN  IF file.status # "ok" \/ \E i \in DOMAIN entries : ~EntryParses(entries[i])
        THEN [panics |-> TRUE, balances |-> << >>, total |-> 0]
        ELSE LET sum == U128Sum([i \in DOMAIN entries |-> entries[i].amount], build)
             IN  [panics |-> sum.panics, balances |-> entries, total |-> sum.value]

\* endowed_amount = 100_000_000 DOLLARS - intial_total - total_stash, in u128.
ProchainTestnetGenesis(file, build) ==
    LET auths      == ProchainAuthorities
        alloc      == GetIntialAllocation(file, build)
        totalStash == 10000 * Len(auths) * Dollars
        endowed    == (ENDOWMENT - alloc.total - totalStash) % BalanceBound
        allocated  == [i \in DOMAIN alloc.balances |-> alloc.balances[i].who]
    IN  [panics |-> alloc.panics
                    \/ (build = "debug" /\ alloc.total + totalStash > ENDOWMENT),
         balances |-> EndowAll(<< ProchainRoot >>, endowed)
                      \o EndowAll(Stashes(auths), STASH) \o alloc.balances,
         indices |-> << ProchainRoot >> \o Stashes(auths) \o allocated,
         council |-> Stashes(auths),
         technical |-> Stashes(auths)]
        @@ CommonGenesis(auths, ProchainRoot)
=============================================================================
