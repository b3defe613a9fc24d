CONSTANTS
    Accounts = {a1, a2, a3}
    Dids = {d1, d2, d3}
    Socials = {}
    NoSocial = NoSocial
    NoLock = NoLock
    NoDid = NoDid
    GenesisAccount = a3
    Contract = a3
    Endowment = 2
    MinDeposit = 2
    FeeToPrevious = 1
    AdsMinDeposit = 1
    BalanceMod = 8
    Values = {1, 2}
    ClickFees = {1}
    Periods = {1}
    MaxTime = 0
    AddressKinds = {}
    MaxAdsCount = 2
    MaxTotal = 3

SPECIFICATION Spec

CHECK_DEADLOCK FALSE
INVARIANT ContractSolvent
