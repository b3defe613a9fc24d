CONSTANTS
    Accounts = {a1, a2, a3}
    Dids = {d1, d2}
    Socials = {x1}
    NoSocial = NoSocial
    NoLock = NoLock
    GenesisAccount = a1
    Endowment = 2
    MinDeposit = 2
    FeeToPrevious = 1
    BalanceMod = 8
    Values = {1, 2, 7}
    Periods = {1}
    MaxTime = 1
    AddressKinds = {"eth"}

SPECIFICATION DidSpec
SYMMETRY Symmetry

INVARIANT LockedFundsReserved
