\* Three dids, so that a superior can take a second subordinate (quota),
\* and one social account.
CONSTANTS
    Accounts = {a1, a2, a3}
    Dids = {d1, d2, d3}
    Socials = {x1}
    NoSocial = NoSocial
    NoLock = NoLock
    GenesisAccount = a1
    Endowment = 1
    MinDeposit = 2
    FeeToPrevious = 1
    BalanceMod = 8
    Values = {1, 2, 7}
    Periods = {1}
    MaxTime = 1
    AddressKinds = {}

SPECIFICATION DidSpec
SYMMETRY Symmetry

INVARIANT DidTypeOK
INVARIANT IdentityBijection
INVARIANT SocialBinding
