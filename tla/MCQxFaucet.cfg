SPECIFICATION Spec
CONSTANTS
    a1 = a1
    a2 = a2
    pot = pot
    None = None
    Accounts = {a1, a2}
    FaucetPot = pot
    DripAmount = 2
    ClaimCooldown = 2
    MaxClaimsPerAccount = 2
    ExistentialDeposit = 1
    Longevity = 1
    Genesis <- MCGenesis
    FundAmounts = {1, 2}
    MaxBlockNumber = 6
    LastBlock = 4
INVARIANTS
    TypeOK
    ClaimsLimited
    PotLedger
    IncludedClaimPassesChecks
PROPERTIES
    PotOutlivesClaims
