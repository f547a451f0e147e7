SPECIFICATION RuntimeSpec
CONSTANTS
    None = None
    Accounts = {"Alice", "Dave"}
    FaucetPot = "qx/faucet"
    DripAmount = 4
    ClaimCooldown = 1
    MaxClaimsPerAccount = 1
    ExistentialDeposit = 2
    Longevity = 1
    Genesis <- MCGenesis
    FundAmounts = {4}
    MaxBlockNumber = 4
    LastBlock = 3
    Rich = 6
    Poor = 3
    PotEndowment = 9
    PresetEndowment = 6
    Specs = {"localnet", "mainnet", "development"}
    Fee = 1
    Amounts = {4}
    MaxNonce = 2
    MaxLives = 1
    MaxSigned = 2
INVARIANTS
    RuntimeTypeOK
    OncePerLife
    IssuanceAccounted
PROPERTIES
    PotPaysOnlyClaims
    NewcomerServed
CHECK_DEADLOCK FALSE
