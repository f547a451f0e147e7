SPECIFICATION Spec
CONSTANTS
    None = None
    Nodes <- MCNodes
    Specs <- MCSpecs
    authority <- MCNodes
    grandpa_disabled = {}
    telemetry_endpoints = {}
    offchain_worker <- MCNodes
    force_authoring = {}
    VotingLag = 1
    LastSlot = 3
    FailingTasks = {"network", "import-queue", "aura", "grandpa-voter"}
    FaultBound = 2
    FaucetPot = "qx/faucet"
    Rich = 3
    Poor = 2
    PotEndowment = 4
    PresetEndowment = 5
INVARIANTS
    NetworkTypeOK
    FinalizedAgree
PROPERTIES
    FinalityKept
    EssentialFailureStops
    FinalityFollows
CHECK_DEADLOCK FALSE
