SPECIFICATION Spec
CONSTANTS
    A = A
    B = B
    Peers <- MCPeers
    Balance <- MCBalance
    Amounts = {1}
    Senders <- MCPeers
    Closers = {}
    MaxTlc = 1
    MaxTlcNumber = 2
    MaxTlcValue = 3
    MaxU128 = 10
    Timeouts = FALSE
    MaxDrops = 1
INVARIANTS
    TypeOK
    FundsConserved
    NumbersInStep
    StoredDiffIsCurrent
    HonestCommitmentsVerify
    OnlyReplaysAreRefused
    QuietPeersAgree
PROPERTIES
    LadderNeverGoesBack
CHECK_DEADLOCK FALSE
