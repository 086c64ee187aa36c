SPECIFICATION FairSpec
CONSTANTS
    A = A
    B = B
    Peers <- MCPeers
    Balance <- MCBalance
    Amounts = {1, 2}
    Senders = {A}
    Closers = {}
    MaxTlc = 3
    MaxTlcNumber = 2
    MaxTlcValue = 3
    MaxU128 = 10
    Timeouts = FALSE
    MaxDrops = 0
INVARIANTS
    HonestCommitmentsVerify
    NothingIsRefused
    NonceLedgerRebalances
    QuietPeersAgree
PROPERTIES
    RetryQueueDrains
CHECK_DEADLOCK FALSE
