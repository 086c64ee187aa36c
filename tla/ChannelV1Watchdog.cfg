SPECIFICATION FairSpec
CONSTANTS
    A = A
    B = B
    Peers <- MCPeers
    Balance <- MCBalance
    Amounts = {1}
    Senders = {A}
    Closers = {}
    MaxTlc = 1
    MaxTlcNumber = 2
    MaxTlcValue = 3
    MaxU128 = 10
    Timeouts = TRUE
    MaxDrops = 1
PROPERTIES
    WaitEndsOrGoesOnChain
CHECK_DEADLOCK FALSE
