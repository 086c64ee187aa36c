SPECIFICATION FairSpec
CONSTANTS
    A = A
    B = B
    Peers <- MCPeers
    Balance <- MCBalance
    Amounts = {1}
    Senders = {A}
    Closers = {}
    MaxTlc = 2
    MaxTlcNumber = 2
    MaxTlcValue = 3
    MaxU128 = 10
    Timeouts = FALSE
    MaxDrops = 1
PROPERTIES
    AckArrives
    ReconnectCompletes
CHECK_DEADLOCK FALSE
