SPECIFICATION Spec
CONSTANTS
    A = A
    B = B
    Peers <- MCPeers
    Balance <- MCBalance
    Amounts = {1}
    Senders <- MCPeers
    Closers <- MCPeers
    MaxTlc = 1
    MaxTlcNumber = 2
    MaxTlcValue = 3
    MaxU128 = 10
    Timeouts = FALSE
    MaxDrops = 0
INVARIANTS
    QuietCloseIsSigned
CHECK_DEADLOCK FALSE
