----------------------------- MODULE MCChannelV1 -----------------------------
(* Instances of ChannelV1 for TLC: a channel between A and B that holds three *)
(* units, two of them A's.                                                    *)
EXTENDS ChannelV1

CONSTANTS A, B

MCPeers == {A, B}
MCBalance == [p \in MCPeers |-> IF p = A THEN 2 ELSE 1]

=============================================================================
