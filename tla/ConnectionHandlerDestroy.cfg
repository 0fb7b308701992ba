CONSTANT Peers <- MCPeers
SPECIFICATION Spec
INVARIANT DestroyedOnce
