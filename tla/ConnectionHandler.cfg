CONSTANT Peers <- MCPeers
SPECIFICATION FairSpec
INVARIANTS TypeOK Forwarding EndRecognised HandledMeansDelivered DestroyedTwice
PROPERTIES FollowsLifecycle EveryRequestAnswered
