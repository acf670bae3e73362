SPECIFICATION FairSpec
CONSTANT PoolSize = 2
INVARIANTS TypeOK SlotsAccounted CloseLeavesNothing OneReconnection
PROPERTIES QuietOnceClosed NotifiedWakes ConnectedAgain CloseEnds
