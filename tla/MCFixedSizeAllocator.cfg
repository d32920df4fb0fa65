CONSTANTS MaxElements = 5
SPECIFICATION Spec
INVARIANTS TypeOK FreeListIntact UsedListLinked UsedListReachesAll
PROPERTY ImplementsPool
