SPECIFICATION Spec
CONSTANT PoolSize = 4
INVARIANT ListWellFormed
PROPERTY ImplementsQueue
