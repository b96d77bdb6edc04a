SPECIFICATION Spec
CONSTANT MaxAddrs = 2
INVARIANT LeavesSwarm
INVARIANT SavedIsNamed
INVARIANT CompletionEarned
PROPERTY GetEnds
