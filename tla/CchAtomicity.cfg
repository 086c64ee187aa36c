SPECIFICATION Spec
CONSTANT Scopes <- MCAtomicityScopes
INVARIANT AtomicSwap
CHECK_DEADLOCK FALSE
