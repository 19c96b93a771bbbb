SPECIFICATION Spec
INVARIANT NoMaskedSpin
CHECK_DEADLOCK FALSE
