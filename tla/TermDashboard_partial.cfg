SPECIFICATION Spec
INVARIANT NoPartialFrame
