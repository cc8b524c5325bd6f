SPECIFICATION Spec
INVARIANT TypeOK
