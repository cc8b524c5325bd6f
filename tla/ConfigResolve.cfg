\* Startup runs once and stops: Done and Crashed have no successor.
SPECIFICATION Spec
INVARIANTS TypeOK MergeMatchesReference ClientFromPrecedence CrashIffMalformed
CHECK_DEADLOCK FALSE
