CONSTANT Thread = {t1, t2, t3, t4}
SPECIFICATION Spec
INVARIANTS TypeOK Exclusion
PROPERTIES IsLock Progress
CHECK_DEADLOCK TRUE
