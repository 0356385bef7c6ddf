SPECIFICATION Spec
CONSTANT MaxEdits = 3
INVARIANTS UserContentKept TargetAlwaysWhole PatchReportIsTrue RecoveryPathIsTrue
CHECK_DEADLOCK FALSE
