SPECIFICATION Spec
INVARIANTS CommittedIsRouted
CHECK_DEADLOCK FALSE
