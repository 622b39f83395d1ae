SPECIFICATION Spec
INVARIANTS PlansSurvive SelectionIsAsExplained ReloadIsRestart ReadersOfAFileAgree  EstimateCoversMostRuns
CHECK_DEADLOCK FALSE
