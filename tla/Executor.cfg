SPECIFICATION FairSpec
CONSTANTS
    Jobs <- MCJobs
    Plans <- MCPlans
    Limits = {1, 2}
    MaxRestarts = 1
INVARIANTS
    ProcessesRunInTurn
    AccountsAgree
    RecoveryIsQuiescent
    NothingOutlivesTheRun

    
CHECK_DEADLOCK FALSE
