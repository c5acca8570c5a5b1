CONSTANTS
    HyperParams = 4
    Threads = 2
    Top = 2
    Deployments <- MCDeployments
    MaxFaults = 1
SPECIFICATION FairSpec
INVARIANTS TypeOK NoLateChild ReportStored TrainedOnce LastModelKept
PROPERTY TrainersEnd
CHECK_DEADLOCK FALSE
