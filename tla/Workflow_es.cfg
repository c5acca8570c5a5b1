CONSTANT Deployments <- OneStore
CONSTANTS Lines = 7 Rows = 5
SPECIFICATION Spec
INVARIANT EachOnce
CHECK_DEADLOCK FALSE
