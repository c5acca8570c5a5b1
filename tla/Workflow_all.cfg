CONSTANT Deployments <- All
CONSTANTS Lines = 7 Rows = 5
SPECIFICATION FairSpec
INVARIANTS TypeOK BarrierComplete WorkOnce BundlesTrained FreshData HandlersFit LoadBounded
PROPERTY AllEnd
CHECK_DEADLOCK FALSE
