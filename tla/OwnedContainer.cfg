SPECIFICATION Spec
CONSTANT Task = {t1, t2}
INVARIANTS ReturnsAfterRemoval FailedStartRemoves RemovesOnlyOnDemand RemovalErrorReportedOnce
PROPERTIES ContainerEnds
CHECK_DEADLOCK FALSE
