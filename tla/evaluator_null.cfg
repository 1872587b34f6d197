SPECIFICATION ArtifactsSpec
CONSTANT Inputs <- AllInputs
INVARIANT NullMeansTestsNotRun
CHECK_DEADLOCK FALSE
