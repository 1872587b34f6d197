SPECIFICATION ArtifactsSpec
CONSTANT Inputs <- AllInputs
INVARIANTS TypeOK PassedIsTrue FailedHasAFault TestsFailedMeansTests EvidenceIsKept FuzzOutIsOfItsRun
PROPERTIES EvaluationEnds WorkerOfThePipeline
CHECK_DEADLOCK FALSE
