SPECIFICATION PipelineSpec
CONSTANT MaxGen = 1
INVARIANT VerifiesBeforeWriting
CHECK_DEADLOCK FALSE
