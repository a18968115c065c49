SPECIFICATION PipelineSpec
CONSTANT MaxGen = 2
INVARIANTS MainIsOneContract ExitMeansDone
\* The generations run out.
CHECK_DEADLOCK FALSE
