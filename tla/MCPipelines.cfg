SPECIFICATION PipelinesSpec
CONSTANT None = None
CHECK_DEADLOCK FALSE
INVARIANT PipelinesSame
