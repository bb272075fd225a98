SPECIFICATION FairSpec
CHECK_DEADLOCK FALSE
PROPERTIES EndsNoticed LineArrives SleepEnds RequestsReturn PipelineEnds
