\* The refinement, liveness and the statistics with two pipelines sharing one worker.
CONSTANTS
  t1 = t1  p1 = p1  p2 = p2
  Threads = {t1}
  Pipelines = {p1, p2}
  PipelinesMax = 2
  MsgqSize = 63
  Counters = {"port_in"}
  MaxPkts = 1
  ConfigureFirst = FALSE
  None = None
SPECIFICATION Spec
INVARIANTS StatsConserved
PROPERTIES RpcSpec CallReturns EnabledPipelineRuns
