CONSTANTS
  Ctx <- MCCtx
  Depth = 3
  NumInputs = 2
  NumOutputs = 3
  NumKernels = 2
  Flags <- MCFlags
  Capacity = 1
  PtrGaps = {1}
  TagMod = 4
  MaxExec = 9
  MaxCount = 9
  MaxQueue = 7
  NoEvent = NoEvent

SPECIFICATION QSpec

INVARIANT QTypeOK
INVARIANT NoHostWriteInFlight
INVARIANT WaitTargetsLiveEvent

PROPERTY RefinesBatchPipeline
