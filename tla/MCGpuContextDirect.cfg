CONSTANTS
  c1 = c1
  Ctx <- MCCtx
  NumInputs = 2
  NumOutputs = 2
  NumKernels = 1
  Flags <- MCFlags
  Capacity = 2
  PtrGaps <- MCGaps
  TagMod = 3
  MaxCount = 1
  MaxQueue = 2
  NoEvent = NoEvent

SPECIFICATION Spec

INVARIANT DirectTransferExact
CHECK_DEADLOCK FALSE
