CONSTANTS
  c1 = c1
  Ctx <- MCCtx
  NumInputs = 2
  NumOutputs = 2
  NumKernels = 1
  Flags <- MCFlags
  Capacity = 1
  PtrGaps = {1}
  TagMod = 3
  MaxCount = 2
  MaxQueue = 5
  NoEvent = NoEvent

SPECIFICATION Spec

INVARIANT WaitTargetsLiveEvent
CHECK_DEADLOCK FALSE
