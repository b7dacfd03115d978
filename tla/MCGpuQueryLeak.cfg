CONSTANTS
  Ctx <- MCCtx
  Depth = 2
  NumInputs = 2
  NumOutputs = 2
  NumKernels = 2
  Flags <- MCFlags
  Capacity = 1
  PtrGaps = {1}
  TagMod = 3
  MaxExec = 6
  MaxCount = 6
  MaxQueue = 6
  NoEvent = NoEvent

SPECIFICATION QSpec
PROPERTY NoEventLeak
