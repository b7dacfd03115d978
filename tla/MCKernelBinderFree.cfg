CONSTANTS
  Opens <- MCFreeOpens
  Ops = {"dummy", "project", "reduce"}
  Argcs = {3, 4}
  MaxTasks = 1
  MaxBinds = 2
  NoKernel = NoKernel

SPECIFICATION Spec

INVARIANT ConstantsWithinArray

\* A failed clSetKernelArg exits the process: that state has no successor.
CHECK_DEADLOCK FALSE
