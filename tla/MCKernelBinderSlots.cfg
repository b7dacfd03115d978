CONSTANTS
  Opens <- MCFaultOpens
  Ops = {"select"}
  Argcs = {5}
  MaxTasks = 1
  MaxBinds = 2
  NoKernel = NoKernel

SPECIFICATION Spec

INVARIANT BindReportsFailure

\* A failed clSetKernelArg exits the process: that state has no successor.
CHECK_DEADLOCK FALSE
