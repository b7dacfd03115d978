CONSTANTS
  Opens <- MCOpens
  Ops = {"dummy", "project", "reduce", "select", "aggregate"}
  Argcs = {3, 4, 5, 6}
  MaxTasks = 1
  MaxBinds = 1
  NoKernel = NoKernel

SPECIFICATION ProtocolSpec

\* Aggregate opened with 7 outputs (no partition ids): the callback binds
\* outputs[7] all the same.
INVARIANT KernelArgsLive
