CONSTANTS
  Opens <- MCFreeOpens
  Ops = {"dummy", "project", "reduce"}
  Argcs = {3, 4}
  MaxTasks = 1
  MaxBinds = 1
  NoKernel = NoKernel

SPECIFICATION ProtocolSpec

\* Every buffer bound, a setKernel* that returns -1 for a constants array
\* of the wrong length (spec 7: the process continues), then teardown.
INVARIANT TeardownReleasesBound
