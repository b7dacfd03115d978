---------------------------- MODULE MCGpuContext ----------------------------
(* One context driven through the whole gpucontext.c API in any order.    *)
EXTENDS GpuContext

CONSTANTS c1

MCCtx   == {c1}
MCGaps  == {-1, 1, 2}   \* end - start of two separately allocated arrays
MCFlags == [o \in 1..2 |-> [writeOnly |-> TRUE, doNotMove |-> FALSE,
                            bearsMark |-> o = 2, readEvent |-> o = 2]]
=============================================================================
