----------------------------- MODULE MCGpuQuery -----------------------------
(* A query of Depth contexts with two inputs and NumOutputs outputs: the  *)
(* first is scratch space the host never drains (not write-only), the     *)
(* others are write-only and the last bears the mark and the read event,  *)
(* as the select/aggregate layouts bind them.                             *)
EXTENDS GpuQuery

MCCtx      == 0..(Depth - 1)
MCFlags    == [o \in 1..NumOutputs |->
                 [writeOnly |-> o > 1, doNotMove |-> FALSE,
                  bearsMark |-> o = NumOutputs, readEvent |-> o = NumOutputs]]
=============================================================================
