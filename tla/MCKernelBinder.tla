--------------------------- MODULE MCKernelBinder ---------------------------
(* Callers of the binder.  ProtocolSpec is the discipline of spec 3: a     *)
(* query opened with the counts spec 4.3 gives its operator, each buffer   *)
(* bound once (indices outside the table are still tried), and the kernel  *)
(* bound after its buffers, execute only once a setKernel* returned 0,   *)
(* the context torn down once its buffers are bound (its kernels need not *)
(* be: a setKernel* may have returned the configuration-error sentinel).  *)
EXTENDS KernelBinder

(* The (kernels, inputs, outputs) an operator may be opened with: the    *)
(* buffer counts of spec 4.3, where aggregate has "up to 8" outputs, the *)
(* partition ids being optional, so 7 or 8; the kernel counts are those   *)
(* the JNI wrappers bind (spec 4.3 says 1, which BindReportsFailure is    *)
(* about).                                                                *)
SpecCounts ==
  [dummy |-> {<<1, 1, 1>>}, project |-> {<<1, 1, 1>>}, reduce |-> {<<1, 3, 1>>},
   select |-> {<<2, 1, 4>>}, aggregate |-> {<<3, 5, 7>>, <<3, 5, 8>>}]

MCOpens == UNION {SpecCounts[op] : op \in DOMAIN SpecCounts}

AllBound ==
  /\ \A i \in DOMAIN inputs : inputs[i] > 0
  /\ \A o \in DOMAIN outputs : outputs[o] > 0

ProtocolNext ==
  \/ \E i \in Indices : (i \in DOMAIN inputs => inputs[i] = 0) /\ SetInput(i)
  \/ \E o \in Indices : (o \in DOMAIN outputs => outputs[o] = 0) /\ SetOutput(o)
  \/ /\ AllBound
     /\ \E op \in Ops, argc \in Argcs :
          <<nKer, nIn, nOut>> \in SpecCounts[op] /\ SetKernel(op, argc)
  \/ /\ ret = 0 /\ lastOp # "none"
     /\ SubmitTask
  \/ AllBound /\ ContextFree
  \/ freed /\ UNCHANGED vars

ProtocolSpec == Init /\ [][ProtocolNext]_vars

MCFreeOpens == {<<1, 1, 1>>, <<1, 3, 1>>}
MCFaultOpens == {<<1, 1, 4>>}
=============================================================================
