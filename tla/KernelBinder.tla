---------------------------- MODULE KernelBinder ----------------------------
(***************************************************************************)
(* Binding the buffers and kernels of one Execution Context: the JNI       *)
(* setKernel* wrappers of GPU.c, gpu_context_setKernel/setInput/setOutput  *)
(* of gpucontext.c and the callback_setKernel* functions that set the      *)
(* kernel arguments.  gpu_query_set* repeat each call on every context of  *)
(* the ring, so one context stands for all of them.                        *)
(*                                                                         *)
(* A bound buffer is named by how many times its slot was bound (1, 2, ..): *)
(* getInputBuffer/getOutputBuffer return a new buffer each time.  A slot   *)
(* never bound holds whatever malloc left there (Garbage); an index at    *)
(* or past the count reads outside the array (OutOfArray).  A callback   *)
(* copies inputs[i]->device_buffer into the kernel when it runs, so a    *)
(* kernel keeps the handles it saw at bind time.                          *)
(***************************************************************************)
EXTENDS Integers, FiniteSets

CONSTANTS
  Opens,     \* the (kernels, inputs, outputs) counts a query may be opened with
  Ops,       \* the operators whose setKernel* the caller may invoke
  Argcs,     \* lengths of the constants array the caller may pass
  MaxBinds,  \* bound on binds of one buffer slot (model bound)
  MaxTasks,  \* bound on submitTask calls (model bound)
  NoKernel

VARIABLES
  nKer, nIn, nOut,   \* kernel.count, kernelInput.count, kernelOutput.count
  inputs,            \* input slot -> bind generation, 0 if never bound
  outputs,           \* output slot -> bind generation, 0 if never bound
  kernels,           \* kernel slot -> NoKernel or the arguments it holds
  ret,               \* what the last setKernel* returned to Java
  lastOp,            \* the operator of the last setKernel* call
  fault,             \* "none", or the call the process died in: "bind",
                     \* "submit" or "free"
  freed,             \* gpu_context_free has run
  tasks              \* submitTask calls made on the context

vars == <<nKer, nIn, nOut, inputs, outputs, kernels, ret, lastOp, fault, freed,
          tasks>>

(* callback_setKernelDummy: inputs[0], outputs[0]; no constants. *)
DummyLayout == [in |-> {0}, out |-> {0}, consts |-> {}]

(* callback_setKernelProject: tuples, bytes, two local sizes; 1 in, 1 out. *)
ProjectLayout == [in |-> {0}, out |-> {0}, consts |-> 0..3]

(* callback_setKernelReduce: tuples, bytes, scratch; 3 in, 1 out. *)
ReduceLayout == [in |-> 0..2, out |-> {0}, consts |-> 0..2]

(* callback_setKernelSelect (and Compact, which calls it): size, tuples,  *)
(* bundle, bundles, buffer size; 1 in, 4 out.                             *)
SelectLayout == [in |-> {0}, out |-> 0..3, consts |-> 0..4]

(* callback_setKernelAggregate: tuples, table, two stash sizes, max       *)
(* iterations, buffer size; 5 in, 8 out.                                  *)
AggregateLayout == [in |-> 0..4, out |-> 0..7, consts |-> 0..5]

Layout(op) ==
  CASE op = "dummy"     -> DummyLayout
    [] op = "project"   -> ProjectLayout
    [] op = "reduce"    -> ReduceLayout
    [] op = "select"    -> SelectLayout
    [] op = "aggregate" -> AggregateLayout

(* The kernel slots each JNI wrapper binds. *)
KernelSlots(op) ==
  CASE op = "select"    -> {0, 1}
    [] op = "aggregate" -> {0, 1, 2}
    [] OTHER            -> {0}

(* Mutant of ArgcAccepted: setKernelProject checks argc != 3. *)
ArgcAcceptedOffByOne(op, argc) ==
  CASE op = "dummy"     -> TRUE
    [] op = "project"   -> argc = 3
    [] op = "reduce"    -> argc = 3
    [] op = "select"    -> argc = 5
    [] op = "aggregate" -> argc = 6

(* The constants count each JNI wrapper demands (none for dummy, which   *)
(* passes NULL).                                                          *)
ArgcAccepted(op, argc) ==
  CASE op = "dummy"     -> TRUE
    [] op = "project"   -> argc = 4
    [] op = "reduce"    -> argc = 3
    [] op = "select"    -> argc = 5
    [] op = "aggregate" -> argc = 6

(* The handle a callback copies for buffer index i of a table of n      *)
(* slots: Garbage for a slot never bound, OutOfArray past the count.    *)
Garbage    == -1
OutOfArray == -2

Capture(i, n, bound) ==
  IF i >= n THEN OutOfArray ELSE IF bound[i] = 0 THEN Garbage ELSE bound[i]

(* The arguments one callback run sets; constants are recorded as the    *)
(* indices read and the length of the array they were read from.          *)
Binding(op, argc) ==
  [op     |-> op,
   in     |-> [i \in Layout(op).in  |-> Capture(i, nIn, inputs)],
   out    |-> [o \in Layout(op).out |-> Capture(o, nOut, outputs)],
   consts |-> Layout(op).consts,
   argc   |-> argc]

Invalid(b) ==
  \E v \in {b.in[i] : i \in DOMAIN b.in} \cup {b.out[o] : o \in DOMAIN b.out} :
    v \in {Garbage, OutOfArray}

Running == fault = "none" /\ ~freed

(* gpu_context_setInput: an index outside [0, count) returns silently;   *)
(* otherwise a new buffer replaces the old one, which is not released.    *)
SetInput(ndx) ==
  /\ Running
  /\ \/ /\ ndx < 0 \/ ndx >= nIn
        /\ UNCHANGED inputs
     \/ /\ 0 <= ndx /\ ndx < nIn /\ inputs[ndx] < MaxBinds
        /\ inputs' = [inputs EXCEPT ![ndx] = @ + 1]
  /\ UNCHANGED <<nKer, nIn, nOut, outputs, kernels, ret, lastOp, fault, freed, tasks>>

(* gpu_context_setOutput: as setInput, for the output table. *)
SetOutput(ndx) ==
  /\ Running
  /\ \/ /\ ndx < 0 \/ ndx >= nOut
        /\ UNCHANGED outputs
     \/ /\ 0 <= ndx /\ ndx < nOut /\ outputs[ndx] < MaxBinds
        /\ outputs' = [outputs EXCEPT ![ndx] = @ + 1]
  /\ UNCHANGED <<nKer, nIn, nOut, inputs, kernels, ret, lastOp, fault, freed, tasks>>

(* Java_..._setKernel<Op>: a constants array of the wrong length returns  *)
(* -1.  Otherwise gpu_context_setKernel runs for each slot of the         *)
(* operator: a slot at or past kernel.count is skipped silently; an       *)
(* in-range slot gets two kernel objects whose arguments the callback     *)
(* sets; and the wrapper returns 0.  clSetKernelArg on an uninitialised   *)
(* or out-of-array cl_mem may fail (exit) or accept whatever it finds.    *)
SetKernel(op, argc) ==
  /\ Running
  /\ lastOp' = op
  /\ \/ /\ ~ArgcAccepted(op, argc)
        /\ ret' = -1
        /\ UNCHANGED <<kernels, fault>>
     \/ /\ ArgcAccepted(op, argc)
        /\ LET b == Binding(op, argc) IN
             \/ /\ Invalid(b) /\ fault' = "bind"
                /\ UNCHANGED <<kernels, ret>>
             \/ /\ ret' = 0 /\ UNCHANGED fault
                /\ kernels' = [s \in DOMAIN kernels |->
                                 IF s \in KernelSlots(op) THEN b ELSE kernels[s]]
  /\ UNCHANGED <<nKer, nIn, nOut, inputs, outputs, freed, tasks>>

(* The slots gpu_context_submitTask dereferences: the write, kernel and   *)
(* read loops run over every index below each count.                       *)
SubmittedSlots ==
  <<0..(nIn - 1), 0..(nOut - 1), 0..(nKer - 1)>>

(* The slots gpu_context_free releases: every index below each count,     *)
(* bound or not.                                                           *)
FreedSlots ==
  <<0..(nIn - 1), 0..(nOut - 1), 0..(nKer - 1)>>

(* One of the slots (inputs, outputs, kernels) a loop of the context      *)
(* dereferences is an uninitialised or out-of-array pointer.               *)
TouchesGarbage(slots) ==
  \/ \E i \in slots[1] : Capture(i, nIn, inputs) < 0
  \/ \E o \in slots[2] : Capture(o, nOut, outputs) < 0
  \/ \E s \in slots[3] : s \notin DOMAIN kernels \/ kernels[s] = NoKernel

(* A slot freeInputBuffer, freeOutputBuffer or clReleaseKernel/free gets  *)
(* as an uninitialised or out-of-array pointer.                            *)
FreesGarbage == TouchesGarbage(FreedSlots)

(* gpu_context_submitTask (reached by gpu_exec -> gpu_query_exec): a write *)
(* per input, a launch of kernel[0] of every kernel slot, a read per       *)
(* output.  A garbage cl_mem or cl_kernel is undefined: the enqueue fails  *)
(* (exit) or the device runs whatever the pointer designates.             *)
SubmitTask ==
  /\ Running /\ tasks < MaxTasks
  /\ tasks' = tasks + 1
  /\ \/ /\ TouchesGarbage(SubmittedSlots) /\ fault' = "submit"
     \/ UNCHANGED fault
  /\ UNCHANGED <<nKer, nIn, nOut, inputs, outputs, kernels, ret, lastOp, freed>>

(* gpu_context_free: release every input, output and kernel slot and the  *)
(* queues.  Releasing an uninitialised pointer is undefined: the process   *)
(* may crash or carry on.                                                  *)
ContextFree ==
  /\ Running
  /\ freed' = TRUE
  /\ \/ /\ FreesGarbage /\ fault' = "free"
     \/ UNCHANGED fault
  /\ UNCHANGED <<nKer, nIn, nOut, inputs, outputs, kernels, ret, lastOp, tasks>>

(* gpu_getQuery -> gpu_context: the counts are fixed, every table slot   *)
(* is uninitialised.                                                      *)
Init ==
  /\ \E c \in Opens : nKer = c[1] /\ nIn = c[2] /\ nOut = c[3]
  /\ inputs = [i \in 0..(nIn - 1) |-> 0]
  /\ outputs = [o \in 0..(nOut - 1) |-> 0]
  /\ kernels = [s \in 0..(nKer - 1) |-> NoKernel]
  /\ ret = 0 /\ lastOp = "none" /\ fault = "none" /\ freed = FALSE
  /\ tasks = 0

Indices == -1..8

(* Java calls setInput, setOutput, setKernel* and execute in any order. *)
Next ==
  \/ \E i \in Indices : SetInput(i)
  \/ \E o \in Indices : SetOutput(o)
  \/ \E op \in Ops, argc \in Argcs : SetKernel(op, argc)
  \/ SubmitTask
  \/ ContextFree

Spec == Init /\ [][Next]_vars

-----------------------------------------------------------------------------
(* Every argument of every bound kernel names the buffer currently bound  *)
(* at its index: no uninitialised or out-of-array cl_mem, and no buffer   *)
(* replaced after the kernel took its handle (spec 3, 4.3).               *)
KernelArgsLive ==
  \A s \in DOMAIN kernels : kernels[s] # NoKernel =>
    /\ ~Invalid(kernels[s])
    /\ \A i \in DOMAIN kernels[s].in  : kernels[s].in[i] = inputs[i]
    /\ \A o \in DOMAIN kernels[s].out : kernels[s].out[o] = outputs[o]

(* A callback reads only constants inside the array the wrapper checked. *)
ConstantsWithinArray ==
  \A s \in DOMAIN kernels : kernels[s] # NoKernel =>
    kernels[s].consts \subseteq 0..(kernels[s].argc - 1)

(* Tearing a context down releases only what was bound: no uninitialised  *)
(* buffer or kernel pointer reaches free, even after a setKernel* that     *)
(* returned the configuration-error sentinel (spec 7: the process         *)
(* continues).                                                             *)
TeardownReleasesBound == fault # "free"

(* A setKernel* that returns 0 has bound every kernel slot of its         *)
(* operator; an out-of-range slot is a configuration error with a         *)
(* negative sentinel (spec 7).                                            *)
BindReportsFailure ==
  Running /\ ret = 0 /\ lastOp # "none" =>
    \A s \in KernelSlots(lastOp) :
      s \in DOMAIN kernels /\ kernels[s] # NoKernel /\ kernels[s].op = lastOp
=============================================================================
