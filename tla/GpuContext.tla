----------------------------- MODULE GpuContext -----------------------------
(***************************************************************************)
(* The Execution Context of src/seep-system/clib/gpucontext.c.             *)
(*                                                                         *)
(* One context owns N input and M output buffers (pinned host copy plus    *)
(* device copy), K kernels, the in-order command queue queue[0], the two   *)
(* boundary-event slots write_event / read_event, the in-flight counters  *)
(* writeCount / readCount and the `scheduled` flag.  Every host call of   *)
(* gpucontext.c that changes this state is an action; the device that     *)
(* executes the queued commands asynchronously is a second actor.         *)
(*                                                                         *)
(* Data is abstracted to batch tags: the host fills its input buffers     *)
(* with batch `batch[c]`, a device write copies the host tag, a kernel    *)
(* computes its outputs from the device inputs, a read copies the device  *)
(* output back to host memory.  queue[1] is created, flushed and finished *)
(* by the code but no command is ever enqueued on it, so it is left out.   *)
(***************************************************************************)
EXTENDS Integers, Sequences, FiniteSets

CONSTANTS
  Ctx,         \* the Execution Contexts of the model
  NumInputs,   \* kernelInput.count
  NumOutputs,  \* kernelOutput.count
  NumKernels,  \* kernel.count
  Flags,       \* per output: writeOnly, doNotMove, bearsMark, readEvent
  Capacity,    \* size of every input buffer, in abstract units
  PtrGaps,     \* values the pointer difference `end - start` can take
  TagMod,      \* batch tags and event ids are counted modulo TagMod
  MaxCount,    \* bound on writeCount / readCount (model bound, not code)
  MaxQueue,    \* bound on the commands pending in a queue (model bound)
  NoEvent      \* an event slot never assigned (the struct is malloc'd)

ASSUME NumInputs \in Nat \ {0} /\ NumOutputs \in Nat \ {0}
ASSUME NumKernels \in Nat /\ Capacity \in Nat \ {0}
ASSUME TagMod \in Nat /\ TagMod >= 2 /\ MaxCount \in Nat \ {0} /\ MaxQueue \in Nat
ASSUME PtrGaps \subseteq Int

Inputs  == 1..NumInputs
Outputs == 1..NumOutputs
Kernels == 1..NumKernels
Tags    == 0..(TagMod - 1)
Mixed   == -1                  \* output computed from inputs of two batches
Data    == Tags \cup {Mixed}
Offsets == 0..(Capacity + 1)

ASSUME Flags \in [Outputs -> [writeOnly : BOOLEAN, doNotMove : BOOLEAN,
                              bearsMark : BOOLEAN, readEvent : BOOLEAN]]

VARIABLES
  hostIn,      \* hostIn[c][i]: batch held by the pinned host input buffer
  devIn,       \* devIn[c][i]: batch held by the device input buffer
  devOut,      \* devOut[c][o]: result held by the device output buffer
  hostOut,     \* hostOut[c][o]: result held by the pinned host output buffer
  batch,       \* batch[c]: tag of the batch the host last put in the inputs
  queue,       \* queue[c]: commands enqueued on queue[0] and not yet executed
  issued,      \* issued[c]: how many leading commands have been flushed
  writeEvent,  \* q->write_event
  readEvent,   \* q->read_event
  evSeq,       \* id given to the next event the context creates
  writeCount,  \* q->writeCount
  readCount,   \* q->readCount
  scheduled,   \* q->scheduled
  waiting,     \* the host call the host thread is blocked in, per context
  aborted      \* the process has exited

ctxVars == <<hostIn, devIn, devOut, hostOut, batch, queue, issued, writeEvent,
             readEvent, evSeq, writeCount, readCount, scheduled, waiting, aborted>>

EventState == {"pending", "complete", "released"}
EventSlot  == [id : Tags, st : EventState] \cup {NoEvent}
Command    == [op : {"write", "exec", "read"}, idx : Nat,
               ev : Tags \cup {NoEvent}, data : Data, span : Int, want : Int]

(* An event slot holds a handle the runtime still knows. *)
Live(slot) == slot # NoEvent /\ slot.st \in {"pending", "complete"}

(* The device signals an event: it completes the slot's event if it is it. *)
Signal(slot, ev) ==
  IF slot # NoEvent /\ slot.id = ev /\ slot.st = "pending"
  THEN [slot EXCEPT !.st = "complete"] ELSE slot

(* A kernel's result: the batch its inputs came from, or Mixed. *)
Combine(in) ==
  IF \A i \in Inputs : in[i] = in[1] THEN in[1] ELSE Mixed

WriteCmd(c, i, ev, span, want) ==
  [op |-> "write", idx |-> i, ev |-> ev, data |-> hostIn[c][i],
   span |-> span, want |-> want]

OtherCmd(op, i, ev) ==
  [op |-> op, idx |-> i, ev |-> ev, data |-> Mixed, span |-> 0, want |-> 0]

(* Write stage: one async write per input, only the last carries an event. *)
WriteStage(c, e) ==
  [k \in Inputs |-> WriteCmd(c, k, IF k = NumInputs THEN e ELSE NoEvent,
                             Capacity, Capacity)]

(* Kernel stage: one launch per binding, no event. *)
ExecStage == [k \in Kernels |-> OtherCmd("exec", k, NoEvent)]

(* Mutants of ReadStage: the event put on the first read, or on no read   *)
(* (i == count instead of i == count - 1).                                *)
ReadStageEventOnFirst(e) ==
  [k \in Outputs |-> OtherCmd("read", k, IF k = 1 THEN e ELSE NoEvent)]
ReadStageOffByOne(e) ==
  [k \in Outputs |-> OtherCmd("read", k, IF k = NumOutputs + 1 THEN e ELSE NoEvent)]

(* Read stage of submitTask: one async read per output, the last has the event. *)
ReadStage(e) ==
  [k \in Outputs |-> OtherCmd("read", k, IF k = NumOutputs THEN e ELSE NoEvent)]

(* A slot given a new event. *)
Fresh(e) == [id |-> e, st |-> "pending"]

Idle(c) == ~aborted /\ waiting[c] = "none"

(* Room for n more commands in queue[0] (model bound MaxQueue). *)
Room(c, n) == Len(queue[c]) + n <= MaxQueue

-----------------------------------------------------------------------------
(* Host calls of gpucontext.c.                                            *)

(* gpu_context_writeInput: the host callback fills every input buffer with *)
(* the next batch.                                                        *)
WriteInput(c) ==
  LET b == (batch[c] + 1) % TagMod IN
  /\ Idle(c)
  /\ batch' = [batch EXCEPT ![c] = b]
  /\ hostIn' = [hostIn EXCEPT ![c] = [i \in Inputs |-> b]]
  /\ UNCHANGED <<devIn, devOut, hostOut, queue, issued, writeEvent, readEvent,
                 evSeq, writeCount, readCount, scheduled, waiting, aborted>>

(* gpu_context_submitTask: write, kernel and read stages on queue[0]. *)
SubmitTask(c) ==
  LET we == evSeq[c]
      re == (evSeq[c] + 1) % TagMod
  IN
  /\ Idle(c)
  /\ writeCount[c] < MaxCount /\ readCount[c] < MaxCount
  /\ Room(c, NumInputs + NumKernels + NumOutputs)
  /\ queue' = [queue EXCEPT ![c] = @ \o WriteStage(c, we) \o ExecStage \o ReadStage(re)]
  /\ writeEvent' = [writeEvent EXCEPT ![c] = Fresh(we)]
  /\ readEvent' = [readEvent EXCEPT ![c] = Fresh(re)]
  /\ evSeq' = [evSeq EXCEPT ![c] = (@ + 2) % TagMod]
  /\ writeCount' = [writeCount EXCEPT ![c] = @ + 1]
  /\ readCount' = [readCount EXCEPT ![c] = @ + 1]
  /\ scheduled' = [scheduled EXCEPT ![c] = TRUE]
  /\ UNCHANGED <<hostIn, devIn, devOut, hostOut, batch, issued, waiting, aborted>>

(* gpu_context_flush: clFlush hands every queued command to the device. *)
Flush(c) ==
  /\ Idle(c)
  /\ issued' = [issued EXCEPT ![c] = Len(queue[c])]
  /\ UNCHANGED <<hostIn, devIn, devOut, hostOut, batch, queue, writeEvent,
                 readEvent, evSeq, writeCount, readCount, scheduled, waiting, aborted>>

(* gpu_context_moveInputBuffers: the write stage of submitTask alone. *)
MoveInputBuffers(c) ==
  /\ Idle(c)
  /\ writeCount[c] < MaxCount /\ Room(c, NumInputs)
  /\ queue' = [queue EXCEPT ![c] = @ \o WriteStage(c, evSeq[c])]
  /\ writeEvent' = [writeEvent EXCEPT ![c] = Fresh(evSeq[c])]
  /\ evSeq' = [evSeq EXCEPT ![c] = (@ + 1) % TagMod]
  /\ writeCount' = [writeCount EXCEPT ![c] = @ + 1]
  /\ scheduled' = [scheduled EXCEPT ![c] = TRUE]
  /\ UNCHANGED <<hostIn, devIn, devOut, hostOut, batch, issued, readEvent,
                 readCount, waiting, aborted>>

(* The outputs moveOutputBuffers reads back, in index order, and those of *)
(* them whose read creates an event (each overwrites q->read_event).      *)
Moved      == SelectSeq([k \in Outputs |-> k], LAMBDA o : ~Flags[o].doNotMove)
EventReads == {o \in Outputs : ~Flags[o].doNotMove /\ Flags[o].readEvent}
EventRank(o) == Cardinality({p \in EventReads : p < o})

(* gpu_context_moveOutputBuffers: read every output not flagged doNotMove; *)
(* the reads of outputs flagged readEvent carry an event.                 *)
MoveOutputBuffers(c) ==
  LET ev(o) == IF o \in EventReads THEN (evSeq[c] + EventRank(o)) % TagMod
                                   ELSE NoEvent
      lastEv == (evSeq[c] + Cardinality(EventReads) - 1) % TagMod
  IN
  /\ Idle(c)
  /\ readCount[c] < MaxCount /\ Room(c, Len(Moved))
  /\ queue' = [queue EXCEPT ![c] =
                 @ \o [k \in 1..Len(Moved) |-> OtherCmd("read", Moved[k], ev(Moved[k]))]]
  /\ readEvent' = IF EventReads = {} THEN readEvent
                  ELSE [readEvent EXCEPT ![c] = Fresh(lastEv)]
  /\ evSeq' = [evSeq EXCEPT ![c] = (@ + Cardinality(EventReads)) % TagMod]
  /\ readCount' = [readCount EXCEPT ![c] = @ + 1]
  /\ scheduled' = [scheduled EXCEPT ![c] = TRUE]
  /\ UNCHANGED <<hostIn, devIn, devOut, hostOut, batch, issued, writeEvent,
                 writeCount, waiting, aborted>>

(* gpu_context_submitKernel: the kernel stage alone. *)
SubmitKernel(c) ==
  /\ Idle(c) /\ Room(c, NumKernels)
  /\ queue' = [queue EXCEPT ![c] = @ \o ExecStage]
  /\ UNCHANGED <<hostIn, devIn, devOut, hostOut, batch, issued, writeEvent,
                 readEvent, evSeq, writeCount, readCount, scheduled, waiting, aborted>>

(* gpu_context_moveDirectInputBuffers(start, end).  The code checks         *)
(* start[i] >= end[i], then takes theSize = end - start, the difference of *)
(* the two array POINTERS (not end[i] - start[i]); its value, gap, is      *)
(* whatever the two arrays' addresses make it.  An error exits the process. *)
DirectRejected(start, end, gap) ==
  \/ \E i \in Inputs : start[i] >= end[i]
  \/ gap > Capacity
  \/ gap <= 0          \* clEnqueueWriteBuffer refuses the size: exit(1)

MoveDirectInputBuffers(c) ==
  \E start, end \in [Inputs -> Offsets], gap \in PtrGaps :
    /\ Idle(c)
    /\ writeCount[c] < MaxCount /\ Room(c, NumInputs)
    /\ \/ /\ DirectRejected(start, end, gap)
          /\ aborted' = TRUE
          /\ UNCHANGED <<queue, writeEvent, evSeq, writeCount, scheduled>>
       \/ /\ ~DirectRejected(start, end, gap)
          /\ queue' = [queue EXCEPT ![c] = @ \o
                 [k \in Inputs |-> WriteCmd(c, k, IF k = NumInputs THEN evSeq[c] ELSE NoEvent,
                                            gap, end[k] - start[k])]]
          /\ writeEvent' = [writeEvent EXCEPT ![c] = Fresh(evSeq[c])]
          /\ evSeq' = [evSeq EXCEPT ![c] = (@ + 1) % TagMod]
          /\ writeCount' = [writeCount EXCEPT ![c] = @ + 1]
          /\ scheduled' = [scheduled EXCEPT ![c] = TRUE]
          /\ UNCHANGED aborted
    /\ UNCHANGED <<hostIn, devIn, devOut, hostOut, batch, issued, readEvent,
                   readCount, waiting>>

(* gpu_context_finish: clFinish on both queues (with its implicit flush). *)
Finish(c) ==
  /\ Idle(c) /\ scheduled[c]
  /\ issued' = [issued EXCEPT ![c] = Len(queue[c])]
  /\ waiting' = [waiting EXCEPT ![c] = "finish"]
  /\ UNCHANGED <<hostIn, devIn, devOut, hostOut, batch, queue, writeEvent,
                 readEvent, evSeq, writeCount, readCount, scheduled, aborted>>

FinishReturn(c) ==
  /\ ~aborted /\ waiting[c] = "finish" /\ queue[c] = <<>>
  /\ waiting' = [waiting EXCEPT ![c] = "none"]
  /\ UNCHANGED <<hostIn, devIn, devOut, hostOut, batch, queue, issued, writeEvent,
                 readEvent, evSeq, writeCount, readCount, scheduled, aborted>>

(* gpu_context_waitForReadEvent.  No-op when nothing is scheduled or      *)
(* readCount < 1.  Otherwise clWaitForEvents (which flushes the queue)     *)
(* blocks on q->read_event; on a handle already released, or never set,   *)
(* it returns an error and the code exits.                                *)
ReadWaitActsOffByOne(c) == scheduled[c] /\ readCount[c] >= 2   \* mutant
ReadWaitActs(c) == scheduled[c] /\ readCount[c] >= 1

WaitForReadEvent(c) ==
  /\ Idle(c)
  /\ \/ /\ ~ReadWaitActs(c)
        /\ UNCHANGED ctxVars
     \/ /\ ReadWaitActs(c) /\ Live(readEvent[c])
        /\ issued' = [issued EXCEPT ![c] = Len(queue[c])]
        /\ waiting' = [waiting EXCEPT ![c] = "read"]
        /\ UNCHANGED <<hostIn, devIn, devOut, hostOut, batch, queue, writeEvent,
                       readEvent, evSeq, writeCount, readCount, scheduled, aborted>>
     \/ /\ ReadWaitActs(c) /\ ~Live(readEvent[c])
        /\ aborted' = TRUE
        /\ UNCHANGED <<hostIn, devIn, devOut, hostOut, batch, queue, issued,
                       writeEvent, readEvent, evSeq, writeCount, readCount,
                       scheduled, waiting>>

(* Mutant: the event released but readCount left as it was. *)
WaitForReadEventReturnNoDecrement(c) ==
  /\ ~aborted /\ waiting[c] = "read" /\ readEvent[c].st = "complete"
  /\ readEvent' = [readEvent EXCEPT ![c].st = "released"]
  /\ waiting' = [waiting EXCEPT ![c] = "none"]
  /\ UNCHANGED <<hostIn, devIn, devOut, hostOut, batch, queue, issued, writeEvent,
                 evSeq, writeCount, readCount, scheduled, aborted>>

(* The event signalled: readCount -= 1, clReleaseEvent(q->read_event). *)
WaitForReadEventReturn(c) ==
  /\ ~aborted /\ waiting[c] = "read" /\ readEvent[c].st = "complete"
  /\ readCount' = [readCount EXCEPT ![c] = @ - 1]
  /\ readEvent' = [readEvent EXCEPT ![c].st = "released"]
  /\ waiting' = [waiting EXCEPT ![c] = "none"]
  /\ UNCHANGED <<hostIn, devIn, devOut, hostOut, batch, queue, issued, writeEvent,
                 evSeq, writeCount, scheduled, aborted>>

(* gpu_context_waitForWriteEvent: the same on q->write_event / writeCount. *)
WaitForWriteEvent(c) ==
  /\ Idle(c)
  /\ \/ /\ ~scheduled[c] \/ writeCount[c] < 1
        /\ UNCHANGED ctxVars
     \/ /\ scheduled[c] /\ writeCount[c] >= 1 /\ Live(writeEvent[c])
        /\ issued' = [issued EXCEPT ![c] = Len(queue[c])]
        /\ waiting' = [waiting EXCEPT ![c] = "write"]
        /\ UNCHANGED <<hostIn, devIn, devOut, hostOut, batch, queue, writeEvent,
                       readEvent, evSeq, writeCount, readCount, scheduled, aborted>>
     \/ /\ scheduled[c] /\ writeCount[c] >= 1 /\ ~Live(writeEvent[c])
        /\ aborted' = TRUE
        /\ UNCHANGED <<hostIn, devIn, devOut, hostOut, batch, queue, issued,
                       writeEvent, readEvent, evSeq, writeCount, readCount,
                       scheduled, waiting>>

WaitForWriteEventReturn(c) ==
  /\ ~aborted /\ waiting[c] = "write" /\ writeEvent[c].st = "complete"
  /\ writeCount' = [writeCount EXCEPT ![c] = @ - 1]
  /\ writeEvent' = [writeEvent EXCEPT ![c].st = "released"]
  /\ waiting' = [waiting EXCEPT ![c] = "none"]
  /\ UNCHANGED <<hostIn, devIn, devOut, hostOut, batch, queue, issued, readEvent,
                 evSeq, readCount, scheduled, aborted>>

-----------------------------------------------------------------------------
(* The device: it executes the flushed head of each in-order queue.       *)

Pop(c) ==
  /\ queue' = [queue EXCEPT ![c] = Tail(@)]
  /\ issued' = [issued EXCEPT ![c] = @ - 1]

Ready(c, op) ==
  /\ ~aborted /\ issued[c] > 0 /\ Head(queue[c]).op = op

(* An async write copies host memory as it is when the write executes. *)
DeviceWrite(c) ==
  LET cmd == Head(queue[c]) IN
  /\ Ready(c, "write")
  /\ devIn' = [devIn EXCEPT ![c][cmd.idx] = hostIn[c][cmd.idx]]
  /\ writeEvent' = [writeEvent EXCEPT ![c] = Signal(@, cmd.ev)]
  /\ Pop(c)
  /\ UNCHANGED <<hostIn, devOut, hostOut, batch, readEvent, evSeq, writeCount,
                 readCount, scheduled, waiting, aborted>>

DeviceExec(c) ==
  /\ Ready(c, "exec")
  /\ devOut' = [devOut EXCEPT ![c] = [o \in Outputs |-> Combine(devIn[c])]]
  /\ Pop(c)
  /\ UNCHANGED <<hostIn, devIn, hostOut, batch, writeEvent, readEvent, evSeq,
                 writeCount, readCount, scheduled, waiting, aborted>>

DeviceRead(c) ==
  LET cmd == Head(queue[c]) IN
  /\ Ready(c, "read")
  /\ hostOut' = [hostOut EXCEPT ![c][cmd.idx] = devOut[c][cmd.idx]]
  /\ readEvent' = [readEvent EXCEPT ![c] = Signal(@, cmd.ev)]
  /\ Pop(c)
  /\ UNCHANGED <<hostIn, devIn, devOut, batch, writeEvent, evSeq, writeCount,
                 readCount, scheduled, waiting, aborted>>

Device(c) == DeviceWrite(c) \/ DeviceExec(c) \/ DeviceRead(c)

-----------------------------------------------------------------------------
(* gpu_context: a new context, counters zero, nothing scheduled; its      *)
(* buffers are bound and hold no batch yet (tag 0).                       *)
Init ==
  /\ hostIn  = [c \in Ctx |-> [i \in Inputs |-> 0]]
  /\ devIn   = [c \in Ctx |-> [i \in Inputs |-> 0]]
  /\ devOut  = [c \in Ctx |-> [o \in Outputs |-> 0]]
  /\ hostOut = [c \in Ctx |-> [o \in Outputs |-> 0]]
  /\ batch   = [c \in Ctx |-> 0]
  /\ queue   = [c \in Ctx |-> <<>>]
  /\ issued  = [c \in Ctx |-> 0]
  /\ writeEvent = [c \in Ctx |-> NoEvent]
  /\ readEvent  = [c \in Ctx |-> NoEvent]
  /\ evSeq      = [c \in Ctx |-> 0]
  /\ writeCount = [c \in Ctx |-> 0]
  /\ readCount  = [c \in Ctx |-> 0]
  /\ scheduled  = [c \in Ctx |-> FALSE]
  /\ waiting    = [c \in Ctx |-> "none"]
  /\ aborted    = FALSE

(* Any caller of the context API, in any order (the JNI surface lets the  *)
(* Java side call each of these directly).                                *)
Next ==
  \E c \in Ctx :
    \/ WriteInput(c) \/ SubmitTask(c) \/ Flush(c) \/ Finish(c) \/ FinishReturn(c)
    \/ MoveInputBuffers(c) \/ MoveOutputBuffers(c) \/ SubmitKernel(c)
    \/ MoveDirectInputBuffers(c)
    \/ WaitForReadEvent(c) \/ WaitForReadEventReturn(c)
    \/ WaitForWriteEvent(c) \/ WaitForWriteEventReturn(c)
    \/ Device(c)

Spec == Init /\ [][Next]_ctxVars

-----------------------------------------------------------------------------
TypeOK ==
  /\ hostIn \in [Ctx -> [Inputs -> Data]] /\ devIn \in [Ctx -> [Inputs -> Data]]
  /\ devOut \in [Ctx -> [Outputs -> Data]] /\ hostOut \in [Ctx -> [Outputs -> Data]]
  /\ batch \in [Ctx -> Tags]
  /\ \A c \in Ctx : queue[c] \in Seq(Command) /\ issued[c] \in 0..Len(queue[c])
  /\ writeEvent \in [Ctx -> EventSlot] /\ readEvent \in [Ctx -> EventSlot]
  /\ evSeq \in [Ctx -> Tags]
  /\ writeCount \in [Ctx -> 0..MaxCount] /\ readCount \in [Ctx -> 0..MaxCount]
  /\ scheduled \in [Ctx -> BOOLEAN]
  /\ waiting \in [Ctx -> {"none", "read", "write", "finish"}]
  /\ aborted \in BOOLEAN

(* A wait that acts (scheduled, counter >= 1) finds a live event in the   *)
(* slot: the counters of gpucontext.c count stages, the slot holds one    *)
(* handle, and a wait on a released handle makes the process exit.        *)
WaitTargetsLiveEvent ==
  \A c \in Ctx :
    /\ scheduled[c] /\ readCount[c] >= 1 => Live(readEvent[c])
    /\ scheduled[c] /\ writeCount[c] >= 1 => Live(writeEvent[c])

(* Spec 4.1 / 8: a direct transfer moves exactly [start, end) of each      *)
(* input, and is enqueued only when that range fits the device buffer.    *)
DirectTransferExact ==
  \A c \in Ctx : \A k \in 1..Len(queue[c]) :
    queue[c][k].op = "write" =>
      queue[c][k].span = queue[c][k].want /\ queue[c][k].want <= Capacity
=============================================================================
