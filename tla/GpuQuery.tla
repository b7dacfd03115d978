------------------------------ MODULE GpuQuery ------------------------------
(***************************************************************************)
(* A Query: a ring of Depth Execution Contexts (gpuquery.h, gpu_query_t)   *)
(* and the host thread that runs execute() on it.  execute is            *)
(*   switch -> writeInput -> submitTask -> flush -> waitForReadEvent       *)
(*   -> readOutput                                                         *)
(* (spec 4.2; gpu_query_exec and gpu_context_switch are declared in        *)
(* gpuquery.h but their bodies are not under src/).  The context calls   *)
(* are those of GpuContext, the device runs concurrently with the host.   *)
(***************************************************************************)
EXTENDS GpuContext

CONSTANTS
  Depth,     \* DEPTH: contexts per query
  MaxExec    \* bound on the number of execute() calls (model bound)

ASSUME Depth \in Nat \ {0} /\ Ctx = 0..(Depth - 1) /\ MaxExec \in Nat

VARIABLES
  phase,     \* round-robin counter of the ring
  cur,       \* the context the running execute() switched to
  pc,        \* where the host thread is in execute()
  executed,  \* execute() calls that have returned
  delivered, \* write-only output -> batch of the data handed to Java
  markFrom   \* batch of the buffer the last mark was scanned from

qVars == <<phase, cur, pc, executed, delivered, markFrom>>

WriteOnly == {o \in Outputs : Flags[o].writeOnly}

(* The bears-mark output readOutput scans (one per layout, spec 3). *)
MarkOut == CHOOSE o \in Outputs : Flags[o].bearsMark
vars  == <<ctxVars, qVars>>

Step(from, to) == pc = from /\ pc' = to

(* Mutant of Switch: the ring counter is advanced without the wrap. *)
SwitchNoWrap ==
  /\ ~aborted /\ executed < MaxExec
  /\ Step("idle", "write")
  /\ cur' = phase
  /\ phase' = phase + 1
  /\ UNCHANGED <<ctxVars, executed, delivered, markFrom>>

(* Mutant of Switch: the ring counter advanced before it is read. *)
SwitchAdvanceFirst ==
  /\ ~aborted /\ executed < MaxExec
  /\ Step("idle", "write")
  /\ cur' = (phase + 1) % Depth
  /\ phase' = (phase + 1) % Depth
  /\ UNCHANGED <<ctxVars, executed, delivered, markFrom>>

(* gpu_context_switch: take the next context of the ring. *)
Switch ==
  /\ ~aborted /\ executed < MaxExec
  /\ Step("idle", "write")
  /\ cur' = phase
  /\ phase' = (phase + 1) % Depth
  /\ UNCHANGED <<ctxVars, executed, delivered, markFrom>>

ExecWriteInput ==
  /\ Step("write", "submit") /\ WriteInput(cur)
  /\ UNCHANGED <<phase, cur, executed, delivered, markFrom>>

ExecSubmit ==
  /\ Step("submit", "flush") /\ SubmitTask(cur)
  /\ UNCHANGED <<phase, cur, executed, delivered, markFrom>>

ExecFlush ==
  /\ Step("flush", "wait") /\ Flush(cur)
  /\ UNCHANGED <<phase, cur, executed, delivered, markFrom>>

(* waitForReadEvent either blocks (pc "waiting") or returns at once. *)
ExecWait ==
  /\ pc = "wait" /\ WaitForReadEvent(cur)
  /\ pc' = IF waiting'[cur] = "read" THEN "waiting" ELSE "drain"
  /\ UNCHANGED <<phase, cur, executed, delivered, markFrom>>

ExecWaitReturn ==
  /\ Step("waiting", "drain") /\ WaitForReadEventReturn(cur)
  /\ UNCHANGED <<phase, cur, executed, delivered, markFrom>>

(* gpu_context_readOutput: the mark is scanned from the host copy of the   *)
(* bears-mark output (MarkScan) and callback_readOutput hands Java the     *)
(* pinned host copy of every write-only output; context state is left     *)
(* alone.                                                                  *)
ExecReadOutput ==
  /\ ~aborted /\ Step("drain", "idle")
  /\ executed' = executed + 1
  /\ delivered' = [o \in WriteOnly |-> hostOut[cur][o]]
  /\ markFrom' = hostOut[cur][MarkOut]
  /\ UNCHANGED <<ctxVars, phase, cur>>

(* The caller has made its last call; the engine sits idle. *)
Done ==
  /\ pc = "idle" /\ executed = MaxExec
  /\ UNCHANGED vars

(* The device runs one command of some context's queue. *)
DeviceStep == \E c \in Ctx : Device(c) /\ UNCHANGED qVars

QInit ==
  /\ Init
  /\ phase = 0 /\ cur = 0 /\ pc = "idle" /\ executed = 0
  /\ delivered = [o \in WriteOnly |-> 0] /\ markFrom = 0

HostStep ==
  \/ ExecWriteInput \/ ExecSubmit \/ ExecFlush \/ ExecWait \/ ExecWaitReturn
  \/ ExecReadOutput

QNext ==
  \/ Switch
  \/ HostStep
  \/ DeviceStep
  \/ Done

(* The device eventually executes what was flushed to it; a host thread   *)
(* inside execute() keeps running.  Nothing forces a new execute() call.  *)
QSpec ==
  /\ QInit /\ [][QNext]_vars
  /\ WF_vars(HostStep)
  /\ \A c \in Ctx : WF_vars(Device(c) /\ UNCHANGED qVars)

-----------------------------------------------------------------------------
QTypeOK ==
  /\ TypeOK
  /\ phase \in Ctx /\ cur \in Ctx /\ executed \in 0..MaxExec
  /\ pc \in {"idle", "write", "submit", "flush", "wait", "waiting", "drain"}
  /\ delivered \in [WriteOnly -> Data] /\ markFrom \in Data

(* The host never refills a pinned input buffer while an async write of  *)
(* it (CL_FALSE: it reads host memory when it runs) is still queued.      *)
NoHostWriteInFlight ==
  \A c \in Ctx : \A k \in 1..Len(queue[c]) :
    queue[c][k].op = "write" => hostIn[c][queue[c][k].idx] = queue[c][k].data

(* What one execute() returned: the batch every delivered output and the *)
(* mark came from, or Mixed if they disagree.                            *)
Result ==
  IF \A o \in WriteOnly : delivered[o] = markFrom THEN markFrom ELSE Mixed

Pipeline == INSTANCE BatchPipeline WITH
  aCalls <- executed + (IF pc \in {"idle", "write"} THEN 0 ELSE 1),
  aBusy  <- pc \notin {"idle", "write"},
  aBatch <- batch,
  aOut   <- Result

(* The query implements BatchPipeline: the k-th execute() writes its batch *)
(* into context k mod Depth (gpu_context_switch), and returns, eventually,  *)
(* that batch's outputs and mark, which needs the read event on the last   *)
(* read of submitTask and the in-order queue.                              *)
RefinesBatchPipeline == Pipeline!ASpec

(* A boundary event is released before its slot is given a new one:       *)
(* otherwise the old cl_event is never released (spec 3, 4.1).            *)
NoEventLeak ==
  [][\A c \in Ctx :
       /\ writeEvent'[c] # writeEvent[c] /\ writeEvent'[c] # NoEvent
          /\ writeEvent'[c].st = "pending"
          => writeEvent[c] = NoEvent \/ writeEvent[c].st = "released"
       /\ readEvent'[c] # readEvent[c] /\ readEvent'[c] # NoEvent
          /\ readEvent'[c].st = "pending"
          => readEvent[c] = NoEvent \/ readEvent[c].st = "released"]_vars
=============================================================================
