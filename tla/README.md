# TLA+ models of the Seep GPU execution layer (`seep-system/clib`)

This directory holds TLA+ specifications of the native GPU layer of Seep:
`src/seep-system/clib/gpucontext.c` (the Execution Context), `GPU.c` (the
JNI surface, query registry, kernel-argument binders and host callbacks) and
`gpuquery.h` (the Query and its ring of contexts; the body `gpuquery.c` is not
in the repository, so what it does is taken from `spec.md` section 4.2).

## 1. Inventory

### Components and their state

| Component | Source | State | Operations |
|---|---|---|---|
| Execution Context | `gpucontext.c` | N input / M output buffers (pinned host copy + device copy, output flags writeOnly, doNotMove, bearsMark, readEvent), K kernel slots, `queue[0]`/`queue[1]`, `write_event`, `read_event`, `writeCount`, `readCount`, `scheduled` | `gpu_context`, `gpu_context_free`, `setKernel/Input/Output`, `submitTask`, `moveInputBuffers`, `moveOutputBuffers`, `moveDirectInputBuffers`, `submitKernel`, `flush`, `finish`, `waitForReadEvent`, `waitForWriteEvent`, `writeInput`, `readOutput` |
| Device (OpenCL runtime) | environment | the commands enqueued on each in-order queue, event states | executes the flushed head of each queue; signals the event a command carries |
| Query / ring | `gpuquery.h`, spec 4.2 | `contexts[DEPTH]`, `phase`, `ndx` | `gpu_query_new`, `gpu_context_switch`, `gpu_query_exec`, `gpu_query_custom_exec`, `setInput/Output/Kernel` (broadcast to every context), `gpu_query_free` |
| Query Registry, output pool | `GPU.c` 26-229, 332-365 | `Q`, `freeIndex`, `queries[MAX_QUERIES]`, `poolIndex`, `outputs[BUFFER_POOL]`, `context` | `gpu_init`, `gpu_getQuery`, `gpu_free`, `gpu_getOutput`, qid check of every `gpu_*` entry |
| Kernel Binder | `GPU.c` 567-1114 | the kernel arguments bound (constants, buffer handles, local sizes) | `setKernelDummy/Project/Select/Aggregate/Reduce` and their `callback_setKernel*` |
| Host callbacks | `GPU.c` 1116-1162 | none (Java memory) | `callback_writeInput` fills a pinned input, `callback_readOutput` drains a write-only output |
| Device bootstrap | `GPU.c` 49-92 | `platform`, `device`, `context` | `setPlatform`, `setDevice`, `setContext` at the start of `gpu_init`; any error exits |
| Thread affinity | `GPU.c` 1164-1232 | each thread's CPU mask (kernel), static `fullSet` and its `init` flag | `bind`, `unbind`, `getCpuId`, `getNumCores` |
| Benchmark wrappers | `GPU.c` 174-229, 407-565 | none | thin JNI wrappers of `gpu_*` |

### How they interact

The Java side calls JNI entry points (`Java_..._TheGPU_*`), which check the query
id against `Q` and call the Query, which calls its current Execution Context.
The context enqueues non-blocking commands on `queue[0]`; the device executes
them later, in order, concurrently with the host thread. The host thread
synchronises with the device only in `waitFor*Event` (one boundary event per
stage) and `finish`. Host callbacks run on the caller's thread and move data
between Java and the pinned host buffers. Kernel binders run once per kernel
slot and capture the device-buffer handles of the inputs and outputs bound
at that time.

### What is hard

- The host and the device run concurrently: a non-blocking write reads host
  memory when it executes, not when it is enqueued; a drain is correct only if
  the event waited on is the last command it depends on.
- Event bookkeeping: counters count stages, each slot holds one handle; events
  overwritten before release leak, a wait on a released handle is an error.
- No timeouts: a wait on an event that no command signals blocks forever.
- Errors are fatal (`exit`); nothing is persisted, so there is no recovery to
  model: an abort ends every behaviour.
- Setup order: kernel arguments are captured at bind time; slots and query
  ids are range-checked against counts that may not match what was bound.

### Properties that make each component correct

- Context/Query: the Query implements the abstract batch pipeline (each
  execute writes the next context of the ring and returns, eventually, the
  write-only outputs and mark of its own batch); the host never
  overwrites a pinned input under a queued write; every acting wait finds a
  live event; every boundary event is released before its slot is reused;
  a direct transfer moves exactly the requested range; the mark readOutput
  hands Java is the one spec 6 defines.
- Registry: query ids index inside the table; no query or context is released
  twice; an out-of-range request returns the sentinel (spec 7).
- Thread affinity: after bind(c) a thread runs on c only and getCpuId says c;
  after unbind it may run on every online core again.
- Kernel Binder: every bound kernel argument names a buffer slot that exists
  and was bound before the kernel; a failed bind is reported (spec 7);
  tearing a context down releases only what was bound.

## 2. Plan

1. `GpuContext` (done): the Execution Context and the device. Its own `Spec`
   lets any caller drive the API in any order (`MCGpuContext`).
2. `GpuQuery` (done): extends `GpuContext` with the ring and the host thread
   running `execute()`; the core safety and liveness runs.
3. `KernelBinder` (done): the bind protocol (setInput/Output, setKernel per
   operator) with the argument layouts of the callbacks as constant records;
   properties on argument validity, constants bounds and the reported result.
4. `Registry` (done): `gpu_init/getQuery/free` and the qid check of every
   `gpu_*` entry, `freeIndex`, double free and the `Q > MAX_QUERIES` edge.
5. `MarkScan` (done): `readOutput`'s mark scan as RECURSIVE operators
   checked against a non-recursive reference over every small output table.
6. `BatchPipeline` (done): the abstract specification of a Query, which
   `GpuQuery` refines via INSTANCE ... WITH; `gpu_context_free` in
   `KernelBinder` (done).
7. Done: submitTask's dereference of the bound slots in `KernelBinder`
   (the binder composed with the launch), the JNI wrappers' return values
   in `Registry`.
8. Done: the device bootstrap (exit on an OpenCL error in `gpu_init`) and
   the thread-affinity calls, in `Registry`.
9. Later: the move-based execute (moveInput, submitKernel, moveOutput) with
   the output flag layouts; concurrent Java callers on one query; a
   composition of `Registry` with `GpuQuery`.

## 3. Modules

### `GpuContext.tla`

State per context `c` (all variables are functions over `Ctx`):
`hostIn/devIn/devOut/hostOut` hold batch tags (data abstracted to "which batch
this buffer holds"; `Mixed` = computed from inputs of two batches), `batch` is
the batch the host last wrote, `queue` the commands on `queue[0]` (each a record
`op, idx, ev, data, span, want`; `data` is the host tag at enqueue time, `span`
the bytes moved, `want` the bytes requested), `issued` how many of them were
flushed, `writeEvent/readEvent` the slots (`NoEvent`, or an id with state
pending, complete or released), `writeCount/readCount/scheduled` the fields of
the same names, `waiting` the blocking call the host is in, `aborted` process exit.

Actions: one per function of `gpucontext.c` that changes state
(`WriteInput`, `SubmitTask`, `MoveInputBuffers`, `MoveOutputBuffers`,
`SubmitKernel`, `MoveDirectInputBuffers`, `Flush`, `Finish`/`FinishReturn`,
`WaitForReadEvent`/`...Return`, `WaitForWriteEvent`/`...Return`), blocking calls
split into the call and its return. `clWaitForEvents` and `clFinish` flush
first (OpenCL 5.13). A wait whose slot holds a released or unset handle gets an
error and exits (`aborted`). `theSize = end - start` in
`moveDirectInputBuffers` is a pointer difference; its value is a choice from
`PtrGaps`. The device (`DeviceWrite/Exec/Read`) executes the flushed head of a
queue: a write copies host memory as it is at that moment, a kernel computes
the outputs from the device inputs, a read copies a device output to the host;
a command carrying an event completes the slot's event if it is that event.
`queue[1]` is created and flushed but never used, so it is omitted.
The device actions, `Idle` and `Room` model the runtime and bounds, not code,
and are not in the map.

### `GpuQuery.tla`

Extends `GpuContext` with `phase`, `cur`, `pc`, `executed`: one host thread runs
`execute()` as `Switch -> ExecWriteInput -> ExecSubmit -> ExecFlush -> ExecWait
[-> ExecWaitReturn] -> ExecReadOutput`. `Done` is the caller having made its
last call (a terminating stutter, so deadlock is still checked).

`ExecReadOutput` is `gpu_context_readOutput` with `callback_readOutput`:
`delivered` holds, per write-only output, the batch tag of the host copy
handed to Java (other outputs are skipped by the callback), and `markFrom`
the batch of the bears-mark output the mark is scanned from (how the scan
finds the value is `MarkScan`).

Refinement: `Pipeline == INSTANCE BatchPipeline WITH ...` maps the calls
begun to `executed` plus one while a call is past its write, busy to `pc`
outside `idle`/`write`, the ring contents to `batch`, and the returned
result to `Result` (the common tag of the delivered outputs and the mark, or
`Mixed`). `RefinesBatchPipeline == Pipeline!ASpec` is checked as a
PROPERTY; it includes `WF(Return)`, so it also says every execute returns.

Fairness: weak fairness on the host steps inside `execute()` (the thread is
running native code and nothing preempts it for good) and on each context's
device steps (the OpenCL runtime eventually executes flushed commands).
Starting a new `execute()` is not fair: the Java caller may stop.

### `KernelBinder.tla`

One Execution Context's bind state (`gpu_query_set*` repeat every call on
each context of the ring): the counts `nKer/nIn/nOut` fixed at open,
`inputs/outputs` (slot -> how many times it was bound, 0 = the uninitialised
malloc'd pointer), `kernels` (slot -> the handles and constants indices the
callback captured), `ret` and `lastOp` (what the last `setKernel*` returned),
`fault` (a failed `clSetKernelArg` exits). `SetInput/SetOutput` are
`gpu_context_setInput/Output` (silent return out of range, rebinding replaces
without release); `SetKernel(op, argc)` is a whole `Java_..._setKernel<Op>`:
the constants-length check, then `gpu_context_setKernel` on each of the
operator's slots (silent skip out of range) with the callback's layout
(`DummyLayout` ... `AggregateLayout`, one per `callback_setKernel*`). A
callback reading an unbound or out-of-table slot is undefined behaviour: the
model lets `clSetKernelArg` either fail (exit) or accept it. `MCKernelBinder`
adds `ProtocolSpec`, the caller discipline of spec 3 (bind each buffer once,
then the kernel) with the counts of spec 4.3: aggregate is opened with 7 or
8 outputs, since the partition ids are optional (`SpecCounts`).

`ContextFree` is `gpu_context_free`: it releases every input, output and
kernel slot below the counts (`FreedSlots`); if one of them was never bound
the pointer is uninitialised (`FreesGarbage`) and, as undefined behaviour,
the process may crash (`fault = "free"`) or carry on. In `ProtocolSpec` the
teardown comes after every buffer is bound; a kernel may still be unbound,
because a `setKernel*` returned the configuration-error sentinel (spec 7
lets the process continue) or was not called yet.

`SubmitTask` is the part of `gpu_context_submitTask` that touches the bind
state: its write, kernel and read loops dereference every slot below the
counts (`SubmittedSlots`); a garbage pointer may make the enqueue exit
(`fault = "submit"`) or go through (`tasks` counts the calls, up to
`MaxTasks`). What the submitted commands do on the device is `GpuContext`.
In `ProtocolSpec` execute is called once a `setKernel*` returned 0.

### `BatchPipeline.tla`

The abstract Query of spec 4.2/8: `aCalls`, `aBusy`, `aBatch` (context ->
tag of its last batch), `aOut`. `Begin` puts a new tag into context
`aCalls mod Depth`; `Return` returns that context's tag. `ASpec` has weak
fairness on `Return`. It is not in the map: it states what the code
promises, not what it does.

### `MarkScan.tla`

`ScanBack` is the inner loop of `gpu_context_readOutput` (from the last int
backwards to the first non-zero value), `MarkOf` one output's scan,
`FindMark` the outer loop over the outputs (a flagged output whose scan
finds 0 keeps the earlier mark), `ReadOutput` what reaches Java. Every table
of one or two outputs of up to three ints over {0,1,2}, with at most one
bears-mark output (spec 3), is an initial state; `MarkMatchesReference`
compares with `MarkRef`, spec 6 stated without recursion.

### `Registry.tla`

The globals of GPU.c: `Q`, `freeIndex`, `queries` (slot -> null/live/freed),
`frees` (how often `gpu_query_free` ran on a slot), `outputs` (pool),
`context` and `ctxReleases`, `fault` (the way the process died) and `last`
(the last qid-taking JNI call: its entry point, whether the qid check
rejected it, what Java got back). Actions: `GpuInit(n)`, `GetQuery`,
`QueryCall(entry, qid)` (the qid check shared by `gpu_setInput/Output/Kernel`,
`gpu_exec`, `gpu_custom_exec` and the test/copy/move entries, and the JNI
wrapper's return: `ReportingWrappers` (setInput, setOutput) pass on what
gpu_* returned, `SilentWrappers` (setKernel*, execute, executeCustom,
test/copy/move) return 0 whatever it was, `JniReturn`), `GetOutput(ndx)`
(with the JNI wrapper's dereference) and `GpuFree`. `GpuInit` first runs
the bootstrap: an error of `clGetPlatformIDs`, `clGetDeviceIDs` or
`clCreateContext` exits (`fault = "bootstrap_exit"`) before any global is
reset; otherwise it resets them (a second init creates a new context without
releasing the old one).

The thread-affinity part: `affinity` (thread -> the mask the kernel keeps,
the requested one cut to the online `Cores`), `bound` (ghost: the core of
the thread's last successful bind, `NoCore` after unbind), and getFullSet's
statics `fullSetInit`, `fullSet`. `Bind(t, core)` sets the one-core mask
(`CPU_SET` ignores a core outside `[0, CPU_SETSIZE)`, `SetSize`), and
`sched_setaffinity` refuses (EINVAL) a mask without an online core, leaving
the old one; `Unbind(t)` computes `GetFullSet` (cores `0..ncores-1`) on its
first call only and sets that mask; `CpuId(t)` is getCpuId's scan for the
lowest core of the mask (a read: no action). `getNumCores` only reads
sysconf: it is `Cardinality(Cores)`. Registry actions leave the affinity
state alone and the affinity calls leave the registry alone. `Entries` picks the
wrappers a run calls: one of each kind. Any Java thread may call any entry in any order.

## 4. Runs

| Run | Module / cfg | Expect | What it shows |
|---|---|---|---|
| `query_execute` | `MCGpuQuery` / `MCGpuQuery.cfg` | pass | 9 executes over 3 contexts (each context used 3 times), 2 inputs, 2 kernels, 3 outputs (a scratch one, then two write-only, the last bearing the mark), the device interleaved arbitrarily: `RefinesBatchPipeline` (each call returns its own batch), `NoHostWriteInFlight`, `WaitTargetsLiveEvent` hold |
| `mark_scan` | `MarkScan` / `MCMarkScan.cfg` | pass | `MarkMatchesReference` over all 19360 small output tables |
| `query_event_leak` | `MCGpuQuery` / `MCGpuQueryLeak.cfg` | violation | `NoEventLeak`: the second submit on a context overwrites an unreleased `write_event` |
| `context_wait_counts` | `MCGpuContext` / `MCGpuContextEvents.cfg` | violation | `WaitTargetsLiveEvent` under free use of the API: two moves, one wait |
| `direct_transfer_span` | `MCGpuContext` / `MCGpuContextDirect.cfg` | violation | `DirectTransferExact`: the size enqueued is the pointer gap |
| `binder_aggregate_outputs` | `MCKernelBinder` / `MCKernelBinder.cfg` | violation | `KernelArgsLive`: every operator opened with the counts of spec 4.3 and bound in the spec 3 discipline; aggregate with 7 outputs (no partition ids) gets a kernel argument from `outputs[7]`, past the table (`GPU.c:1104`) |
| `binder_free_order` | `MCKernelBinder` / `MCKernelBinderFree.cfg` | pass | any call order and constants lengths: callbacks read constants only inside the checked array (`ConstantsWithinArray`) |
| `binder_missing_slot` | `MCKernelBinder` / `MCKernelBinderSlots.cfg` | violation | `BindReportsFailure`: setKernelSelect on a one-slot query skips compact and returns 0 |
| `registry_ids` | `MCRegistry` / `MCRegistry.cfg` | pass | with N <= MAX_QUERIES, no store outside `queries[]` and the table holds only ids issued since the last init (`NoStoreOutsideTable`, `TableHoldsIssuedIds`); two threads calling bind (with negative, online, offline and out-of-set cores) and unbind in any order: each thread's mask and getCpuId follow its last successful bind or unbind (`AffinityFollowsBinding`) |
| `registry_query_overflow` | `MCRegistry` / `MCRegistryOverflow.cfg` | violation | `NoStoreOutsideTable` with init(3) on a table of 2 |
| `registry_double_free` | `MCRegistry` / `MCRegistryFree.cfg` | violation | `ReleasedOnce`: a second teardown releases the context again |
| `registry_silent_rejection` | `MCRegistry` / `MCRegistrySentinel.cfg` | violation | `RejectionReported`: execute with a qid the check rejects returns 0 to Java, not the sentinel of spec 7 |

More configurations reproduce defects and are not in the run list, which
holds at most twelve runs. `MCKernelBinderTeardown.cfg` keeps the spec 3
discipline: with every buffer bound, a teardown before any `setKernel*`
succeeded (after one returned -1 for a constants array of the wrong length,
or before one was called) makes `TeardownReleasesBound` fail, because
`gpu_context_free` releases the uninitialised kernel pointers. Two need a
caller breaking the discipline: `MCKernelBinderOrder.cfg` (`KernelArgsLive`
fails when a kernel is bound before its buffers: the callback copies
uninitialised handles) and
`MCRegistryCalls.cfg` (`CallsReachLiveQuery` fails for a qid below Q not yet
returned by getQuery, which is dereferenced as NULL). `MCRegistryAffinity.cfg`
reproduces an environment defect rather than a caller's: with cores 0 and 2
online, getFullSet builds {0, 1}, so the first unbind leaves core 2 out of
the thread's mask and `AffinityFollowsBinding` fails.

Bounds: `query_execute` uses three contexts so the ring wraps with a
context in between (an off-by-one in the switch lands on a live context, not
back on the same one); three uses per context with batch tags counted modulo
`TagMod = 4` make a tag repeat only on a context whose stale data has been
overwritten; two inputs let a kernel see a mix of two batches; three
outputs (a scratch output the host does not drain, then two write-only
ones, the last bearing the mark and the read event) let a read event sit on
a non-last read and let the drain skip an output. `query_event_leak` keeps
the two-context ring, where the leak shows soonest. The free-API runs
use `CHECK_DEADLOCK FALSE` because an `exit` ends the process for real.
Registry: two query slots and one pool slot, with ids one past each end on
both sides, are the smallest tables where an off-by-one can show; three
getQuery calls per init let freeIndex pass Q. Two threads and two online
cores with core arguments -1..3 and `SetSize = 3` reach every bind outcome
(negative, online, offline, equal to CPU_SETSIZE) and let one thread's
unbind fill the cached fullSet that the other's later unbind reuses. MarkScan: three ints hold a
non-zero value before, at and after a zero; two outputs let a flagged one
come before or after an unflagged one. KernelBinder: the protocol run
opens every operator with its spec counts (up to 5 inputs and 7 or 8 outputs
for aggregate), the free-order runs use the small operators with up to two binds
per slot so rebinding happens.

Every passing property has a mutant in `PROJECT.json`, a plausible bug
(a dropped reset, an off-by-one range check, an event on the wrong command)
that TLC catches under the run's own configuration.

## 5. Not modelled (yet) and why

- Device errors after bootstrap: every failing OpenCL call exits; the process
  ends and nothing is persisted, so the safety properties over the prefix are
  unaffected. (The bootstrap exit is modelled in `GpuInit`.)
- The data race of two threads making the first unbind at once on getFullSet's
  static `init`/`fullSet`: both write the same set, so the model's atomic
  `Unbind` gives the same results. CPU hotplug after the first unbind is the
  stale-cache case that `MCRegistryAffinity.cfg` already shows.
- Data values and kernel bodies: out of scope (spec 1); only batch identity is
  kept.
- `callback_setKernelAggrScan/AggrMerge`: referenced only from commented-out
  code.
- The move-based execute and concurrent callers on one query: the
  functions that would drive them (`gpu_query_moveInputBuffers`,
  `gpu_query_moveOutputBuffers`, `gpu_query_exec`, `gpu_context_switch`) have
  no body in the repository, and the spec neither fixes the order of the
  move calls nor the output flags they are used with, and makes concurrent
  callers on one query the caller's problem (spec 5). `moveInputBuffers`,
  `submitKernel` and `moveOutputBuffers` themselves are actions of
  `GpuContext` and reachable in its free-API runs. The benchmark JNI
  wrappers are modelled only as far as the repository has them (their qid
  check and return value).
- `GPU_PROFILE` code (event profiling printouts) and the debug output:
  logging only.
- The composition of Registry with the Query: see the plan (item 9).
- Tables with two bears-mark outputs: spec 3 designates one; the code keeps
  the last non-zero scan.
