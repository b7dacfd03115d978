------------------------------ MODULE Registry ------------------------------
(***************************************************************************)
(* The Query Registry and output-buffer pool of GPU.c: the globals Q,      *)
(* freeIndex, queries[MAX_QUERIES], outputs[BUFFER_POOL] and the OpenCL    *)
(* context, and the entry points that read and write them (gpu_init,      *)
(* gpu_getQuery, gpu_free, gpu_getOutput and the qid check of gpu_setInput, *)
(* gpu_setOutput, gpu_setKernel, gpu_exec, gpu_custom_exec).  What a call  *)
(* does once it reaches a live query is the business of GpuQuery.          *)
(* A query slot is "null", "live" (gpu_query_new) or "freed"               *)
(* (gpu_query_free ran; the pointer is left in the table).  A segfault or  *)
(* an access outside a static array ends the process: `fault`.            *)
(* gpu_init's bootstrap (setPlatform, setDevice, setContext) and the       *)
(* thread-affinity entry points (bind, unbind with the static fullSet,     *)
(* getCpuId) are the other process-wide state of GPU.c, and are here too.  *)
(***************************************************************************)
EXTENDS Integers, FiniteSets

CONSTANTS
  MaxQueries,  \* MAX_QUERIES
  BufferPool,  \* BUFFER_POOL
  Requests,    \* the N values the Java side may pass to init(N)
  Qids,        \* the query ids the Java side may pass
  Entries,     \* the JNI entry points taking a qid the Java side may call
  PoolIdx,     \* the pool indices the Java side may pass
  MaxCalls,    \* bound on getQuery calls between two inits (model bound)
  MaxFrees,    \* bound on gpu_query_free per slot (model bound)
  Threads,     \* the Java threads calling bind / unbind / getCpuId
  Cores,       \* the cores online (sysconf(_SC_NPROCESSORS_ONLN) of them)
  CoreArgs,    \* the core numbers Java may pass to bind
  SetSize      \* CPU_SETSIZE

VARIABLES
  Q,           \* number of queries requested at init
  freeIndex,   \* next id gpu_getQuery hands out
  queries,     \* query slot -> "null" | "live" | "freed"
  frees,       \* query slot -> times gpu_query_free ran on it
  outputs,     \* pool slot -> "null" | "pinned"
  context,     \* the cl_context: "none" | "live" | "released"
  ctxReleases, \* clReleaseContext calls on the current context
  fault,       \* "none" or how the process died
  last,        \* the last qid-taking JNI call: entry, rejected, what it returned
  affinity,    \* thread -> the CPU mask sched_setaffinity last accepted for it
  bound,       \* thread -> the core a bind that returned 0 pinned it to, or NoCore
  fullSetInit, \* the static `init` flag of getFullSet
  fullSet      \* the static cpu_set_t fullSet

regVars == <<Q, freeIndex, queries, frees, outputs, context, ctxReleases, fault, last>>
affVars == <<affinity, bound, fullSetInit, fullSet>>
vars == <<regVars, affVars>>

Slots == 0..(MaxQueries - 1)
Pool  == 0..(BufferPool - 1)
Faults == {"none", "null_deref", "use_after_free", "oob_read", "oob_write",
           "pool_null", "bootstrap_exit"}

Running == fault = "none"

(* Java_..._setInput__* and setOutput__*: return what gpu_setInput /      *)
(* gpu_setOutput returned.                                                *)
ReportingWrappers == {"setInput", "setOutput"}

(* Java_..._setKernel*, execute, executeCustom and the test/copy/move     *)
(* wrappers: call gpu_* and return 0 whatever it returned.                *)
SilentWrappers ==
  {"setKernel", "execute", "executeCustom", "testOverlap", "testJNIDataMovement",
   "testDataMovement", "copyInputBuffers", "copyOutputBuffers",
   "moveInputBuffers", "moveOutputBuffers", "moveInputAndOutputBuffers"}

ASSUME Entries \subseteq ReportingWrappers \cup SilentWrappers

(* What Java receives from a wrapper whose gpu_* call returned r. *)
JniReturn(entry, r) == IF entry \in SilentWrappers THEN 0 ELSE r

NoCall == [entry |-> "none", rejected |-> FALSE, ret |-> 0]
NoCore == -1

(* Static storage starts zeroed: Q = 0 and every pointer NULL. *)
Init ==
  /\ Q = 0 /\ freeIndex = 0
  /\ queries = [i \in Slots |-> "null"]
  /\ frees = [i \in Slots |-> 0]
  /\ outputs = [i \in Pool |-> "null"]
  /\ context = "none" /\ ctxReleases = 0
  /\ fault = "none" /\ last = NoCall
  /\ affinity = [t \in Threads |-> Cores] /\ bound = [t \in Threads |-> NoCore]
  /\ fullSetInit = FALSE /\ fullSet = {}

(* Mutant of gpu_init: the query table is not reset. *)
GpuInitNoReset(n) ==
  /\ Running
  /\ Q' = n /\ freeIndex' = 0
  /\ outputs' = [i \in Pool |-> "null"]
  /\ context' = "live" /\ ctxReleases' = 0
  /\ UNCHANGED <<queries, frees, fault, last>>

(* gpu_init: a new context; every slot of both tables set to NULL (the   *)
(* queries of an earlier init are dropped, not freed).                   *)
(* setPlatform, setDevice and setContext come first: clGetPlatformIDs,   *)
(* clGetDeviceIDs or clCreateContext failing makes the process exit.     *)
GpuInit(n) ==
  /\ Running
  /\ \/ /\ fault' = "bootstrap_exit"
        /\ UNCHANGED <<Q, freeIndex, queries, frees, outputs, context,
                       ctxReleases, last>>
     \/ /\ Q' = n /\ freeIndex' = 0
        /\ queries' = [i \in Slots |-> "null"]
        /\ frees' = [i \in Slots |-> 0]
        /\ outputs' = [i \in Pool |-> "null"]
        /\ context' = "live" /\ ctxReleases' = 0
        /\ UNCHANGED <<fault, last>>

(* Mutant of the range check of gpu_getQuery: ndx > Q for ndx >= Q. *)
GetQueryRejectsOffByOne(ndx) == ndx < 0 \/ ndx > Q

GetQueryRejects(ndx) == ndx < 0 \/ ndx >= Q

(* gpu_getQuery: freeIndex is advanced before the check, so a rejected   *)
(* call still consumes an id; the id is checked against Q only, and a Q  *)
(* above MAX_QUERIES stores past the end of queries[].                   *)
GetQuery ==
  /\ Running /\ freeIndex < MaxCalls
  /\ LET ndx == freeIndex IN
       /\ freeIndex' = freeIndex + 1
       /\ \/ /\ GetQueryRejects(ndx)
             /\ UNCHANGED <<queries, fault>>
          \/ /\ ~GetQueryRejects(ndx) /\ ndx \in Slots
             /\ queries' = [queries EXCEPT ![ndx] = "live"]
             /\ UNCHANGED fault
          \/ /\ ~GetQueryRejects(ndx) /\ ndx \notin Slots
             /\ fault' = "oob_write"
             /\ UNCHANGED queries
  /\ UNCHANGED <<Q, frees, outputs, context, ctxReleases, last>>

(* What dereferencing queries[qid] does once qid passed the check. *)
Deref(qid) ==
  CASE qid \notin Slots           -> "oob_read"
    [] queries[qid] = "null"      -> "null_deref"
    [] queries[qid] = "freed"     -> "use_after_free"
    [] OTHER                      -> "none"

(* A JNI wrapper calling gpu_setInput, gpu_setOutput, gpu_setKernel,     *)
(* gpu_exec, gpu_custom_exec or a test/copy/move entry point: a qid       *)
(* outside [0, Q) makes gpu_* return -1; otherwise queries[qid] is passed *)
(* on to the gpu_query_* call without a NULL check (a live query's call  *)
(* is taken to return 0).                                                  *)
QueryCall(entry, qid) ==
  /\ Running
  /\ \/ /\ qid < 0 \/ qid >= Q
        /\ last' = [entry |-> entry, rejected |-> TRUE, ret |-> JniReturn(entry, -1)]
        /\ UNCHANGED fault
     \/ /\ 0 <= qid /\ qid < Q
        /\ fault' = Deref(qid)
        /\ last' = [entry |-> entry, rejected |-> FALSE, ret |-> JniReturn(entry, 0)]
  /\ UNCHANGED <<Q, freeIndex, queries, frees, outputs, context, ctxReleases>>

(* gpu_getOutput and getBufferAddress__II: an index outside the pool      *)
(* returns NULL, whose pinned_buffer the JNI wrapper then reads.  A pinned *)
(* slot is re-pinned without releasing the old buffer.                     *)
GetOutput(ndx) ==
  /\ Running
  /\ \/ /\ ndx \in Pool
        /\ outputs' = [outputs EXCEPT ![ndx] = "pinned"]
        /\ UNCHANGED fault
     \/ /\ ndx \notin Pool
        /\ fault' = "pool_null"
        /\ UNCHANGED outputs
  /\ UNCHANGED <<Q, freeIndex, queries, frees, context, ctxReleases, last>>

(* gpu_free: gpu_query_free on every non-NULL slot and clReleaseContext   *)
(* on a non-NULL context; neither pointer is cleared afterwards.          *)
GpuFree ==
  /\ Running
  /\ \A i \in Slots : frees[i] < MaxFrees
  /\ ctxReleases < MaxFrees
  /\ queries' = [i \in Slots |-> IF queries[i] = "null" THEN "null" ELSE "freed"]
  /\ frees' = [i \in Slots |-> IF queries[i] = "null" THEN frees[i]
                                                       ELSE frees[i] + 1]
  /\ context' = IF context = "none" THEN "none" ELSE "released"
  /\ ctxReleases' = IF context = "none" THEN ctxReleases ELSE ctxReleases + 1
  /\ UNCHANGED <<Q, freeIndex, outputs, fault, last>>

-----------------------------------------------------------------------------
(* Thread affinity.  sched_setaffinity(0, ...) sets the calling thread's  *)
(* mask; it fails with -1 (EINVAL) and leaves the mask as it was when the *)
(* mask holds no online core; the mask the kernel keeps, and that         *)
(* sched_getaffinity reads back, is the requested one cut to online cores. *)

(* Mutant of GetFullSet: the loop stops one core early. *)
GetFullSetShort == 0..(Cardinality(Cores) - 2)

(* getFullSet: on the first call, the cores 0 .. ncores-1, ncores being  *)
(* the number of cores online; cached in the static fullSet after that.   *)
GetFullSet == 0..(Cardinality(Cores) - 1)

(* Java_..._bind: a mask of the one core; CPU_SET ignores a core outside  *)
(* [0, CPU_SETSIZE), leaving the mask empty.                               *)
Bind(t, core) ==
  LET mask == IF 0 <= core /\ core < SetSize THEN {core} ELSE {} IN
  /\ Running
  /\ \/ /\ mask \cap Cores # {}
        /\ affinity' = [affinity EXCEPT ![t] = mask \cap Cores]
        /\ bound' = [bound EXCEPT ![t] = core]
     \/ /\ mask \cap Cores = {}
        /\ UNCHANGED <<affinity, bound>>
  /\ UNCHANGED <<fullSetInit, fullSet>>

(* Java_..._unbind: sched_setaffinity with getFullSet(). *)
Unbind(t) ==
  LET mask == IF fullSetInit THEN fullSet ELSE GetFullSet IN
  /\ Running
  /\ fullSetInit' = TRUE /\ fullSet' = mask
  /\ \/ /\ mask \cap Cores # {}
        /\ affinity' = [affinity EXCEPT ![t] = mask \cap Cores]
        /\ bound' = [bound EXCEPT ![t] = NoCore]
     \/ /\ mask \cap Cores = {}
        /\ UNCHANGED <<affinity, bound>>

(* Java_..._getCpuId: the first core of the thread's mask, scanning       *)
(* 0 .. CPU_SETSIZE - 1 (CPU_SETSIZE if none); it changes no state.       *)
CpuId(t) ==
  LET in == {c \in 0..(SetSize - 1) : c \in affinity[t]} IN
  IF in = {} THEN SetSize ELSE CHOOSE c \in in : \A d \in in : c <= d

(* Any Java thread may call any entry point in any order. *)
Next ==
  \/ /\ \/ \E n \in Requests : GpuInit(n)
        \/ GetQuery
        \/ \E entry \in Entries, qid \in Qids : QueryCall(entry, qid)
        \/ \E ndx \in PoolIdx : GetOutput(ndx)
        \/ GpuFree
     /\ UNCHANGED affVars
  \/ /\ \E t \in Threads : \/ \E core \in CoreArgs : Bind(t, core)
                           \/ Unbind(t)
     /\ UNCHANGED regVars

Spec == Init /\ [][Next]_vars

-----------------------------------------------------------------------------
(* gpu_getQuery never stores a query outside queries[]: the id it hands    *)
(* out is below both Q and MAX_QUERIES.                                     *)
NoStoreOutsideTable == fault # "oob_write"

(* Every query in the table was handed out by gpu_getQuery since the last  *)
(* gpu_init: its id is below freeIndex and below Q.                         *)
TableHoldsIssuedIds ==
  \A i \in Slots : queries[i] # "null" => i < freeIndex /\ i < Q

(* No query is released twice and the context is released at most once   *)
(* (spec 8: freeing twice must not double-release).                         *)
ReleasedOnce ==
  /\ \A i \in Slots : frees[i] <= 1
  /\ ctxReleases <= 1

(* A call whose qid passes the range check reaches a live query: a        *)
(* configuration error returns the sentinel and the process continues     *)
(* (spec 7).                                                                *)
CallsReachLiveQuery == fault \notin {"null_deref", "use_after_free", "oob_read"}

(* Spec 6/7: a request a range check rejects reaches Java as a negative   *)
(* sentinel: a rejected qid whichever JNI entry point it came through,   *)
(* and a pool index gpu_getOutput refuses (NULL) without the wrapper     *)
(* dereferencing it.                                                     *)
RejectionReported ==
  /\ last.rejected => last.ret < 0
  /\ fault # "pool_null"

(* A thread that unbind released can run on every online core again, and *)
(* getCpuId then reports the lowest of them; a thread bind pinned runs    *)
(* only on its core, which getCpuId reports.                               *)
AffinityFollowsBinding ==
  \A t \in Threads :
    IF bound[t] = NoCore
    THEN Cores \subseteq affinity[t] /\ CpuId(t) = CHOOSE c \in Cores : \A d \in Cores : c <= d
    ELSE affinity[t] = {bound[t]} /\ CpuId(t) = bound[t]
=============================================================================
