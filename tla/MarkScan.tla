------------------------------ MODULE MarkScan ------------------------------
(***************************************************************************)
(* The mark of gpu_context_readOutput: the loop over the outputs that bear *)
(* a mark, each scanned from its last int backwards for the first non-zero *)
(* value, and the drain that hands every output and the mark to            *)
(* callback_readOutput, which copies only the write-only ones.  An output  *)
(* is a record [writeOnly, bearsMark, values], `values` the ints of its    *)
(* mapped host buffer (size / sizeof(int) of them).                         *)
(***************************************************************************)
EXTENDS Integers, Sequences, FiniteSets

CONSTANTS
  Vals,      \* the ints a buffer may hold
  MaxLen,    \* ints per buffer, at most
  MaxOuts    \* outputs per context, at most

VARIABLE outs   \* the kernelOutput table of the context being drained

(* The inner loop: for (j = N - 1; j >= 0; j--) if (values[j] != 0) ... *)
RECURSIVE ScanBack(_, _)
ScanBack(values, j) ==
  IF j < 1 THEN 0
  ELSE IF values[j] # 0 THEN values[j] ELSE ScanBack(values, j - 1)

(* Mutant of MarkOf: the scan starts one before the last int. *)
MarkOfOffByOne(values) == ScanBack(values, Len(values) - 1)

(* The scan of one bears-mark buffer, from its last int; 0 if none. *)
MarkOf(values) == ScanBack(values, Len(values))

(* The outer loop: mark starts at 0 and a bears-mark output whose scan    *)
(* finds a non-zero value overwrites it; a later output all zeros leaves  *)
(* the earlier mark in place.                                              *)
RECURSIVE FindMark(_, _, _)
FindMark(os, idx, mark) ==
  IF idx > Len(os) THEN mark
  ELSE FindMark(os, idx + 1,
                IF os[idx].bearsMark /\ MarkOf(os[idx].values) # 0
                THEN MarkOf(os[idx].values) ELSE mark)

(* gpu_context_readOutput: what reaches Java, one callback per output:   *)
(* the write-only buffers and the mark.                                   *)
ReadOutput(os) ==
  [delivered |-> {idx \in 1..Len(os) : os[idx].writeOnly},
   mark      |-> FindMark(os, 1, 0)]

-----------------------------------------------------------------------------
(* Spec 6: the mark is the first non-zero int found scanning the           *)
(* designated bears-mark output from its last element backward.           *)
LastNonZero(v) ==
  LET nz == {j \in DOMAIN v : v[j] # 0} IN
  IF nz = {} THEN 0 ELSE v[CHOOSE j \in nz : \A k \in nz : k <= j]

MarkRef(os) ==
  LET marked == {idx \in 1..Len(os) : os[idx].bearsMark} IN
  IF marked = {} THEN 0 ELSE LastNonZero(os[CHOOSE idx \in marked : TRUE].values)

Buffers == UNION {[1..n -> Vals] : n \in 0..MaxLen}

Output == [writeOnly : BOOLEAN, bearsMark : BOOLEAN, values : Buffers]

(* Output tables with at most one designated bears-mark buffer (spec 3). *)
Tables ==
  {os \in UNION {[1..n -> Output] : n \in 1..MaxOuts} :
     Cardinality({idx \in 1..Len(os) : os[idx].bearsMark}) <= 1}

Init == outs \in Tables
Next == UNCHANGED outs
Spec == Init /\ [][Next]_outs

(* readOutput hands Java the mark spec 6 defines, for every table with at  *)
(* most one bears-mark output.                                              *)
MarkMatchesReference == ReadOutput(outs).mark = MarkRef(outs)
=============================================================================
