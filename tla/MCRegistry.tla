---------------------------- MODULE MCRegistry ------------------------------
(* A table of two query slots and a pool of one output buffer; the Java    *)
(* side passes ids one outside each range on either side.  Two threads,   *)
(* two online cores and a CPU_SETSIZE of 3 for the affinity calls.        *)
EXTENDS Registry

MCQids    == -1..2
MCPoolIdx == -1..1
MCEntries == {"setInput", "execute"}   \* one reporting, one silent wrapper
MCCoreArgs == -1..3   \* negative, online, offline, and CPU_SETSIZE itself
=============================================================================
