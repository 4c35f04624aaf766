------------------------------ MODULE PerfQueue ------------------------------
(***************************************************************************)
(* What bpf_perf_event_read_simple (libbpf.c:2268) promises its callback:  *)
(* every ring is a queue.  The kernel appends whole records, the callback  *)
(* is handed the oldest one, and a record is taken off when it has been    *)
(* accepted; a refused one stays where it is.                              *)
(***************************************************************************)
EXTENDS Sequences, SequencesExt

CONSTANT Rings

VARIABLES queue,     \* per ring, the records not accepted yet
          handed     \* per ring, the records the callback accepted

vars == <<queue, handed>>

Init == /\ queue  = [r \in Rings |-> <<>>]
        /\ handed = [r \in Rings |-> <<>>]

\* One output appends a record, and before it the report of those lost.
Output(r) ==
  /\ queue' = [queue EXCEPT ![r] = queue'[r]]
  /\ IsStrictPrefix(queue[r], queue'[r])
  /\ UNCHANGED handed

HandOver(r) ==
  /\ queue[r] # <<>>
  /\ handed' = [handed EXCEPT ![r] = Append(@, Head(queue[r]))]
  /\ queue'  = [queue EXCEPT ![r] = Tail(@)]

Next == \E r \in Rings : Output(r) \/ HandOver(r)

Spec == Init /\ [][Next]_vars
=============================================================================
