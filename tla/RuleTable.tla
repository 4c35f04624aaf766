------------------------------ MODULE RuleTable ------------------------------
(***************************************************************************)
(* What the command line tool promises about the rules, with none of the   *)
(* ways it goes about them: a bounded set of sources, and for every CPU a  *)
(* table of port rules.  A command changes one rule of one port; the       *)
(* change comes to the CPUs one by one, in any order, to each of them once *)
(* and in one step, and it touches no other rule.                          *)
(***************************************************************************)
EXTENDS Naturals, FiniteSets

CONSTANTS CPUs, Tools, Srcs, Ports, Filters, MaxEntries

VARIABLES
  sources,   \* the blacklisted sources
  rules,     \* rules[c][q]: the filters CPU c applies to port q
  change     \* change[t]: the change t is spreading, if any

table == <<sources, rules, change>>

Rule    == [add : BOOLEAN, port : Ports, filter : Filters]
None    == [left |-> {}]
Changes == {None} \cup [rule : Rule, left : SUBSET CPUs \ {{}}]

Init ==
  /\ sources = {}
  /\ rules   = [c \in CPUs |-> [q \in Ports |-> {}]]
  /\ change  = [t \in Tools |-> None]

AddSource(s) ==
  /\ s \notin sources /\ Cardinality(sources) < MaxEntries
  /\ sources' = sources \cup {s}
  /\ UNCHANGED <<rules, change>>

DeleteSource(s) ==
  /\ sources' = sources \ {s}
  /\ UNCHANGED <<rules, change>>

\* Changes of the same port do not overlap.
Begin(t, r) ==
  /\ change[t] = None
  /\ \A u \in Tools : change[u] # None => change[u].rule.port # r.port
  /\ change' = [change EXCEPT ![t] = [rule |-> r, left |-> CPUs]]
  /\ UNCHANGED <<sources, rules>>

Applied(r, filters) == IF r.add THEN filters \cup {r.filter} ELSE filters \ {r.filter}

Reach(t, c) ==
  /\ c \in change[t].left
  /\ LET r    == change[t].rule
         left == change[t].left \ {c}
     IN  /\ rules'  = [rules EXCEPT ![c][r.port] = Applied(r, @)]
         /\ change' = [change EXCEPT ![t] = IF left = {} THEN None
                                            ELSE [rule |-> r, left |-> left]]
  /\ UNCHANGED sources

Next ==
  \/ \E s \in Srcs : AddSource(s) \/ DeleteSource(s)
  \/ \E t \in Tools : (\E r \in Rule : Begin(t, r)) \/ (\E c \in CPUs : Reach(t, c))

\* A change that has begun comes to every CPU.
Fairness == \A t \in Tools : WF_table(\E c \in CPUs : Reach(t, c))

SafeSpec == Init /\ [][Next]_table
Spec     == SafeSpec /\ Fairness
=============================================================================
