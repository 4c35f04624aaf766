------------------------------ MODULE XdpRules ------------------------------
(***************************************************************************)
(* XdpBlacklist implements RuleTable, as long as overlapping invocations   *)
(* name different ports.  The lookup of a port's slots, the change of the  *)
(* tool's copy and the writing back of whole slots come out as the change  *)
(* of one rule, CPU by CPU; refused command lines come out as nothing.     *)
(***************************************************************************)
EXTENDS XdpBlacklist

\* The change t is spreading: from the lookup of the slots to the last write.
Spreading(t) ==
  IF tpc[t] \in {"read", "write"}
  THEN [rule |-> [add |-> op[t].act = {"ADD"}, port |-> op[t].port, filter |-> op[t].proto],
        left |-> IF tpc[t] = "read" THEN CPUs ELSE todo[t]]
  ELSE [left |-> {}]

RT == INSTANCE RuleTable WITH
        Filters <- Protos, sources <- present, rules <- flags,
        change <- [t \in Tools |-> Spreading(t)]

\* The tool keeps the rules as RuleTable describes them: no source beyond
\* max_entries; an update of a port (common.h:152 to 168) changes its own rule
\* alone, on every CPU, once, and comes to its end.
ImplementsRuleTable == RT!Spec
=============================================================================
