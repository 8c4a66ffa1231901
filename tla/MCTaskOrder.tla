----------------------------- MODULE MCTaskOrder -----------------------------
(***************************************************************************)
(* The abstract task order with accesses to one or two I/O resources.      *)
(***************************************************************************)
EXTENDS TaskOrder, Access

MCKind == [r \in Resource |-> "io"]
MCScopeLevel == [r \in Resource |-> 0]

MCAccessList ==
  {{[res |-> "a", policy |-> "write"]}, {[res |-> "a", policy |-> "read"]},
   {[res |-> "a", policy |-> "write"], [res |-> "b", policy |-> "read"]}}

MCSuperset(l, k) == ListSuperset(l, 0, k)
=============================================================================
