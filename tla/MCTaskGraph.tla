----------------------------- MODULE MCTaskGraph -----------------------------
(***************************************************************************)
(* Small instances of TaskGraph with I/O resources.                        *)
(***************************************************************************)
EXTENDS TaskGraph, TLC

CONSTANTS w1, w2

MCKind == [r \in Resource |-> "io"]
MCScopeLevel == [r \in Resource |-> 0]

Acc(r, m) == [res |-> r, policy |-> m]

\* A task may read or write a resource, or name it in two arguments, as
\* test/resource_user.cpp does.
TwiceSeqs == {<<Acc("a", "read")>>, <<Acc("a", "write")>>,
              <<Acc("a", "read"), Acc("a", "write")>>}

\* Bound: a program that has a task with a resource in two arguments stops at
\* ShortProgram tasks, the others go on to MaxTask.
ShortProgram == 2

NamesTwice(t) ==
  /\ life[t] # "unborn"
  /\ \E i, j \in DOMAIN access[t] : i # j /\ access[t][i].res = access[t][j].res

TwiceIsShort ==
  (\E t \in Task : NamesTwice(t)) =>
    Cardinality({t \in Task : life[t] # "unborn"}) <= ShortProgram

\* Two resources: a task may use both, one of them, or one of them twice.
MixedSeqs == {<<Acc("a", "write"), Acc("b", "write")>>, <<Acc("b", "read")>>,
              <<Acc("a", "read"), Acc("a", "write")>>}

Symmetry == Permutations(Worker)
=============================================================================
