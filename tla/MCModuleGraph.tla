--------------------------- MODULE MCModuleGraph ---------------------------
(***************************************************************************)
(* Model checking ModuleGraph on every graph over the modules, against a   *)
(* reference definition of a cycle.                                        *)
(***************************************************************************)
EXTENDS ModuleGraph

\* Reference: modules reached by following imports at least once.
RECURSIVE Reach(_, _)
Reach(set, steps) ==
  LET next == set \cup UNION {imports[m] : m \in set}
  IN IF steps = 0 THEN set ELSE Reach(next, steps - 1)
OnCycle(m) == m \in Reach(imports[m], Cardinality(Module))

\* A graph is refused exactly when some module imports itself by some way.
RefusedIffCyclic ==
  /\ phase = "cyclic" => \E m \in Module : OnCycle(m)
  /\ phase = "done" => ~\E m \in Module : OnCycle(m)

=============================================================================
