---------------------------- MODULE ModuleGraph ----------------------------
(***************************************************************************)
(* The import graph of a project (language/modules.py): the depth-first    *)
(* search for an import cycle (_find_cycle) and the order in which modules *)
(* are compiled (_topological_order), one step per turn of their loops,    *)
(* for every graph over the modules.  A module is known by its place in    *)
(* the order of names by (casefold, name), in which both loops proceed.    *)
(***************************************************************************)
EXTENDS Naturals, Sequences, FiniteSets

CONSTANT Module  \* the modules declared

ASSUME ModulesNamed == Module \subseteq Nat /\ IsFiniteSet(Module)

VARIABLES
  imports,    \* the imports of each module; every one is declared
  phase,      \* "search", "cyclic", "order", "done" or "escaped"
  state,      \* 0: not visited, 1: on the stack, 2: left
  stack,
  remaining,  \* of each module visited, the imports not yet looked at
  cycle,      \* the cycle found
  left,       \* history: the modules in the order in which they were left
  indegree, heap, result

search == <<state, stack, remaining, left, cycle>>
order  == <<indegree, heap, result>>
vars   == <<imports, phase, search, order>>

Init ==
  /\ imports \in [Module -> SUBSET Module]
  /\ phase = "search"
  /\ state = [m \in Module |-> 0] /\ stack = <<>> /\ remaining = imports
  /\ left = <<>> /\ cycle = <<>>
  /\ indegree = [m \in Module |-> 0] /\ heap = {} /\ result = <<>>

\* The next of a sorted set.
IsFirst(m, set) == m \in set /\ \A other \in set : m <= other

Top == stack[Len(stack)]

-----------------------------------------------------------------------------
(* _find_cycle.                                                            *)

Entered(m) == /\ state' = [state EXCEPT ![m] = 1]
              /\ stack' = Append(stack, m)

Visit ==
  /\ phase = "search" /\ stack = <<>>
  /\ \E m \in Module : IsFirst(m, {n \in Module : state[n] = 0}) /\ Entered(m)
  /\ UNCHANGED <<imports, phase, remaining, left, cycle, order>>

\* Faulty variant of LookAt: a module on the stack is taken for one left.
LookAtAny ==
  /\ phase = "search" /\ stack # <<>>
  /\ \E target \in Module :
       /\ IsFirst(target, remaining[Top])
       /\ remaining' = [remaining EXCEPT ![Top] = @ \ {target}]
       /\ IF state[target] = 0 THEN Entered(target) ELSE UNCHANGED <<state, stack>>
       /\ UNCHANGED <<phase, cycle>>
  /\ UNCHANGED <<imports, left, order>>

\* Faulty variant of LookAt: the cycle is the whole stack.
LookAtWholeStack ==
  /\ phase = "search" /\ stack # <<>>
  /\ \E target \in Module :
       /\ IsFirst(target, remaining[Top])
       /\ remaining' = [remaining EXCEPT ![Top] = @ \ {target}]
       /\ \/ state[target] = 0 /\ Entered(target) /\ UNCHANGED <<phase, cycle>>
          \/ state[target] = 1 /\ cycle' = Append(stack, target) /\ phase' = "cyclic"
             /\ UNCHANGED <<state, stack>>
          \/ state[target] = 2 /\ UNCHANGED <<state, stack, phase, cycle>>
  /\ UNCHANGED <<imports, left, order>>

\* The next import of the module on top: it is entered, or closes a cycle, which
\* is the stack from there on, or has been left before.
LookAt ==
  /\ phase = "search" /\ stack # <<>>
  /\ \E target \in Module :
       /\ IsFirst(target, remaining[Top])
       /\ remaining' = [remaining EXCEPT ![Top] = @ \ {target}]
       /\ \/ /\ state[target] = 0 /\ Entered(target)
             /\ UNCHANGED <<phase, cycle>>
          \/ /\ state[target] = 1
             /\ \E start \in 1..Len(stack) :
                  /\ stack[start] = target
                  /\ cycle' = Append(SubSeq(stack, start, Len(stack)), target)
             /\ phase' = "cyclic"
             /\ UNCHANGED <<state, stack>>
          \/ /\ state[target] = 2
             /\ UNCHANGED <<state, stack, phase, cycle>>
  /\ UNCHANGED <<imports, left, order>>

Leave ==
  /\ phase = "search" /\ stack # <<>> /\ remaining[Top] = {}
  /\ state' = [state EXCEPT ![Top] = 2]
  /\ stack' = SubSeq(stack, 1, Len(stack) - 1)
  /\ left' = Append(left, Top)
  /\ UNCHANGED <<imports, phase, remaining, cycle, order>>

-----------------------------------------------------------------------------
(* _topological_order.                                                     *)

SearchEnds ==
  /\ phase = "search" /\ stack = <<>> /\ \A m \in Module : state[m] # 0
  /\ phase' = "order"
  /\ indegree' = [m \in Module |-> Cardinality(imports[m])]
  /\ heap' = {m \in Module : indegree'[m] = 0}
  /\ UNCHANGED <<imports, search, result>>

Dependents(m) == {n \in Module : m \in imports[n]}

\* Faulty variant of Take: a dependent is ready when one import is placed.
TakeEager ==
  /\ phase = "order"
  /\ \E m \in Module :
       /\ IsFirst(m, heap)
       /\ result' = Append(result, m)
       /\ indegree' = [n \in Module |-> IF n \in Dependents(m) THEN indegree[n] - 1
                                                              ELSE indegree[n]]
       /\ heap' = (heap \ {m}) \cup Dependents(m)
  /\ UNCHANGED <<imports, phase, search>>

\* The smallest of the heap is placed; those it was the last import of follow.
Take ==
  /\ phase = "order"
  /\ \E m \in Module :
       /\ IsFirst(m, heap)
       /\ result' = Append(result, m)
       /\ indegree' = [n \in Module |-> IF n \in Dependents(m) THEN indegree[n] - 1
                                                              ELSE indegree[n]]
       /\ heap' = (heap \ {m}) \cup {n \in Dependents(m) : indegree'[n] = 0}
  /\ UNCHANGED <<imports, phase, search>>

\* "Module graph cycle escaped cycle detection": the code asserts it cannot.
OrderEnds ==
  /\ phase = "order" /\ heap = {}
  /\ phase' = IF Len(result) # Cardinality(Module) THEN "escaped" ELSE "done"
  /\ UNCHANGED <<imports, search, order>>

Next == Visit \/ LookAt \/ Leave \/ SearchEnds \/ Take \/ OrderEnds

Spec == Init /\ [][Next]_vars /\ WF_vars(Next)

-----------------------------------------------------------------------------
(* Properties.                                                             *)

Placed == {result[k] : k \in DOMAIN result}

\* Types; no module is on the stack, left or placed twice.
TypeOK ==
  /\ imports \in [Module -> SUBSET Module]
  /\ phase \in {"search", "cyclic", "order", "done", "escaped"}
  /\ state \in [Module -> 0..2]
  /\ stack \in Seq(Module) /\ left \in Seq(Module) /\ result \in Seq(Module)
  /\ cycle \in Seq(Module)
  /\ remaining \in [Module -> SUBSET Module]
  /\ indegree \in [Module -> Nat] /\ heap \subseteq Module
  /\ \A s \in {stack, left, result} : \A i, j \in DOMAIN s : s[i] = s[j] => i = j

\* A cycle that is reported is one: each module imports the next.
CycleIsReal ==
  phase = "cyclic" =>
    /\ Len(cycle) > 1 /\ cycle[1] = cycle[Len(cycle)]
    /\ \A k \in 1..Len(cycle) - 1 : cycle[k + 1] \in imports[cycle[k]]

\* Every module is placed, and so compiled, after all that it imports.
ImportsFirst ==
  \A k \in DOMAIN result : \A m \in imports[result[k]] :
    \E j \in 1..k - 1 : result[j] = m

\* The search and the order agree on every graph: no cycle escapes.
NoCycleEscapes == phase # "escaped"

\* Both loops end, on every graph.
Termination == <>(phase \in {"cyclic", "done"})

=============================================================================
