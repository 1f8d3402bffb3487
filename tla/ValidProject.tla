---------------------------- MODULE ValidProject ----------------------------
(***************************************************************************)
(* Which projects can be built, said of the sources as they are given and  *)
(* without the stages, the order or the linker of ProjectBuild.  A source  *)
(* is named by itself: the sources of a valid project all differ.          *)
(***************************************************************************)
EXTENDS ProjectBuild

Sources == Names(given)

LinesOf(u, kinds) == {l \in DOMAIN u.lines : u.lines[l].kind \in kinds}
ModuleOf(u)  == {u.lines[l].name : l \in LinesOf(u, {"module"})}
ImportsOf(u) == {u.lines[l].name : l \in LinesOf(u, {"import"})}

\* At most one module line, before all import lines, these of different names
\* and all before the first line of text.
GoodHeader(u) ==
  /\ LinesOf(u, {"ill-formed"}) = {}
  /\ \A l, m \in LinesOf(u, {"module"}) : l = m
  /\ \A l, m \in LinesOf(u, {"import"}) : u.lines[l].name = u.lines[m].name => l = m
  /\ \A l \in LinesOf(u, {"import"}) : \E m \in LinesOf(u, {"module"}) : m < l
  /\ \A l \in LinesOf(u, {"module", "import"}), t \in LinesOf(u, {"text"}) : l < t

\* Whatever set of modules, one of them imports none of the set.
Acyclic == \A set \in SUBSET Sources : set # {} =>
             \E u \in set : \A v \in set : ModuleOf(v) \cap ImportsOf(u) = {}

GoodModules ==
  \/ \A u \in Sources : ModuleOf(u) = {}
  \/ /\ \A u \in Sources : ModuleOf(u) # {}
     /\ \A u, v \in Sources : u # v =>
          \A m \in ModuleOf(u), n \in ModuleOf(v) : Fold(m) # Fold(n)
     /\ \A u \in Sources : \A m \in ImportsOf(u) : \E v \in Sources : m \in ModuleOf(v)
     /\ Acyclic

Declaring(id) == {u \in Sources : u.declares = id}
Refers(u) == Names(u.refers)

\* One source declares what is referred to, the source itself or, where there
\* are modules, one that it imports.
GoodReferences ==
  \A u \in Sources : \A id \in Refers(u) :
    \E v \in Sources : /\ Declaring(id) = {v}
                       /\ ModuleOf(u) # {} => u = v \/ ModuleOf(v) \cap ImportsOf(u) # {}

\* Whatever set of functions, one of them calls none of the set.
NoRecursion ==
  \A set \in SUBSET {u \in Sources : u.declares.kind = "function"} : set # {} =>
    \E u \in set : \A id \in Refers(u) : Declaring(id) \cap set = {}

GoodDefinitions ==
  /\ \A u \in Sources : /\ u.declares.kind \in {"directive", "function"}
                        /\ Repeated(u.states) = {}
  /\ \A u, v \in Sources : u # v => /\ u.declares # v.declares
                                    /\ Names(u.states) \cap Names(v.states) = {}

Valid ==
  /\ given # <<>>
  /\ \A j, k \in DOMAIN given : j # k => Fold(given[j].source) # Fold(given[k].source)
  /\ \A u \in Sources : GoodHeader(u)
  /\ GoodModules /\ GoodDefinitions /\ GoodReferences /\ NoRecursion
  /\ asked # None => \E u \in Sources : IsEntry(u.declares, asked)

\* A project is built exactly when it is valid: all that is built is, and what
\* is refused is not, but for a refused entry, which may be one of execute.
BuiltIffValid ==
  /\ IsBuilt => Valid
  /\ phase = "refused" /\ failure.code # "ProjectEntryPointError" => ~Valid

=============================================================================
