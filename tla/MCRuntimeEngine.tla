-------------------------- MODULE MCRuntimeEngine --------------------------
(***************************************************************************)
(* RuntimeEngine on four directives that may invoke one another, with     *)
(* every combination of the bodies below, of four authority policies and   *)
(* of six ways to choose the entry directives.                             *)
(***************************************************************************)
EXTENDS RuntimeEngine, TLC

CONSTANTS d1, d2, d3, d4, p1, c1, c2, r, e

MCKeyType == [x |-> "int", f |-> "bool"]

int(n)  == [type |-> "int", val |-> n]
bool(b) == [type |-> "bool", val |-> b]

MCExpr == {"one", "x", "x>0", "f", "1/0"}
MCEval(expr, s) == CASE expr = "one" -> int(1)
                     [] expr = "x"   -> s.x
                     [] expr = "x>0" -> bool(s.x.val > 0)
                     [] expr = "f"   -> s.f
                     [] expr = "1/0" -> Fault

add     == [kind |-> "assign", key |-> "x", op |-> "add_int", expr |-> "one"]
raiseF  == [kind |-> "assign", key |-> "f", op |-> "set_bool", expr |-> "x>0"]
badType == [kind |-> "assign", key |-> "x", op |-> "set_int", expr |-> "f"]
emit    == [kind |-> "emit", event |-> e, fact |-> "x"]
badFact == [kind |-> "emit", event |-> e, fact |-> "1/0"]
call(ref) == [kind |-> "invoke", target |-> ref]
when(c, a, b) == [kind |-> "when", cond |-> c, actions |-> a, otherwise |-> b]

inner == when("f", <<add>>, <<emit, call("d3")>>)
outer == when("x>0", <<inner, add>>, <<raiseF, emit>>)
deep  == when("x>0", <<outer>>, <<>>)
notBool == when("x", <<>>, <<>>)

MCAction == {add, raiseF, badType, emit, badFact, call("d1"), call("d2"),
             call("d3"), call("directive:d3"), call("d4"), inner, outer, deep, notBool}

MCReference == {"d1", "d2", "d3", "d4", "directive:d3", "d9"}
MCResolve == [ref \in MCReference |-> CASE ref = "d1" -> d1
                                        [] ref = "d2" -> d2
                                        [] ref \in {"d3", "directive:d3"} -> d3
                                        [] ref = "d4" -> d4
                                        [] OTHER -> Undefined]

path(id, w, actions, effects) ==
  [id |-> id, weight |-> w, actions |-> actions, assignments |-> <<>>,
   emits |-> <<>>, invocations |-> <<>>, effects |-> effects]
legacy(id, w) ==
  [id |-> id, weight |-> w, actions |-> <<>>, assignments |-> <<add>>,
   emits |-> <<emit>>, invocations |-> <<call("d3")>>, effects |-> <<e>>]

Only(actions) == {path(1, 1, actions, <<>>)}

\* The causal decisions a directive may have: d1 is where most of the control
\* is, d2 and d3 are mostly invoked.
Decisions1 == {<<Only(<<add, call("d2"), emit>>)>>,
               <<Only(<<emit, outer, call("d3")>>)>>,
               <<Only(<<outer, call("d2"), outer>>)>>,
               <<Only(<<add, emit>>), Only(<<call("d2"), call("d3")>>)>>,
               <<{legacy(1, 2), path(2, 2, <<badType>>, <<>>)}, Only(<<emit>>)>>,
               <<>>}
Decisions2 == {<<Only(<<emit, call("directive:d3"), add>>)>>,
               <<Only(<<add, emit, badType>>)>>,
               <<Only(<<call("d3"), call("d1")>>)>>,
               <<{path(1, 1, <<badFact>>, <<>>), path(2, 3, <<emit, raiseF>>, <<e, e>>)}>>,
               <<Only(<<deep>>), Only(<<add, notBool>>)>>,
               <<Only(<<add, deep>>)>>}
Decisions3 == {<<Only(<<add, emit>>)>>,
               <<Only(<<emit, call("d4")>>)>>,
               <<Only(<<emit, badFact>>)>>,
               <<Only(<<call("d2")>>)>>,
               <<Only(<<outer>>)>>}

check(c) == [principal |-> p1, capability |-> c, resource |-> r]
grant(c, res) == [principal |-> p1, capability |-> c, resource |-> res]

MCPrograms ==
  {[directives |-> <<d1, d2, d3, d4>>,
    checks     |-> (d1 :> {check(c1)} @@ d2 :> {check(c1), check(c2)} @@ d3 :> {} @@ d4 :> {}),
    decisions  |-> (d1 :> a @@ d2 :> b @@ d3 :> c @@
                   d4 :> <<Only(<<emit>>)>>),
    initials   |-> [x |-> int(0), f |-> bool(FALSE)]] :
     a \in Decisions1, b \in Decisions2, c \in Decisions3}

MCGrantSets == {{}, {grant(c1, r)}, {grant(AnyName, NoResource)},
                {grant(c1, r), grant(c2, AnyName)}}

MCEntries == {None, <<"d1">>, <<"d3", "d1">>, <<"d2", "d3", "d1">>,
              <<"d3", "directive:d3">>, <<"d1", "d9">>}

=============================================================================
