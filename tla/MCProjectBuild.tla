--------------------------- MODULE MCProjectBuild ---------------------------
(***************************************************************************)
(* Model checking ProjectBuild: projects of one source with every sequence *)
(* of header lines, and projects of three sources with every mixture of    *)
(* declarations, imports and references.                                   *)
(***************************************************************************)
EXTENDS ValidProject

CONSTANT MaxLines

Directive(name) == [kind |-> "directive", name |-> name]
Function(name)  == [kind |-> "function", name |-> name]

X == Directive("x")
Y == Directive("y")
F == Function("f")
G == Function("g")

MCEntries == {None, [name |-> "x"], [name |-> "f"]}

L(kind, name) == [kind |-> kind, name |-> name]
Source(name, lines, declares, states, refers) ==
  [source |-> name, lines |-> lines, declares |-> declares, states |-> states,
   refers |-> refers]

-----------------------------------------------------------------------------
(* Every header.                                                           *)

Lines == {L("module", 2), L("module", 4), L("import", 4), L("import", 6),
          L("blank", None), L("ill-formed", None), L("text", None)}
LineSequences == UNION {[1..n -> Lines] : n \in 0..MaxLines}

HeaderProjects ==
  {<<>>}
  \cup {<<Source(3, lines, X, <<>>, <<>>)>> : lines \in LineSequences}
  \cup {<<Source(3, lines, X, <<>>, <<>>), Source(1, <<L("module", 4)>>, Y, <<>>, <<>>)>> :
          lines \in LineSequences}

-----------------------------------------------------------------------------
(* Every graph.                                                            *)

\* Imports of modules of which all but a few are declared.
Header(name, imported) ==
  <<L("module", name)>> \o [k \in DOMAIN imported |-> L("import", imported[k])]

FirstUnits ==
  {Source(4, lines, content[1], <<"s">>, content[2]) :
     lines \in {<<>>, Header(2, <<>>), Header(2, <<4>>), Header(2, <<6>>), Header(2, <<6, 4>>),
               Header(2, <<2>>)},
     content \in {<<X, <<>>>>, <<X, <<X>>>>, <<X, <<Y>>>>, <<X, <<F>>>>, <<X, <<F, Y>>>>,
                 <<F, <<>>>>, <<F, <<G>>>>, <<F, <<F>>>>}}
SecondUnits ==
  {Source(2, lines, content[1], content[2], content[3]) :
     lines \in {<<>>, Header(4, <<>>), Header(4, <<2>>), Header(4, <<6>>), Header(3, <<>>)},
     content \in {<<X, <<>>, <<>>>>, <<Y, <<>>, <<X>>>>, <<Y, <<"s">>, <<>>>>, <<Y, <<"t">>, <<G>>>>,
                 <<F, <<>>, <<>>>>, <<F, <<>>, <<G>>>>}}
ThirdUnits ==
  {Source(source, lines, content[1], <<>>, content[2]) :
     source \in {3, 7},
     lines \in {<<>>, Header(6, <<>>), Header(6, <<2>>), Header(6, <<4>>), Header(6, <<8>>)},
     content \in {<<G, <<>>>>, <<G, <<F>>>>, <<[kind |-> "role", name |-> "r"], <<>>>>}}

GraphProjects == {<<a, b, c>> : a \in FirstUnits, b \in SecondUnits, c \in ThirdUnits}

MCProjects == HeaderProjects \cup GraphProjects

=============================================================================
