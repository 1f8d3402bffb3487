---------------------------- MODULE Definitions ----------------------------
(***************************************************************************)
(* The index of declarations and references of one document, and what      *)
(* textDocument/definition, references and rename make of it               *)
(* (language_server/definition.py, references.py, rename.py).              *)
(*                                                                         *)
(* The analyzer walks the syntax tree and finds the position of a name by  *)
(* searching for it in the span of the node that carries it.  A definition *)
(* is the token where it was found, with its name and its name space; an   *)
(* occurrence is a range of tokens and the definition it refers to.        *)
(***************************************************************************)
EXTENDS Formatting

Definition(at, name, space) == [at |-> at, name |-> name, space |-> space]
Occurrence(from, to, definition) == [from |-> from, to |-> to, definition |-> definition]
Index(definitions, occurrences) == [definitions |-> definitions, occurrences |-> occurrences]
Empty == Index({}, {})
Merged(a, b) == Index(a.definitions \cup b.definitions, a.occurrences \cup b.occurrences)
Together(indexes) == FoldSeq(Merged, Empty, indexes)

\* The first place in a span where the name follows the keyword, or else where it stands.
NameAt(text, n, keyword) ==
  LET stands  == {i \in n.from..n.to : text[i].kind = "IDENT" /\ text[i].value = n.name}
      follows == {i \in stands : i > n.from /\ text[i - 1].kind = keyword}
  IN IF follows # {} THEN Min(follows) ELSE IF stands # {} THEN Min(stands) ELSE 0

Defined(text, n, space, keyword) ==
  {Definition(i, n.name, space) : i \in {NameAt(text, n, keyword)} \ {0}}
Declares(definitions) == Index(definitions, {Occurrence(d.at, d.at, d) : d \in definitions})
Refers(from, to, definitions) == Index({}, {Occurrence(from, to, d) : d \in definitions})

\* Faulty variant of ResolvedBefore: the first definition of the name is taken.
ResolvedFirst(definitions, name, at) ==
  LET candidates == {d \in definitions : d.name = name /\ d.at < at} IN
  {d \in candidates : \A c \in candidates : d.at <= c.at}
\* The definition of a name that stands last before a place.
ResolvedBefore(definitions, name, at) ==
  LET candidates == {d \in definitions : d.name = name /\ d.at < at} IN
  {d \in candidates : \A c \in candidates : c.at <= d.at}
\* The definition that a dictionary keeps under a name: the last one entered.
Entry(definitions, name) ==
  LET candidates == {d \in definitions : d.name = name} IN
  {d \in candidates : \A c \in candidates : c.at <= d.at}

TypeReference(text, n, types) ==
  Refers(NameAt(text, n, ""), NameAt(text, n, ""), Entry(types, n.name))

RECURSIVE ExpressionIndex(_, _, _, _, _)
ExpressionIndex(text, n, values, types, callable) ==
  CASE n.kind = "name" -> Refers(n.from, n.to, ResolvedBefore(values, n.name, n.from))
    [] n.kind = "call" ->
         LET arguments == n.parts[2].parts
             generics  == n.parts[1].parts
         IN Merged(Refers(NameAt(text, n, ""), NameAt(text, n, ""), Entry(callable, n.name)),
              Merged(Together([i \in 1..Len(generics) |-> TypeReference(text, generics[i], types)]),
                     Together([i \in 1..Len(arguments) |->
                       ExpressionIndex(text, arguments[i], values, types, callable)])))
    [] n.kind \in {"unary", "binary"} ->
         Together([i \in 1..Len(n.parts) |->
           ExpressionIndex(text, n.parts[i], values, types, callable)])
    [] OTHER -> Empty

\* The statements from i on.  A binding is visible after it, to the end of its own block.
RECURSIVE StatementsIndex(_, _, _, _, _, _)
StatementsIndex(text, statements, i, values, types, callable) ==
  IF i > Len(statements) THEN Empty
  ELSE LET n == statements[i]
           e == ExpressionIndex(text, n.parts[1], values, types, callable)
           bound == IF n.kind = "let" THEN Defined(text, n, "value", "let") ELSE {}
           inner(p) == StatementsIndex(text, n.parts[p].parts, 1, values, types, callable)
           own == IF n.kind = "when" THEN Merged(e, Merged(inner(2), inner(3)))
                  ELSE Merged(e, Declares(bound))
       IN Merged(own, StatementsIndex(text, statements, i + 1, values \cup bound, types, callable))

FunctionIndex(text, n) ==
  LET generics   == n.parts[1].parts
      parameters == n.parts[2].parts
      callable   == Defined(text, n, "callable", "function")
      types      == UNION {Defined(text, generics[i], "type", "") : i \in 1..Len(generics)}
      values     == UNION {Defined(text, parameters[i], "value", "") : i \in 1..Len(parameters)}
      annotated(p) == Together([i \in 1..Len(p) |-> TypeReference(text, p[i], types)])
  IN Together(<<Declares(callable \cup types \cup values),
                Together([i \in 1..Len(parameters) |-> annotated(parameters[i].parts)]),
                annotated(n.parts[3].parts),
                StatementsIndex(text, n.parts[4].parts, 1, values, types, callable)>>)

RECURSIVE ActionsIndex(_, _, _, _)
ActionsIndex(text, actions, states, events) ==
  LET expression(n) == ExpressionIndex(text, n, states, {}, {})
      target(n, definitions) ==
        LET at == NameAt(text, n, n.kind) IN Refers(at, at, Entry(definitions, n.name))
      index(n) ==
        CASE n.kind \in {"add", "set"} -> Merged(target(n, states), expression(n.parts[1]))
          [] n.kind = "emit"    -> target(n, events)
          [] n.kind = "message" -> expression(n.parts[1])
          [] n.kind = "invoke"  -> Empty
          [] n.kind = "when"    ->
               Merged(expression(n.parts[1]),
                      Merged(ActionsIndex(text, n.parts[2].parts, states, events),
                             ActionsIndex(text, n.parts[3].parts, states, events)))
  IN Together([i \in 1..Len(actions) |-> index(actions[i])])

\* The entries of a dictionary: of two definitions of a name the later one.
Entries(definitions) == UNION {Entry(definitions, d.name) : d \in definitions}

DirectiveIndex(text, n) ==
  LET all(nodes, space) ==
        UNION {Defined(text, nodes[i], space, space) : i \in 1..Len(nodes)}
      states == all(n.parts[1].parts, "state")
      events == all(n.parts[2].parts, "event")
      causes == n.parts[3].parts
      paths(c) == c.parts[1].parts
      initial(s) == ExpressionIndex(text, s.parts[2], Entries(states), {}, {})
      path(p) == Merged(Declares(Defined(text, p, "path", "path")),
                        ActionsIndex(text, p.parts[2].parts, Entries(states), events))
  IN Together(<<Declares(Defined(text, n, "directive", "directive") \cup states \cup events
                           \cup all(causes, "cause")),
                Together([i \in 1..Len(n.parts[1].parts) |-> initial(n.parts[1].parts[i])]),
                Together([i \in 1..Len(causes) |->
                  Together([j \in 1..Len(paths(causes[i])) |-> path(paths(causes[i])[j])])])>>)

TreeIndex(text, n) ==
  LET capabilities == n.parts[1].parts
  IN CASE n = Nothing          -> Empty
       [] n.kind = "function"  -> FunctionIndex(text, n)
       [] n.kind = "directive" -> DirectiveIndex(text, n)
       [] n.kind = "authority" ->
            Declares(Defined(text, n, "authority", "authority") \cup
              UNION {Defined(text, capabilities[i], "capability", "capability")
                       : i \in 1..Len(capabilities)})
       [] OTHER -> Declares(Defined(text, n, n.kind, n.kind))
DefinitionIndex(text) == TreeIndex(text, Parsed(text))

-----------------------------------------------------------------------------
\* The definition the token at i refers to: the narrowest occurrence around it counts.
TargetAt(index, i) ==
  LET around == {o \in index.occurrences : o.from <= i /\ i <= o.to} IN
  {o.definition : o \in {o \in around : \A p \in around : o.to - o.from <= p.to - p.from}}
\* Going to a definition selects on its own, and settles what is equally narrow by its place.
DefinitionAt(index, i) ==
  LET around == {o \in index.occurrences : o.from <= i /\ i <= o.to}
      narrow == {o \in around : \A p \in around : o.to - o.from <= p.to - p.from}
      first  == {o \in narrow : \A p \in narrow : o.from <= p.from}
  IN {o.definition.at : o \in {o \in first : \A p \in first : o.definition.at <= p.definition.at}}
OccurrencesOf(index, target) == {o \in index.occurrences : o.definition = target}

RenameableSpaces == {"type", "value", "state", "event", "cause", "path"}
Reserved == ((Keywords \ {"and", "or", "not"}) \cup BuiltinNames \cup {"module", "import"})
Collides(index, target, name) ==
  /\ name # target.name
  /\ \E d \in index.definitions : d.space = target.space /\ d.name = name /\ d # target

\* What prepareRename lets the author rename at i.
Renameable(index, i) == {d \in TargetAt(index, i) : d.space \in RenameableSpaces}

\* The edits of a rename as the ranges of tokens they replace; none when it is refused.
RenameEdits(index, i, name) ==
  UNION {OccurrencesOf(index, d) :
           d \in {d \in Renameable(index, i) : name \notin Reserved /\ ~Collides(index, d, name)}}

Renamed(text, edits, name) ==
  LET word(k) == [kind |-> IF name \in Keywords THEN name ELSE "IDENT", value |-> name,
                  spaced |-> text[k].spaced]
      after(k) ==
        IF \E o \in edits : o.from = k THEN <<word(k)>>
        ELSE IF \E o \in edits : o.from < k /\ k <= o.to THEN <<>> ELSE <<text[k]>>
  IN Lexed(FlattenSeq([k \in 1..Len(text) |-> after(k)]))
=============================================================================
