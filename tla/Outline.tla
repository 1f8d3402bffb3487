------------------------------ MODULE Outline ------------------------------
(***************************************************************************)
(* What a document shows of its declarations: textDocument/hover,          *)
(* textDocument/documentSymbol and, of one open document, workspace/symbol *)
(* (language_server/hover.py, symbols.py, workspace_symbols.py).           *)
(*                                                                         *)
(* Hovering and the outline walk the syntax tree on their own and look for *)
(* a name with str.find in the span of its node, so a place is a character *)
(* of a token: the name may be found inside of another word.  Of wordings  *)
(* the kind of an entry is left, the first words of its label or detail.   *)
(***************************************************************************)
EXTENDS Definitions

Place(token, char) == [token |-> token, char |-> char]
Before(p, q) == p.token < q.token \/ (p.token = q.token /\ p.char < q.char)
Occurs(word, name) ==
  {k \in 1..Len(word) - Len(name) + 1 : SubSeq(word, k, k + Len(name) - 1) = name}

\* The places in a span where the characters of its name stand first: one or none.
Found(text, n) ==
  LET places == UNION {{Place(t, k) : k \in Occurs(text[t].value, n.name)} : t \in n.from..n.to}
  IN {p \in places : ~\E q \in places : Before(q, p)}

\* The bindings a function node keeps: those before its first other statement.
LocalBindings(n) ==
  LET body == n.parts[4].parts
      leading == {i \in 1..Len(body) : \A j \in 1..i : body[j].kind = "let"}
  IN {body[i] : i \in leading}

-----------------------------------------------------------------------------
\* Hovering.
HoverEntry(text, n, kind) == {[at |-> p, name |-> n.name, kind |-> kind] : p \in Found(text, n)}
Each(text, nodes, kind)   == UNION {HoverEntry(text, n, kind) : n \in ToSet(nodes)}

FunctionEntries(text, n) ==
  HoverEntry(text, n, "function")
    \cup Each(text, n.parts[1].parts, "type parameter")
    \cup Each(text, n.parts[2].parts, "parameter")
    \cup UNION {HoverEntry(text, b, "let") : b \in LocalBindings(n)}

\* Faulty variant of PathEntries: paths are looked for in the text of their cause.
PathEntriesOfCause(text, c) ==
  UNION {HoverEntry(text, [c EXCEPT !.name = p.name], "path") : p \in ToSet(c.parts[1].parts)}
PathEntries(text, c) == Each(text, c.parts[1].parts, "path")
DirectiveEntries(text, n) ==
  HoverEntry(text, n, "directive")
    \cup Each(text, n.parts[1].parts, "state")
    \cup Each(text, n.parts[2].parts, "event")
    \cup Each(text, n.parts[3].parts, "cause")
    \cup UNION {PathEntries(text, c) : c \in ToSet(n.parts[3].parts)}
    \cup Each(text, n.parts[4].parts, "requires")
    \cup Each(text, n.parts[5].parts, "authority")

TopLevelEntries(text, n) ==
  CASE n = Nothing           -> {}
    [] n.kind = "function"   -> FunctionEntries(text, n)
    [] n.kind = "directive"  -> DirectiveEntries(text, n)
    [] n.kind = "workflow"   -> HoverEntry(text, n, "workflow") \cup Each(text, n.parts[1].parts, "invoke")
    [] n.kind = "authority"  -> HoverEntry(text, n, "authority")
                                  \cup Each(text, n.parts[1].parts, "capability")
    [] n.kind = "role"       -> HoverEntry(text, n, "role") \cup Each(text, n.parts[1].parts, "authority")
    [] n.kind = "principal"  -> HoverEntry(text, n, "principal")
                                  \cup Each(text, n.parts[1].parts, "authority")
                                  \cup Each(text, n.parts[2].parts, "role")
HoverEntries(text) == TopLevelEntries(text, Parsed(text))

\* The entries that hovering over a place may show: of those around it the shortest, and
\* of these the first.  Which of several is shown depends on their wording.
Hover(entries, place) ==
  LET around == {e \in entries : /\ e.at.token = place.token
                                 /\ place.char \in e.at.char..e.at.char + Len(e.name) - 1}
      key(e) == <<Len(e.name), e.at.char>>
  IN {e \in around : \A o \in around : \/ key(e)[1] < key(o)[1]
                                       \/ key(e)[1] = key(o)[1] /\ key(e)[2] <= key(o)[2]}

-----------------------------------------------------------------------------
\* The outline: symbols with their ranges, selections and children, in source order.
DocumentSymbol(text, n, kind, children) ==
  [name |-> n.name, kind |-> kind, from |-> n.from, to |-> n.to, children |-> children,
   selects |-> IF Found(text, n) = {} THEN Place(n.from, 1) ELSE CHOOSE p \in Found(text, n) : TRUE]
Leaf(text, item) == DocumentSymbol(text, item.node, item.kind, <<>>)

Items(nodes, kind) == {[node |-> n, kind |-> kind] : n \in ToSet(nodes)}
SortedBySource(items) == SetToSortSeq(items, LAMBDA a, b : a.node.from < b.node.from)
Leaves(text, items) ==
  LET sorted == SortedBySource(items) IN [i \in 1..Len(sorted) |-> Leaf(text, sorted[i])]

FunctionChildren(text, n) ==
  Leaves(text, Items(n.parts[1].parts, "type parameter") \cup Items(n.parts[2].parts, "parameter")
                 \cup Items(SetToSeq(LocalBindings(n)), "local binding"))

CauseSymbol(text, n) ==
  DocumentSymbol(text, n, "cause", Leaves(text, Items(n.parts[1].parts, "path")))
DirectiveChildren(text, n) ==
  LET sorted == SortedBySource(
        Items(n.parts[1].parts, "state") \cup Items(n.parts[2].parts, "event")
          \cup Items(n.parts[3].parts, "cause") \cup Items(n.parts[4].parts, "required capability")
          \cup Items(n.parts[5].parts, "authority reference"))
  IN [i \in 1..Len(sorted) |-> IF sorted[i].kind = "cause" THEN CauseSymbol(text, sorted[i].node)
                               ELSE Leaf(text, sorted[i])]

TopLevelSymbol(text, n) ==
  DocumentSymbol(text, n, n.kind,
    CASE n.kind = "function"  -> FunctionChildren(text, n)
      [] n.kind = "directive" -> DirectiveChildren(text, n)
      [] n.kind = "workflow"  -> Leaves(text, Items(n.parts[1].parts, "invoke"))
      [] n.kind = "authority" -> Leaves(text, Items(n.parts[1].parts, "capability"))
      [] n.kind = "role"      -> Leaves(text, Items(n.parts[1].parts, "authority reference"))
      [] n.kind = "principal" -> Leaves(text, Items(n.parts[1].parts, "authority reference")
                                                \cup Items(n.parts[2].parts, "role reference")))
OutlineOf(text, n) == IF n = Nothing THEN <<>> ELSE <<TopLevelSymbol(text, n)>>
DocumentSymbols(text) == OutlineOf(text, Parsed(text))

-----------------------------------------------------------------------------
\* The symbols of the document that a search of the workspace lists: declarations, with the
\* symbol that contains them, whose names together hold what is searched for.
Indexed == {"module", "directive", "workflow", "role", "principal", "function", "state", "event",
            "cause", "path", "capability", "authority"}
RECURSIVE Flattened(_, _)
Flattened(symbols, container) ==
  UNION {{[name |-> s.name, kind |-> s.kind, at |-> s.selects, container |-> container]}
           \cup Flattened(s.children, s.name) : s \in ToSet(symbols)}
Matches(symbol, query) == Occurs(symbol.name, query) # {} \/ Occurs(symbol.container, query) # {}
WorkspaceSymbols(symbols, query) ==
  {s \in Flattened(symbols, "") : s.kind \in Indexed /\ Matches(s, query)}
=============================================================================
