---------------------------- MODULE SourceEditing ----------------------------
(***************************************************************************)
(* One open document: its author types, asks the server to format it, and  *)
(* renames what it declares, in any order.                                 *)
(*                                                                         *)
(* The text is kept with the last request and the text it was made on, so  *)
(* that what an edit of the server has done to the program can be stated.  *)
(***************************************************************************)
EXTENDS Completing, TLC

CONSTANTS Documents,   \* the texts that are opened
          NewNames,    \* the names given in renames
          MaxChanges   \* how often a document is changed other than by formatting

VARIABLES text, before, request, changes
vars == <<text, before, request, changes>>

Init ==
  /\ text \in Documents
  /\ before = text
  /\ request = [method |-> "didOpen", name |-> "", edits |-> {}]
  /\ changes = 0

Answered(method, name, edits, after) ==
  /\ request' = [method |-> method, name |-> name, edits |-> edits]
  /\ before' = text
  /\ text' = after

Format ==
  /\ Answered("formatting", "", {}, Formatted(text))
  /\ UNCHANGED changes

Rename ==
  /\ changes < MaxChanges
  /\ changes' = changes + 1
  /\ \E index \in {DefinitionIndex(text)} : \E i \in 1..Len(text), name \in NewNames :
       \E edits \in {RenameEdits(index, i, name)} :
         /\ edits # {}
         /\ Answered("rename", name, edits, Renamed(text, edits, name))

\* The author blanks out a token, or takes out the blank beside a bracket.
Typed(after) ==
  /\ changes < MaxChanges
  /\ changes' = changes + 1
  /\ request' = [method |-> "didChange", name |-> "", edits |-> {}]
  /\ text' = after
  /\ before' = after

BlankOut ==
  \E i \in 1..Len(text) :
    Typed([k \in 1..Len(text) - 1 |->
             IF k < i THEN text[k] ELSE [text[k + 1] EXCEPT !.spaced = @ \/ k = i]])

CloseUp ==
  \E i \in 2..Len(text) :
    /\ text[i].spaced
    /\ text[i].kind = "(" \/ text[i - 1].kind = ")"
    /\ Typed([text EXCEPT ![i].spaced = FALSE])

Next == Format \/ Rename \/ BlankOut \/ CloseUp
Spec == Init /\ [][Next]_vars

-----------------------------------------------------------------------------
\* What a text means: its syntax tree with the names it declares replaced by the order of
\* their declarations, each visible where the compiler sees it.
Lookup(names, name) ==
  LET places == {i \in 1..Len(names) : names[i] = name} IN
  IF places = {} THEN name ELSE ToString(Max(places))
Names(nodes) == [i \in 1..Len(nodes) |-> nodes[i].name]
Plain(kind, name, parts) == [kind |-> kind, name |-> name, parts |-> parts]

RECURSIVE MeaningIn(_, _, _, _), BlockMeaning(_, _, _, _, _)
MeaningIn(n, values, types, events) ==
  LET head == MeaningIn(n.parts[1], values, types, events)
      each(p) == [i \in 1..Len(p) |-> MeaningIn(p[i], values, types, events)]
      block(p) == Plain("list", "", BlockMeaning(n.parts[p].parts, 1, values, types, events))
  IN CASE n.kind \in {"name", "add", "set"} -> Plain(n.kind, Lookup(values, n.name), each(n.parts))
       [] n.kind = "type" -> Plain("type", Lookup(types, n.name), <<>>)
       [] n.kind = "emit" -> Plain("emit", Lookup(events, n.name), <<>>)
       [] n.kind = "when" -> Plain("when", "", <<head, block(2), block(3)>>)
       [] n.kind \in {"let", "parameter", "state", "event", "cause"} -> Plain(n.kind, "", each(n.parts))
       [] n.kind = "path" -> Plain("path", "", <<head, block(2)>>)
       [] OTHER -> Plain(n.kind, n.name, each(n.parts))

BlockMeaning(nodes, i, values, types, events) ==
  IF i > Len(nodes) THEN <<>>
  ELSE <<MeaningIn(nodes[i], values, types, events)>> \o
       BlockMeaning(nodes, i + 1, IF nodes[i].kind = "let" THEN Append(values, nodes[i].name)
                                  ELSE values, types, events)

TreeMeaning(n) ==
  CASE n.kind = "function" ->
         LET types  == Names(n.parts[1].parts)
             values == Names(n.parts[2].parts)
             in(p)  == MeaningIn(n.parts[p], values, types, <<>>)
         IN Plain("function", n.name, <<in(1), in(2), in(3),
              Plain("list", "", BlockMeaning(n.parts[4].parts, 1, values, types, <<>>))>>)
    [] n.kind = "directive" ->
         LET states == Names(n.parts[1].parts)
             events == Names(n.parts[2].parts)
         IN Plain("directive", n.name,
                  [p \in 1..Len(n.parts) |-> MeaningIn(n.parts[p], states, <<>>, events)])
    [] OTHER -> Tree(n)
Meaning(source) == TreeMeaning(Parsed(source))

\* A state whose initial value is no literal: the compiler accepts it and the program does
\* not start.
RECURSIVE Unstartable(_)
Unstartable(n) ==
  \/ n.kind = "state" /\ n.parts[2].kind \notin {"NUMBER", "FLOAT", "STRING", "true", "false"}
  \/ \E i \in 1..Len(n.parts) : Unstartable(n.parts[i])

\* A name that a tree uses and nothing declares.
RECURSIVE Uses(_, _)
Uses(n, name) ==
  \/ n.kind \in {"name", "add", "set", "emit"} /\ n.name = name
  \/ \E i \in 1..Len(n.parts) : Uses(n.parts[i], name)

\* Where a text reads as a call with type arguments.  Formatting may add such a place: the
\* brackets of "(a < b) > (c == d)" or of "g(a < b, (c) > (d - a) * c)" are not printed.
TypedCalls(source) ==
  {i \in 1..Len(source) : Kind(source, i) = "IDENT" /\ TypeArgumentsAhead(source, i + 1)}
ReadsAsCall == Cardinality(TypedCalls(text)) > Cardinality(TypedCalls(before))

-----------------------------------------------------------------------------
\* Formatting changes how a document looks and not what it says: the printed text parses,
\* to the syntax tree it was printed from.  The documents excepted are exactly those in
\* which a comparison comes to read as a call with type arguments.
FormattingKeepsTree ==
  request.method = "formatting" =>
    (Tree(Parsed(text)) = Tree(Parsed(before)) <=> ~ReadsAsCall)

\* The same of every document the server formats.
FormattingIsSafe ==
  request.method = "formatting" => Tree(Parsed(text)) = Tree(Parsed(before))

\* An expression that reads a name before the place of its declaration.
RECURSIVE ReadsAhead(_, _)
ReadsAhead(n, d) ==
  \/ n.kind = "name" /\ n.name = d.name /\ n.from < d.at
  \/ \E i \in 1..Len(n.parts) : ReadsAhead(n.parts[i], d)

\* The exact place of a use in brackets is lost with them, "and", "or" and "not" are missing
\* from the reserved words, and an expression in a path is not taken to read a state that
\* the directive declares after it.
Exact ==
  /\ request.name \notin Keywords
  /\ \A o \in request.edits :
       o.from = o.to /\ ~(o.definition.space = "state" /\ ReadsAhead(Parsed(before), o.definition))

\* The text still has the meaning of the text before; a program that does not start or uses
\* what nothing declares has no meaning to keep.
StillMeans(old) == ~Unstartable(old) /\ ~Uses(old, request.name) => Meaning(text) = old

\* A rename changes no more than a name: every use in the document still refers to the
\* declaration it referred to, and the text still parses.  Names nothing declares, which
\* the compiler refuses, may be captured, and an initial value that reads a state declared
\* after it is not followed.
RenameKeepsMeaning ==
  request.method = "rename" /\ Exact => StillMeans(Meaning(before))

\* The same of every rename the server performs.
RenameIsSafe ==
  request.method = "rename" => StillMeans(Meaning(before))
-----------------------------------------------------------------------------
\* The names of spaces in the views of a document.
KindsOf(space) == CASE space = "callable" -> {"function"}
                    [] space = "type"     -> {"type parameter"}
                    [] space = "value"    -> {"parameter", "let"}
                    [] OTHER              -> {space}

\* A declaration whose name is found in the keyword before it, as "e" in "event e".
Concealed(d) == d.at > 1 /\ Occurs(text[d.at - 1].value, d.name) # {}
\* A binding after the first "when" or "return" of a function, which its node does not keep.
Late(d) == /\ text[d.at - 1].kind = "let"
           /\ \E i \in 1..d.at - 1 : text[i].kind \in {"when", "return"}

\* What hovering calls a symbol of the outline.
HoverKind(kind) == CASE kind = "local binding"       -> "let"
                     [] kind = "required capability" -> "requires"
                     [] kind = "authority reference" -> "authority"
                     [] kind = "role reference"      -> "role"
                     [] OTHER                        -> kind

\* A text with a tree: without one hovering and the outline show nothing.  After the last
\* change views are not looked at.
Viewed == changes < MaxChanges /\ Parsed(text) # Nothing

\* Hovering, the outline, a search and the definitions agree on what a document declares and
\* where, although each finds it on its own: hovering over a declared name describes that
\* declaration, the outline selects it, going to its definition stays there, and a search
\* for the name leads to it.  Two sorts of declarations are excepted: those whose name is
\* found earlier, inside of a keyword, and bindings after the leading ones.
DeclarationsShown ==
  Viewed =>
    LET entries == HoverEntries(text)
        symbols == DocumentSymbols(text)
        index   == DefinitionIndex(text)
        plain   == {d \in index.definitions : ~Concealed(d) /\ ~Late(d)}
    IN /\ {[at |-> s.at, name |-> s.name, kind |-> HoverKind(s.kind)] : s \in Flattened(symbols, "")}
            = entries
       /\ \A d \in plain : /\ \E e \in entries : /\ e.at = Place(d.at, 1) /\ e.name = d.name
                                                 /\ e.kind \in KindsOf(d.space)
                                                 /\ Hover(entries, e.at) = {e}
                          /\ DefinitionAt(index, d.at) = {d.at}
                          /\ d.space \notin {"type", "value"} =>
                               Place(d.at, 1) \in {s.at : s \in WorkspaceSymbols(symbols, d.name)}

\* A name is offered at the word at i, whether its line begins just before it or at the top.
Offered(source, i, cursor, name) ==
  LET inventory == InventoryAt(source, cursor) IN
  \A first \in {1, i - 1} :
    \E c \in Completion(source, inventory, i, first, cursor) : c.label = name

\* Whatever a word of a document refers to is offered when the word is completed, and again
\* when it has been deleted and the text around it need not parse any more: completion and
\* definition read the text in different ways and agree on what is visible.  On a line of
\* its own a use is not completed, and without a tree only what is declared before it.
CompletionCovers ==
  Viewed /\ ~Unstartable(Parsed(text)) =>
    \A o \in DefinitionIndex(text).occurrences :
      LET d == o.definition IN
      /\ o.from = o.to /\ d.at # o.from
      /\ d.space \in {"type", "value", "state", "event"}
      => /\ Offered(text, o.from, o.from + 1, d.name)
         /\ d.at < o.from => Offered(RemoveAt(text, o.from), o.from, o.from, d.name)
=============================================================================
