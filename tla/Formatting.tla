----------------------------- MODULE Formatting -----------------------------
(***************************************************************************)
(* The printer of textDocument/formatting (language_server/formatting.py): *)
(* the syntax tree of a document as canonical text.  A new line, an        *)
(* indentation and a blank are the same white space here.                  *)
(***************************************************************************)
EXTENDS Parsing, FiniteSetsExt, SequencesExt

Spaced(text) == [i \in 1..Len(text) |-> IF i = 1 THEN [text[1] EXCEPT !.spaced = TRUE] ELSE text[i]]
Tight(text)  == [i \in 1..Len(text) |-> IF i = 1 THEN [text[1] EXCEPT !.spaced = FALSE] ELSE text[i]]
Sign(kind)   == <<Mark(kind, FALSE)>>
Key(kind)    == <<Mark(kind, TRUE)>>
Name(value)  == <<Word(value, TRUE)>>
Commas(texts) ==
  FlattenSeq([i \in 1..Len(texts) |->
                IF i = 1 THEN Tight(texts[1]) ELSE Sign(",") \o Spaced(texts[i])])

Precedence == [operator \in UNION {Levels[l] : l \in 1..Len(Levels)} |->
                 CHOOSE l \in 1..Len(Levels) : operator \in Levels[l]]

\* Faulty variant of Bracketed: an operand of its parent's own level is never bracketed.
BracketedWhenLooser(precedence, parent, rightChild) == precedence < parent
Bracketed(precedence, parent, rightChild) ==
  precedence < parent \/ (rightChild /\ precedence = parent)

RECURSIVE ExpressionText(_, _, _)
Operands(nodes) == Commas([i \in 1..Len(nodes) |-> ExpressionText(nodes[i], 0, FALSE)])
TypeNames(nodes) == Commas([i \in 1..Len(nodes) |-> Name(nodes[i].name)])

ExpressionText(n, parent, rightChild) ==
  CASE n.kind = "name"  -> Name(n.name)
    [] n.kind = "call"  ->
         LET types == n.parts[1].parts IN
         Name(n.name)
           \o (IF types # <<>> THEN Sign("<") \o TypeNames(types) \o Sign(">") ELSE <<>>)
           \o Sign("(") \o Operands(n.parts[2].parts) \o Sign(")")
    [] n.kind = "unary" ->
         LET operand == ExpressionText(n.parts[1], 7, FALSE) IN
         IF n.name = "not" THEN Key("not") \o Spaced(operand) ELSE Key(n.name) \o Tight(operand)
    [] n.kind = "binary" ->
         LET precedence == Precedence[n.name]
             rendered   == ExpressionText(n.parts[1], precedence, FALSE) \o Key(n.name)
                             \o Spaced(ExpressionText(n.parts[2], precedence, TRUE))
         IN IF Bracketed(precedence, parent, rightChild)
            THEN Key("(") \o Tight(rendered) \o Sign(")") ELSE rendered
    [] OTHER -> <<[kind |-> n.kind, value |-> n.name, spaced |-> TRUE]>>

AnnotationText(types) == IF types = <<>> THEN <<>> ELSE Key(":") \o Name(types[1].name)
Rendered(n) == ExpressionText(n, 0, FALSE)

RECURSIVE BlockText(_)
BlockText(items) ==
  LET item(n) ==
        CASE n.kind \in {"let", "set"} -> Key(n.kind) \o Name(n.name) \o Key("=") \o Rendered(n.parts[1])
          [] n.kind = "add" -> Key("add") \o Name(n.name) \o Rendered(n.parts[1])
          [] n.kind \in {"return", "message"} -> Key(n.kind) \o Rendered(n.parts[1])
          [] n.kind \in {"emit", "invoke"} -> Key(n.kind) \o Name(n.name)
          [] n.kind = "when" ->
               Key("when") \o Rendered(n.parts[1]) \o BlockText(n.parts[2].parts)
                 \o (IF n.parts[3].parts = <<>> THEN <<>>
                     ELSE Key("otherwise") \o BlockText(n.parts[3].parts))
  IN Key("{") \o FlattenSeq([i \in 1..Len(items) |-> item(items[i])]) \o Key("}")

PathText(n) ==
  Key("path") \o Name(n.name) \o Key("@") \o Rendered(n.parts[1]) \o BlockText(n.parts[2].parts)

\* The members of a declaration in the order of the source, whatever lists they are kept in.
SourceOrder(lists) ==
  LET members == UNION {Range(lists[k].parts) : k \in 1..Len(lists)}
      before(a, b) == a.from < b.from
  IN SetToSortSeq(members, before)

MemberText(n) ==
  CASE n.kind = "state" -> Key("state") \o Name(n.name) \o AnnotationText(n.parts[1].parts)
                             \o Key("=") \o Rendered(n.parts[2])
    [] n.kind = "cause" ->
         LET paths == n.parts[1].parts IN
         Key("cause") \o Name(n.name) \o Key("{")
           \o FlattenSeq([i \in 1..Len(paths) |-> PathText(paths[i])]) \o Key("}")
    [] OTHER -> Key(n.kind) \o Name(n.name)

FunctionText(n) ==
  LET generics == n.parts[1].parts
      generic(p) == Name(p.name)
                      \o (IF p.parts = <<>> THEN <<>> ELSE Key(":") \o Name(p.parts[1].name))
      parameter(p) == Name(p.name) \o AnnotationText(p.parts)
  IN Key("function") \o Name(n.name)
       \o (IF generics = <<>> THEN <<>>
           ELSE Sign("<") \o Commas([i \in 1..Len(generics) |-> generic(generics[i])]) \o Sign(">"))
       \o Sign("(")
       \o Commas([i \in 1..Len(n.parts[2].parts) |-> parameter(n.parts[2].parts[i])])
       \o Sign(")") \o AnnotationText(n.parts[3].parts) \o BlockText(n.parts[4].parts)

DeclarationText(n) ==
  LET extends == SelectSeq(n.parts, LAMBDA p : p.kind = "extends")
      members == SourceOrder(SelectSeq(n.parts, LAMBDA p : p.kind = "list"))
  IN Key(n.kind) \o Name(n.name)
       \o (IF extends = <<>> THEN <<>> ELSE Key("extends") \o Name(extends[1].name))
       \o Key("{") \o FlattenSeq([i \in 1..Len(members) |-> MemberText(members[i])]) \o Key("}")

Printed(n) == Lexed(Tight(IF n.kind = "function" THEN FunctionText(n) ELSE DeclarationText(n)))

\* The text after the request; an erroneous document is not touched.
PrintedOver(text, n) == IF n = Nothing THEN text ELSE Printed(n)
Formatted(text) == PrintedOver(text, Parsed(text))
=============================================================================
