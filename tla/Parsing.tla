------------------------------ MODULE Parsing ------------------------------
(***************************************************************************)
(* Source text and the recursive-descent parser (lexer.py, parser.py).     *)
(*                                                                         *)
(* A text is a sequence of tokens.  The kind of a keyword or of a sign is  *)
(* its spelling, and each token says whether white space precedes it: that *)
(* is all of the characters an edit can disturb.  Numerals are canonical,  *)
(* and module headers, which precede the declaration, are left out.        *)
(*                                                                         *)
(* The parser is a family of operators that read a text from an index and  *)
(* return a node and the index after it, which is 0 when they raise a      *)
(* ParseError.  A node has the same fields whatever it stands for: its     *)
(* kind, its name, its parts, and the first and last token of its span.    *)
(***************************************************************************)
EXTENDS Sequences, Integers, FiniteSets

Word(value, spaced) == [kind |-> "IDENT", value |-> value, spaced |-> spaced]
Mark(kind, spaced)  == [kind |-> kind, value |-> kind, spaced |-> spaced]

Keywords == {"directive", "workflow", "authority", "capability", "state", "event", "cause",
             "path", "add", "emit", "message", "invoke", "requires", "extends", "principal",
             "role", "set", "when", "otherwise", "and", "or", "not", "true", "false",
             "function", "return", "let"}
BuiltinNames == {"int", "bool", "string", "float", "void", "result", "collection", "time", "random",
                 "diagnostic", "type_info"}
Constraints  == {"numeric"}
Wordlike(token) == token.kind \in Keywords \cup {"IDENT"}

\* Reading the characters again: words and numerals that touch are one word.
RECURSIVE Lexed(_)
Lexed(text) ==
  IF Len(text) < 2 THEN text
  ELSE LET a == text[1] b == text[2] IN
       IF Wordlike(a) /\ (Wordlike(b) \/ b.kind = "NUMBER") /\ ~b.spaced
       THEN LET word == a.value \o b.value IN
            Lexed(<<[kind |-> IF word \in Keywords THEN word ELSE "IDENT",
                     value |-> word, spaced |-> a.spaced]>> \o SubSeq(text, 3, Len(text)))
       ELSE <<a>> \o Lexed(Tail(text))

-----------------------------------------------------------------------------
Node(kind, name, parts, from, to) ==
  [kind |-> kind, name |-> name, parts |-> parts, from |-> from, to |-> to]
List(nodes) == Node("list", "", nodes, 0, 0)
Nothing     == List(<<>>)

Kind(text, i) == IF i \in 1..Len(text) THEN text[i].kind ELSE "EOF"
Take(text, i, kinds) ==
  IF i # 0 /\ \A k \in 1..Len(kinds) : Kind(text, i + k - 1) = kinds[k]
  THEN i + Len(kinds) ELSE 0
Wrong == [node |-> Nothing, next |-> 0]
Built(next, node) == IF next = 0 THEN Wrong ELSE [node |-> node, next |-> next]
Joined(first, rest) == Built(rest.next, List(<<first.node>> \o rest.node.parts))
Single(first, next) == Built(next, List(<<first.node>>))

TypeNamed(text, i, scope) ==
  IF Kind(text, i) = "IDENT" /\ text[i].value \in scope \cup BuiltinNames
  THEN Built(i + 1, Node("type", text[i].value, <<>>, i, i)) ELSE Wrong
\* An optional annotation ": type": a list of one node or none.
Annotated(type, i) == Built(type.next, List(<<[type.node EXCEPT !.from = i]>>))
Annotation(text, i, scope) ==
  IF Kind(text, i) = ":" THEN Annotated(TypeNamed(text, i + 1, scope), i) ELSE Built(i, Nothing)

\* Whether the "<" at i opens the type arguments of a call: decided by the kinds of the
\* tokens up to ">" and "(" alone.
TypeArgumentsAhead(text, i) ==
  /\ Kind(text, i) = "<"
  /\ \E j \in i + 1..Len(text) :
       /\ Kind(text, j) = ">" /\ Kind(text, j + 1) = "("
       /\ \A k \in i + 1..j - 1 : Kind(text, k) = IF (k - i) % 2 = 1 THEN "IDENT" ELSE ","

RECURSIVE TypeArguments(_, _, _)
TypeArgumentsAfter(text, first, scope) ==
  IF Kind(text, first.next) = ","
  THEN Joined(first, TypeArguments(text, first.next + 1, scope))
  ELSE Single(first, Take(text, first.next, <<">">>))
TypeArguments(text, i, scope) == TypeArgumentsAfter(text, TypeNamed(text, i, scope), scope)

TypeParameter(text, i, names) ==
  IF Kind(text, i) # "IDENT" \/ text[i].value \in names \cup BuiltinNames THEN Wrong
  ELSE IF Kind(text, i + 1) # ":" THEN Built(i + 1, Node("parameter", text[i].value, <<>>, i, i))
  ELSE IF Kind(text, i + 2) = "IDENT" /\ text[i + 2].value \in Constraints
  THEN Built(i + 3, Node("parameter", text[i].value,
                         <<Node("constraint", text[i + 2].value, <<>>, i + 2, i + 2)>>, i, i + 2))
  ELSE Wrong

RECURSIVE TypeParameters(_, _, _)
TypeParametersAfter(text, first, names) ==
  IF Kind(text, first.next) = ","
  THEN Joined(first, TypeParameters(text, first.next + 1, names \cup {first.node.name}))
  ELSE Single(first, Take(text, first.next, <<">">>))
TypeParameters(text, i, names) == TypeParametersAfter(text, TypeParameter(text, i, names), names)

-----------------------------------------------------------------------------
\* Expressions: six levels of binary operators, the loosest first, all of them
\* associating to the left.
Levels == <<{"or"}, {"and"}, {"==", "!="}, {"<", "<=", ">", ">="}, {"+", "-"}, {"*", "/", "%"}>>

RECURSIVE Level(_, _, _, _), Chain(_, _, _, _), Arguments(_, _, _)
Expression(text, i, scope) == Level(text, i, scope, 1)

ArgumentsAfter(text, first, scope) ==
  IF Kind(text, first.next) = ","
  THEN Joined(first, Arguments(text, first.next + 1, scope))
  ELSE Single(first, Take(text, first.next, <<")">>))
Arguments(text, i, scope) ==
  IF Kind(text, i) = ")" /\ Kind(text, i - 1) = "(" THEN Built(i + 1, Nothing)
  ELSE ArgumentsAfter(text, Expression(text, i, scope), scope)

Call(text, i, types, arguments) ==
  Built(arguments.next, Node("call", text[i].value, <<types.node, arguments.node>>,
                             i, arguments.next - 1))
NameOrCallWith(text, i, types, scope) ==
  IF types.next = 0 THEN Wrong
  ELSE IF Kind(text, types.next) # "(" THEN Built(i + 1, Node("name", text[i].value, <<>>, i, i))
  ELSE Call(text, i, types, Arguments(text, types.next + 1, scope))
NameOrCall(text, i, scope) ==
  NameOrCallWith(text, i, IF TypeArgumentsAhead(text, i + 1) THEN TypeArguments(text, i + 2, scope)
                          ELSE Built(i + 1, Nothing), scope)

InBrackets(text, i, inner) ==
  Built(Take(text, inner.next, <<")">>), [inner.node EXCEPT !.from = i, !.to = inner.next])
Primary(text, i, scope) ==
  CASE Kind(text, i) \in {"NUMBER", "FLOAT", "STRING", "true", "false"} ->
         Built(i + 1, Node(text[i].kind, text[i].value, <<>>, i, i))
    [] Kind(text, i) = "IDENT" -> NameOrCall(text, i, scope)
    [] Kind(text, i) = "("     -> InBrackets(text, i, Expression(text, i + 1, scope))
    [] OTHER -> Wrong

RECURSIVE Unary(_, _, _)
Applied(text, i, operand) ==
  Built(operand.next, Node("unary", text[i].value, <<operand.node>>, i, operand.node.to))
Unary(text, i, scope) ==
  IF Kind(text, i) \in {"not", "+", "-"}
  THEN Applied(text, i, Unary(text, i + 1, scope))
  ELSE Primary(text, i, scope)

Binary(left, operator, right) ==
  Built(right.next, Node("binary", operator, <<left.node, right.node>>,
                         left.node.from, right.node.to))

Chain(text, left, scope, level) ==
  IF Kind(text, left.next) \notin Levels[level] THEN left
  ELSE Chain(text, Binary(left, Kind(text, left.next),
                          Level(text, left.next + 1, scope, level + 1)), scope, level)

Level(text, i, scope, level) ==
  IF level > Len(Levels) THEN Unary(text, i, scope)
  ELSE Chain(text, Level(text, i, scope, level + 1), scope, level)

-----------------------------------------------------------------------------
\* A statement, an action or a member: some tokens and then an expression, or a keyword
\* and a name.
ClauseOf(text, i, kinds, e) ==
  Built(e.next, Node(kinds[1], IF Len(kinds) > 1 THEN text[i + 1].value ELSE "",
                     <<e.node>>, i, e.node.to))
Clause(text, i, kinds, scope) ==
  ClauseOf(text, i, kinds, Expression(text, Take(text, i, kinds), scope))
Named(text, i, keyword) ==
  LET next == Take(text, i, <<keyword, "IDENT">>) IN
  Built(next, Node(keyword, text[i + 1].value, <<>>, i, i + 1))

RECURSIVE FunctionBlock(_, _, _), Actions(_, _)
WhenOf(i, condition, then, else) ==
  Built(else.next, Node("when", "", <<condition.node, then.node, else.node>>, i, else.next - 1))

FunctionElse(text, i, condition, then, scope) ==
  WhenOf(i, condition, then,
         IF Kind(text, then.next) = "otherwise"
         THEN FunctionBlock(text, Take(text, then.next, <<"otherwise", "{">>), scope)
         ELSE Built(then.next, Nothing))
FunctionThen(text, i, condition, scope) ==
  FunctionElse(text, i, condition,
               FunctionBlock(text, Take(text, condition.next, <<"{">>), scope), scope)
FunctionWhen(text, i, scope) == FunctionThen(text, i, Expression(text, i + 1, scope), scope)

FunctionStatement(text, i, scope) ==
  CASE Kind(text, i) = "let"    -> Clause(text, i, <<"let", "IDENT", "=">>, scope)
    [] Kind(text, i) = "return" -> Clause(text, i, <<"return">>, scope)
    [] Kind(text, i) = "when"   -> FunctionWhen(text, i, scope)
    [] OTHER -> Wrong

FunctionBlockAfter(text, first, scope) ==
  IF first.next = 0 THEN Wrong ELSE Joined(first, FunctionBlock(text, first.next, scope))
FunctionBlock(text, i, scope) ==
  IF Kind(text, i) = "}" THEN Built(i + 1, Nothing)
  ELSE FunctionBlockAfter(text, FunctionStatement(text, i, scope), scope)

RECURSIVE Returns(_)
Returns(statements) ==
  \E i \in 1..Len(statements) :
    \/ statements[i].kind = "return"
    \/ statements[i].kind = "when" /\ \E p \in {2, 3} : Returns(statements[i].parts[p].parts)

ParameterOf(text, i, annotation) ==
  Built(annotation.next,
        Node("parameter", text[i].value, annotation.node.parts, i, annotation.next - 1))
Parameter(text, i, scope) ==
  IF Kind(text, i) = "IDENT" THEN ParameterOf(text, i, Annotation(text, i + 1, scope)) ELSE Wrong

RECURSIVE Parameters(_, _, _)
ParametersAfter(text, first, scope) ==
  IF Kind(text, first.next) = ","
  THEN Joined(first, Parameters(text, first.next + 1, scope))
  ELSE Single(first, Take(text, first.next, <<")">>))
Parameters(text, i, scope) ==
  IF Kind(text, i) = ")" /\ Kind(text, i - 1) = "(" THEN Built(i + 1, Nothing)
  ELSE ParametersAfter(text, Parameter(text, i, scope), scope)

\* The parts of a function, each read where the one before it ends.
FunctionOf(text, i, generics, parameters, returns, body) ==
  IF ~Returns(body.node.parts) THEN Wrong
  ELSE Built(body.next, Node("function", text[i + 1].value,
               <<generics.node, parameters.node, returns.node, body.node>>, i, body.next - 1))
FunctionBody(text, i, generics, scope, parameters, returns) ==
  FunctionOf(text, i, generics, parameters, returns,
             FunctionBlock(text, Take(text, returns.next, <<"{">>), scope))
FunctionReturns(text, i, generics, scope, parameters) ==
  FunctionBody(text, i, generics, scope, parameters, Annotation(text, parameters.next, scope))
FunctionParameters(text, i, generics, scope) ==
  FunctionReturns(text, i, generics, scope,
                  Parameters(text, Take(text, generics.next, <<"(">>), scope))
FunctionScope(text, i, generics) ==
  FunctionParameters(text, i, generics,
                     {generics.node.parts[p].name : p \in 1..Len(generics.node.parts)})
Function(text, i) ==
  LET name == Take(text, i, <<"function", "IDENT">>) IN
  FunctionScope(text, i, IF Kind(text, name) = "<" THEN TypeParameters(text, name + 1, {})
                         ELSE Built(name, Nothing))

-----------------------------------------------------------------------------
WhenElse(text, i, condition, then) ==
  WhenOf(i, condition, then,
         IF Kind(text, then.next) = "otherwise"
         THEN Actions(text, Take(text, then.next, <<"otherwise", "{">>))
         ELSE Built(then.next, Nothing))
WhenThen(text, i, condition) ==
  WhenElse(text, i, condition, Actions(text, Take(text, condition.next, <<"{">>)))
When(text, i) == WhenThen(text, i, Expression(text, i + 1, {}))

Action(text, i) ==
  CASE Kind(text, i) = "add"     -> Clause(text, i, <<"add", "IDENT">>, {})
    [] Kind(text, i) = "set"     -> Clause(text, i, <<"set", "IDENT", "=">>, {})
    [] Kind(text, i) = "message" -> Clause(text, i, <<"message">>, {})
    [] Kind(text, i) \in {"emit", "invoke"} -> Named(text, i, Kind(text, i))
    [] Kind(text, i) = "when"    -> When(text, i)
    [] OTHER -> Wrong

ActionsAfter(text, first) ==
  IF first.next = 0 THEN Wrong ELSE Joined(first, Actions(text, first.next))
Actions(text, i) ==
  IF Kind(text, i) = "}" THEN Built(i + 1, Nothing) ELSE ActionsAfter(text, Action(text, i))

PathOf(text, i, actions) ==
  Built(actions.next,
        Node("path", text[i + 1].value,
             <<Node("NUMBER", text[i + 3].value, <<>>, i + 3, i + 3), actions.node>>,
             i, actions.next - 1))
Path(text, i) ==
  PathOf(text, i, Actions(text, Take(text, i, <<"path", "IDENT", "@", "NUMBER", "{">>)))

RECURSIVE Paths(_, _)
PathsAfter(text, first) == IF first.next = 0 THEN Wrong ELSE Joined(first, Paths(text, first.next))
Paths(text, i) ==
  IF Kind(text, i) = "}" THEN Built(i + 1, Nothing) ELSE PathsAfter(text, Path(text, i))

CauseOf(text, i, paths) ==
  Built(paths.next, Node("cause", text[i + 1].value, <<paths.node>>, i, paths.next - 1))
Cause(text, i) == CauseOf(text, i, Paths(text, Take(text, i, <<"cause", "IDENT", "{">>)))

StateOf(text, i, annotation, initial) ==
  Built(initial.next, Node("state", text[i + 1].value, <<annotation.node, initial.node>>,
                           i, initial.node.to))
StateInitial(text, i, annotation) ==
  StateOf(text, i, annotation, Expression(text, Take(text, annotation.next, <<"=">>), {}))
State(text, i) == StateInitial(text, i, Annotation(text, Take(text, i, <<"state", "IDENT">>), {}))

\* The members of a declaration up to "}", of the kinds it admits.
Member(text, i, kinds) ==
  CASE Kind(text, i) \notin kinds -> Wrong
    [] Kind(text, i) = "state" -> State(text, i)
    [] Kind(text, i) = "cause" -> Cause(text, i)
    [] OTHER -> Named(text, i, Kind(text, i))

RECURSIVE Members(_, _, _)
MembersAfter(text, first, kinds) ==
  IF first.next = 0 THEN Wrong ELSE Joined(first, Members(text, first.next, kinds))
Members(text, i, kinds) ==
  IF Kind(text, i) = "}" THEN Built(i + 1, Nothing)
  ELSE MembersAfter(text, Member(text, i, kinds), kinds)

\* A node keeps its members in one list for each kind, in the order of the source.
OfKind(members, kind) ==
  LET chosen(m) == m.kind = kind IN List(SelectSeq(members.node.parts, chosen))
DeclaredOf(text, i, kinds, members, extends) ==
  Built(members.next, Node(Kind(text, i), text[i + 1].value,
          [k \in 1..Len(kinds) |-> OfKind(members, kinds[k])] \o extends, i, members.next - 1))
Declared(text, i, head, kinds, extends) ==
  DeclaredOf(text, i, kinds,
             Members(text, Take(text, i, head), {kinds[k] : k \in 1..Len(kinds)}), extends)

Directive(text, i) ==
  Declared(text, i, <<"directive", "IDENT", "{">>,
           <<"state", "event", "cause", "requires", "authority">>, <<>>)
Workflow(text, i) == Declared(text, i, <<"workflow", "IDENT", "{">>, <<"invoke">>, <<>>)
Extends(text, i)  == Kind(text, i + 2) = "extends"
Authority(text, i) ==
  Declared(text, i, IF Extends(text, i) THEN <<"authority", "IDENT", "extends", "IDENT", "{">>
                    ELSE <<"authority", "IDENT", "{">>, <<"capability">>,
           IF Extends(text, i) THEN <<Node("extends", text[i + 3].value, <<>>, i + 2, i + 3)>>
           ELSE <<>>)
Role(text, i)      == Declared(text, i, <<"role", "IDENT", "{">>, <<"authority">>, <<>>)
Principal(text, i) == Declared(text, i, <<"principal", "IDENT", "{">>, <<"authority", "role">>, <<>>)

Declaration(text, i) ==
  CASE Kind(text, i) = "function"  -> Function(text, i)
    [] Kind(text, i) = "directive" -> Directive(text, i)
    [] Kind(text, i) = "workflow"  -> Workflow(text, i)
    [] Kind(text, i) = "authority" -> Authority(text, i)
    [] Kind(text, i) = "principal" -> Principal(text, i)
    [] Kind(text, i) = "role"      -> Role(text, i)
    [] OTHER -> Wrong

\* The one declaration of a text, or Nothing when there is an error.
Whole(text, d) == IF d.next = Len(text) + 1 THEN d.node ELSE Nothing
Parsed(text)   == Whole(text, Declaration(text, 1))

\* A node without its spans, which the comparison of syntax trees leaves out.
RECURSIVE Tree(_)
Tree(n) == [kind |-> n.kind, name |-> n.name, parts |-> [i \in 1..Len(n.parts) |-> Tree(n.parts[i])]]
=============================================================================
