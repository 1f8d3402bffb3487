-------------------------- MODULE LinkedValidation --------------------------
(***************************************************************************)
(* What RuntimeValidator demands of the functions, states and actions of a *)
(* linked program before it may run: scopes, control flow and references   *)
(* of every function, no recursion, states with a value of their type, and *)
(* the types of everything now that all signatures are known.              *)
(*                                                                         *)
(* A linked program has functions (a function from names to AIR functions) *)
(* and one compiled directive.                                             *)
(***************************************************************************)
EXTENDS SourceCompiler

\* The type parameters a function declares are its own and are all it uses.
DeclaredType(function, t) == IsVariable(t) => t \in VariablesOf(SignatureOf(function))
ParametersFit(function) ==
  LET parameters == function.parameters IN
  /\ Distinct(function.generics)
  /\ Distinct([i \in Positions(parameters) |-> parameters[i].name])
  /\ \A i \in Positions(parameters) : DeclaredType(function, parameters[i].type)
  /\ DeclaredType(function, function.returns)

-----------------------------------------------------------------------------
\* Every name is visible, every call reaches a function with as many parameters.
Arity(target, functions) ==
  IF target \in DOMAIN functions THEN Len(functions[target].parameters)
  ELSE Len(Standard[target].parameters)

RECURSIVE ExpressionFits(_, _, _)
ExpressionFits(e, visible, functions) ==
  CASE e.kind = "literal" -> TRUE
    [] e.kind = "name"    -> e.name \in visible
    [] e.kind = "unary"   -> ExpressionFits(e.operand, visible, functions)
    [] e.kind = "binary"  -> /\ ExpressionFits(e.left, visible, functions)
                             /\ ExpressionFits(e.right, visible, functions)
    [] e.kind = "call"    ->
         /\ e.target \in DOMAIN functions \cup DOMAIN Standard
         /\ Len(e.arguments) = Arity(e.target, functions)
         /\ \A i \in Positions(e.arguments) : ExpressionFits(e.arguments[i], visible, functions)

\* Whatever follows a definite return is unreachable; a let may not shadow; a branch's
\* bindings end with it.
RECURSIVE StatementsFit(_, _, _, _)
StatementsFit(statements, visible, functions, depth) ==
  /\ depth <= MaxConditionalDepth
  /\ \A i \in Positions(statements) :
       LET s == statements[i]
           before == SubSeq(statements, 1, i - 1)
           seen == visible \cup {b.name : b \in {b \in ToSet(before) : b.kind = "let"}}
       IN /\ ~DefinitelyReturns(before)
          /\ ExpressionFits(s.expression, seen, functions)
          /\ s.kind = "let" => s.name \notin seen
          /\ s.kind = "when" =>
               /\ StatementsFit(s.actions, seen, functions, depth + 1)
               /\ s.otherwise # <<>> => StatementsFit(s.otherwise, seen, functions, depth + 1)

RECURSIVE StatementTargets(_)
StatementTargets(statements) ==
  UNION {LET s == statements[i] IN
         CallTargets(s.expression) \cup
           (IF s.kind = "when" THEN StatementTargets(s.actions) \cup StatementTargets(s.otherwise)
            ELSE {}) : i \in Positions(statements)}

\* The depth-first search over the calls; a standard function has none.
RECURSIVE ReachesActive(_, _, _)
ReachesActive(name, functions, active) ==
  name \in active \/ \E target \in StatementTargets(functions[name].body) \ DOMAIN Standard :
                       ReachesActive(target, functions, active \cup {name})

FunctionsFit(functions) ==
  /\ \A name \in DOMAIN functions :
       LET function == functions[name] IN
       /\ ParametersFit(function)
       /\ StatementsFit(function.body, DOMAIN ParameterTypes(function), functions, 0)
       /\ DefinitelyReturns(function.body)
  /\ \A name \in DOMAIN functions : ~ReachesActive(name, functions, {})

-----------------------------------------------------------------------------
\* A literal has the type its state declares; any other expression is taken as it is.
StatesFit(directive, functions) ==
  \A i \in Positions(directive.states) :
    LET state == directive.states[i] IN
    /\ state.type # "void"
    /\ state.initial.kind = "literal" => state.initial.value.type = state.type
    /\ ExpressionFits(state.initial, DOMAIN StateTypes(directive), functions)

RECURSIVE ActionsFit(_, _, _, _)
ActionsFit(actions, directive, functions, depth) ==
  LET types == StateTypes(directive)
      fits(e) == ExpressionFits(e, DOMAIN types, functions)
  IN /\ depth <= MaxConditionalDepth
     /\ \A i \in Positions(actions) :
          LET a == actions[i] IN
          CASE a.kind = "assign" ->
                 /\ a.state \in DOMAIN types /\ a.operation[2] = types[a.state]
                 /\ fits(a.expression)
            [] a.kind = "emit" ->
                 a.event \in directive.events /\ \A j \in Positions(a.facts) : fits(a.facts[j])
            [] a.kind = "when" ->
                 /\ fits(a.expression)
                 /\ ActionsFit(a.actions, directive, functions, depth + 1)
                 /\ ActionsFit(a.otherwise, directive, functions, depth + 1)

-----------------------------------------------------------------------------
\* Types.  A function's own name never hides one of the standard library.
SignaturesFit(functions) ==
  /\ DOMAIN functions \cap DOMAIN Standard = {}
  /\ \A name \in DOMAIN functions : \A i \in Positions(functions[name].parameters) :
       functions[name].parameters[i].type # "void"
LinkedSignatures(functions) ==
  Standard @@ [name \in DOMAIN functions |-> SignatureOf(functions[name])]

\* The parts of a typed function have known types, and it returns what it declares.
RECURSIVE StatementTypesFit(_, _, _, _, _)
StatementTypesFit(statements, scope, returns, signatures, complete) ==
  statements # <<>> =>
    LET first == Head(statements)
        type  == PartialType(first.expression, scope, signatures, complete)
        block(b) == StatementTypesFit(b, scope, returns, signatures, complete)
        rest(s) == StatementTypesFit(Tail(statements), s, returns, signatures, complete)
    IN /\ type # Refused
       /\ first.kind = "return" => returns = Unknown \/ type = returns
       /\ first.kind = "when" =>
            /\ type = "bool" \/ (type = Unknown /\ ~complete)
            /\ block(first.actions) /\ block(first.otherwise)
       /\ rest(IF first.kind = "let" THEN (first.name :> type) @@ scope ELSE scope)

FunctionTypesFit(function, signatures) ==
  StatementTypesFit(function.body, ParameterTypes(function), function.returns, signatures,
                    Annotated(function))

RECURSIVE ActionTypesFit(_, _, _)
ActionTypesFit(actions, types, signatures) ==
  LET type(e) == PartialType(e, types, signatures, FALSE) IN
  \A i \in Positions(actions) :
    LET a == actions[i] IN
    CASE a.kind = "assign" -> type(a.expression) \in {Unknown, a.operation[2]}
      [] a.kind = "emit"   -> \A j \in Positions(a.facts) : type(a.facts[j]) # Refused
      [] a.kind = "when"   -> /\ type(a.expression) \in {Unknown, "bool"}
                              /\ ActionTypesFit(a.actions, types, signatures)
                              /\ ActionTypesFit(a.otherwise, types, signatures)

TypesFit(program) ==
  LET signatures == LinkedSignatures(program.functions)
      types == StateTypes(program.directive)
  IN /\ SignaturesFit(program.functions)
     /\ \A i \in Positions(program.directive.states) :
          LET state == program.directive.states[i] IN
          PartialType(state.initial, types, signatures, FALSE) \in {Unknown, state.type}
     /\ \A name \in DOMAIN program.functions :
          FunctionTypesFit(program.functions[name], signatures)
     /\ ActionTypesFit(program.directive.actions, types, signatures)

\* The passes of validate, in order.
ValidProgram(program) ==
  /\ FunctionsFit(program.functions)
  /\ StatesFit(program.directive, program.functions)
  /\ ActionsFit(program.directive.actions, program.directive, program.functions, 0)
  /\ TypesFit(program)
=============================================================================
