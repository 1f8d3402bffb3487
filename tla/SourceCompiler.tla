--------------------------- MODULE SourceCompiler ---------------------------
(***************************************************************************)
(* Compiling one parsed source unit to AIR (language/compiler.py): a pure  *)
(* function or a directive.  A unit is compiled with the signatures of the *)
(* standard library alone, so whatever depends on another function of the  *)
(* program is left to the linked validator.                                *)
(*                                                                         *)
(* A function is a record of its name, parameters, return type, type       *)
(* parameters and body; its AIR has the same shape.  A directive has       *)
(* states, events and one ordered list of actions.  An omitted annotation  *)
(* is Unknown.  Source maps are left out.                                  *)
(***************************************************************************)
EXTENDS StandardLibrary, SequencesExt

CONSTANT MaxConditionalDepth  \* the nesting of conditionals every stage accepts

\* The names and the call targets of an expression, in source order.
RECURSIVE Identifiers(_)
Identifiers(e) ==
  CASE e.kind = "literal" -> <<>>
    [] e.kind = "name"    -> <<e.name>>
    [] e.kind = "unary"   -> Identifiers(e.operand)
    [] e.kind = "binary"  -> Identifiers(e.left) \o Identifiers(e.right)
    [] e.kind = "call"    ->
         FlattenSeq([i \in Positions(e.arguments) |-> Identifiers(e.arguments[i])])

RECURSIVE CallTargets(_)
CallTargets(e) ==
  CASE e.kind \in {"literal", "name"} -> {}
    [] e.kind = "unary"  -> CallTargets(e.operand)
    [] e.kind = "binary" -> CallTargets(e.left) \cup CallTargets(e.right)
    [] e.kind = "call"   ->
         {e.target} \cup UNION {CallTargets(e.arguments[i]) : i \in Positions(e.arguments)}

CompletelyTyped(signature) ==
  signature.returns # Unknown /\ \A i \in Positions(signature.parameters) :
                                   signature.parameters[i] # Unknown

-----------------------------------------------------------------------------
\* Faulty variant of InferSource: what is not known here is refused.
InferAtOnce(e, scope, deferred, functions) == StrictType(e, scope, functions)

\* The type of a source expression, Unknown when the linked validator has to find it:
\* it calls a function not completely known, or its first untyped name is a deferred local.
InferSource(e, scope, deferred, functions) ==
  LET open == {i \in Positions(Identifiers(e)) :
                 Identifiers(e)[i] \in DOMAIN scope /\ scope[Identifiers(e)[i]] = Unknown}
      first == Identifiers(e)[CHOOSE i \in open : \A j \in open : i <= j]
  IN IF \E t \in CallTargets(e) : t \notin DOMAIN functions \/ ~CompletelyTyped(functions[t])
     THEN Unknown
     ELSE IF open # {} THEN (IF first \in deferred THEN Unknown ELSE Refused)
     ELSE StrictType(e, scope, functions)

RequireSource(e, expected, scope, deferred, functions) ==
  InferSource(e, scope, deferred, functions) \in {Unknown, expected}

\* One block of a function's statements.  A let binds for the statements after it; a
\* branch works on a copy.
RECURSIVE TypeCheckStatements(_, _, _, _, _)
TypeCheckStatements(statements, scope, deferred, returns, functions) ==
  statements # <<>> =>
    LET first == Head(statements)
        type  == InferSource(first.expression, scope, deferred, functions)
        block(b) == TypeCheckStatements(b, scope, deferred, returns, functions)
        rest(s, d) == TypeCheckStatements(Tail(statements), s, d, returns, functions)
    IN CASE first.kind = "let" ->
              /\ type # Refused
              /\ rest((first.name :> type) @@ scope,
                      IF type = Unknown THEN deferred \cup {first.name}
                      ELSE deferred \ {first.name})
         [] first.kind = "return" ->
              /\ IF returns = Unknown THEN type # Refused
                 ELSE RequireSource(first.expression, returns, scope, deferred, functions)
              /\ rest(scope, deferred)
         [] first.kind = "when" ->
              /\ type \in {Unknown, "bool"}
              /\ block(first.actions) /\ block(first.otherwise)
              /\ rest(scope, deferred)

Annotated(function) ==
  function.returns # Unknown \/ \E i \in Positions(function.parameters) :
                                  function.parameters[i].type # Unknown

ParameterTypes(function) ==
  [name \in {function.parameters[i].name : i \in Positions(function.parameters)} |->
     function.parameters[CHOOSE i \in Positions(function.parameters) :
                           function.parameters[i].name = name].type]

\* A function without annotations is not checked; one with all of them may call itself.
TypeCheckFunction(function) ==
  LET own == SignatureOf(function)
      available == IF CompletelyTyped(own) THEN Standard @@ (function.name :> own) ELSE Standard
  IN Annotated(function) =>
       TypeCheckStatements(function.body, ParameterTypes(function), {}, function.returns, available)

-----------------------------------------------------------------------------
\* Control flow: a statement that always returns is the last of its block.
RECURSIVE DefinitelyReturns(_)
DefinitelyReturns(statements) ==
  \E i \in Positions(statements) :
    \/ statements[i].kind = "return"
    \/ /\ statements[i].kind = "when"
       /\ DefinitelyReturns(statements[i].actions)
       /\ DefinitelyReturns(statements[i].otherwise)

RECURSIVE SourceFlow(_, _)
SourceFlow(statements, depth) ==
  /\ depth <= MaxConditionalDepth
  /\ \A i \in Positions(statements) :
       /\ ~DefinitelyReturns(SubSeq(statements, 1, i - 1))
       /\ statements[i].kind = "when" =>
            /\ SourceFlow(statements[i].actions, depth + 1)
            /\ statements[i].otherwise # <<>> => SourceFlow(statements[i].otherwise, depth + 1)

\* The let statements before any other: the local bindings of the older AIR.
LeadingLocals(function) ==
  LET leading == {i \in Positions(function.body) :
                    \A j \in 1..i : function.body[j].kind = "let"}
  IN [i \in leading |-> function.body[i].name]

Distinct(names) == \A i, j \in Positions(names) : names[i] = names[j] => i = j

FunctionCompiles(function) ==
  LET parameters == [i \in Positions(function.parameters) |-> function.parameters[i].name]
      locals     == LeadingLocals(function)
  IN /\ function.name \notin DOMAIN Standard
     /\ Distinct(parameters)
     /\ Distinct(locals)
     /\ \A i \in Positions(locals), j \in Positions(parameters) : locals[i] # parameters[j]
     /\ SourceFlow(function.body, 0)
     /\ TypeCheckFunction(function)

-----------------------------------------------------------------------------
\* Directives.  A state without annotation is an int.
StateType(state) == IF state.type = Unknown THEN "int" ELSE state.type
StateTypes(directive) ==
  [name \in {directive.states[i].name : i \in Positions(directive.states)} |->
     StateType(directive.states[CHOOSE i \in Positions(directive.states) :
                                  directive.states[i].name = name])]

TypeCheckStates(directive) ==
  \A i \in Positions(directive.states) :
    RequireSource(directive.states[i].initial, StateType(directive.states[i]),
                  StateTypes(directive), {}, Standard)

\* A state that is not declared is left to the compilation of the action.
RECURSIVE TypeCheckActions(_, _)
TypeCheckActions(actions, types) ==
  LET type(e) == InferSource(e, types, {}, Standard) IN
  \A i \in Positions(actions) :
    LET a == actions[i] IN
    CASE a.kind \in {"add", "set"} ->
           a.state \in DOMAIN types =>
             /\ a.kind = "add" => types[a.state] \in {"int", "float"}
             /\ RequireSource(a.expression, types[a.state], types, {}, Standard)
      [] a.kind = "message" -> type(a.expression) # Refused
      [] a.kind = "when" ->
           /\ type(a.expression) \in {Unknown, "bool"}
           /\ TypeCheckActions(a.actions, types) /\ TypeCheckActions(a.otherwise, types)
      [] a.kind \in {"emit", "invoke"} -> TRUE

\* A message is for the emit right after it; states and events are the directive's own.
RECURSIVE ActionsCompile(_, _, _)
ActionsCompile(actions, types, events) ==
  \A i \in Positions(actions) :
    LET a == actions[i] IN
    CASE a.kind = "message" -> i < Len(actions) /\ actions[i + 1].kind = "emit"
      [] a.kind = "emit"    -> a.event \in events
      [] a.kind = "add"     -> a.state \in DOMAIN types /\ types[a.state] \in {"int", "float"}
      [] a.kind = "set"     -> a.state \in DOMAIN types /\ types[a.state] # "void"
      [] a.kind = "when"    -> /\ ActionsCompile(a.actions, types, events)
                               /\ ActionsCompile(a.otherwise, types, events)
      [] a.kind = "invoke"  -> TRUE

\* The AIR of the actions: an emission takes the message before it as its fact.
RECURSIVE CompiledActions(_, _)
CompiledActions(actions, types) ==
  LET compiled(i) ==
        LET a == actions[i] IN
        CASE a.kind = "message" -> <<>>
          [] a.kind = "emit" ->
               <<[kind |-> "emit", event |-> a.event,
                  facts |-> IF i > 1 /\ actions[i - 1].kind = "message"
                            THEN <<actions[i - 1].expression>> ELSE <<>>]>>
          [] a.kind \in {"add", "set"} ->
               <<[kind |-> "assign", state |-> a.state, expression |-> a.expression,
                  operation |-> <<a.kind, types[a.state]>>]>>
          [] a.kind = "when" ->
               <<[kind |-> "when", expression |-> a.expression,
                  actions |-> CompiledActions(a.actions, types),
                  otherwise |-> CompiledActions(a.otherwise, types)]>>
          [] a.kind = "invoke" -> <<a>>
  IN FlattenSeq([i \in Positions(actions) |-> compiled(i)])

DirectiveCompiles(directive) ==
  LET types == StateTypes(directive) IN
  /\ TypeCheckStates(directive)
  /\ TypeCheckActions(directive.actions, types)
  /\ ActionsCompile(directive.actions, types, directive.events)

CompiledDirective(directive) ==
  [states |-> [i \in Positions(directive.states) |->
                 [directive.states[i] EXCEPT !.type = StateType(directive.states[i])]],
   events |-> directive.events,
   actions |-> CompiledActions(directive.actions, StateTypes(directive))]
=============================================================================
