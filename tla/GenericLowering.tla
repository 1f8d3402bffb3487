-------------------------- MODULE GenericLowering --------------------------
(***************************************************************************)
(* Lowering a linked program (type_system/closure.py and lowering.py): the *)
(* closed specializations that the program can reach are collected, each   *)
(* becomes a function of its own without type parameters, and every call   *)
(* of a generic function is redirected to its specialization.  A generic   *)
(* function of the standard library stays, with its types made explicit.   *)
(*                                                                         *)
(* A context is a function with the types of its type parameters, none for *)
(* a function that is not generic: <<name, types>>.                        *)
(***************************************************************************)
EXTENDS LinkedValidation

\* An expression with the types of a specialization in place of its variables.
Projected(t, s) == IF t \in DOMAIN s THEN Resolve(s, t) ELSE t
RECURSIVE ProjectExpression(_, _)
ProjectExpression(e, s) ==
  LET project(sub) == ProjectExpression(sub, s) IN
  CASE e.kind \in {"literal", "name"} -> e
    [] e.kind = "unary"  -> [e EXCEPT !.operand = project(@)]
    [] e.kind = "binary" -> [e EXCEPT !.left = project(@), !.right = project(@)]
    [] e.kind = "call"   ->
         [e EXCEPT !.arguments = [i \in Positions(@) |-> project(@[i])],
                   !.types = [i \in Positions(@) |-> Projected(@[i], s)]]

ContextSubstitution(function, types) ==
  [v \in VariablesOf(SignatureOf(function)) |->
     types[CHOOSE i \in Positions(types) : function.generics[i] = v]]
ProjectedParameters(function, s) ==
  [name \in DOMAIN ParameterTypes(function) |-> Projected(ParameterTypes(function)[name], s)]

\* The expressions of a block, projected, each with the types of the names it may use.
RECURSIVE ScanBlock(_, _, _, _)
ScanBlock(statements, scope, s, signatures) ==
  IF statements = <<>> THEN {}
  ELSE LET first == Head(statements)
           e == ProjectExpression(first.expression, s)
           block(b) == ScanBlock(b, scope, s, signatures)
           rest(names) == ScanBlock(Tail(statements), names, s, signatures)
       IN {[expression |-> e, scope |-> scope]} \cup
          CASE first.kind = "let" ->
                 rest((first.name :> StrictType(e, scope, signatures)) @@ scope)
            [] first.kind = "return" -> rest(scope)
            [] first.kind = "when" ->
                 block(first.actions) \cup block(first.otherwise) \cup rest(scope)

ScanContext(context, functions, signatures) ==
  LET function == functions[context[1]]
      s == ContextSubstitution(function, context[2])
  IN ScanBlock(function.body, ProjectedParameters(function, s), s, signatures)

\* The generic functions an expression calls, with their types.
RECURSIVE GenericCalls(_, _, _)
GenericCalls(e, scope, signatures) ==
  CASE e.kind \in {"literal", "name"} -> {}
    [] e.kind = "unary"  -> GenericCalls(e.operand, scope, signatures)
    [] e.kind = "binary" -> GenericCalls(e.left, scope, signatures)
                              \cup GenericCalls(e.right, scope, signatures)
    [] e.kind = "call" ->
         LET actual == [i \in Positions(e.arguments) |-> StrictType(e.arguments[i], scope, signatures)]
         IN UNION {GenericCalls(e.arguments[i], scope, signatures) : i \in Positions(e.arguments)}
              \cup IF signatures[e.target].generics = <<>> THEN {}
                   ELSE {<<e.target, TypeArguments(signatures[e.target], actual, e.types)>>}

\* Every expression has a type and calls no open specialization.
ScanFits(scanned, signatures) ==
  \A x \in scanned :
    /\ StrictType(x.expression, x.scope, signatures) # Refused
    /\ \A call \in GenericCalls(x.expression, x.scope, signatures) : Closed(call[2])
CallsOf(scanned, signatures) ==
  UNION {GenericCalls(x.expression, x.scope, signatures) : x \in scanned}

-----------------------------------------------------------------------------
\* The expressions of the directive: its names are the states.
RECURSIVE ActionExpressions(_)
ActionExpressions(actions) ==
  UNION {LET a == actions[i] IN
         CASE a.kind = "assign" -> {a.expression}
           [] a.kind = "emit"   -> ToSet(a.facts)
           [] a.kind = "when"   -> {a.expression} \cup ActionExpressions(a.actions)
                                     \cup ActionExpressions(a.otherwise)
         : i \in Positions(actions)}
ScanDirective(directive) ==
  LET initials == {directive.states[i].initial : i \in Positions(directive.states)} IN
  {[expression |-> e, scope |-> StateTypes(directive)] :
     e \in initials \cup ActionExpressions(directive.actions)}

\* The contexts found so far, closed under the calls of the program's own functions.  A
\* refused expression ends the search: its calls have no types.
RECURSIVE Reached(_, _, _)
Reached(contexts, functions, signatures) ==
  LET scanned == [c \in contexts |-> ScanContext(c, functions, signatures)]
      called  == UNION {CallsOf(scanned[c], signatures) : c \in contexts}
      own     == {c \in called : c[1] \in DOMAIN functions}
  IN IF \E c \in contexts : ~ScanFits(scanned[c], signatures) THEN contexts
     ELSE IF own \subseteq contexts THEN contexts
     ELSE Reached(contexts \cup own, functions, signatures)

PlainContexts(functions) == {<<f, <<>> >> : f \in {f \in DOMAIN functions : functions[f].generics = <<>>}}

Contexts(program) ==
  LET signatures == LinkedSignatures(program.functions)
      called == {c \in CallsOf(ScanDirective(program.directive), signatures) :
                   c[1] \in DOMAIN program.functions}
      own    == PlainContexts(program.functions)
  IN IF ScanFits(ScanDirective(program.directive), signatures)
     THEN Reached(own \cup called, program.functions, signatures) ELSE own

CollectionFits(program) ==
  LET signatures == LinkedSignatures(program.functions) IN
  /\ ScanFits(ScanDirective(program.directive), signatures)
  /\ \A c \in Contexts(program) :
       ScanFits(ScanContext(c, program.functions, signatures), signatures)

-----------------------------------------------------------------------------
\* The older AIR repeats the first return, wherever it stands, next to the leading locals.
RECURSIVE FirstReturn(_)
FirstReturn(statements) ==
  LET found(s) == IF s.kind = "return" THEN <<s.expression>>
                  ELSE IF s.kind = "when" THEN FirstReturn(s.actions) \o FirstReturn(s.otherwise)
                  ELSE <<>>
      all == FlattenSeq([i \in Positions(statements) |-> found(statements[i])])
  IN IF all = <<>> THEN <<>> ELSE <<Head(all)>>

RECURSIVE LeadingScope(_, _, _, _)
LeadingScope(statements, scope, s, signatures) ==
  IF statements = <<>> \/ Head(statements).kind # "let" THEN scope
  ELSE LET first == Head(statements) IN
       LeadingScope(Tail(statements),
         (first.name :> StrictType(ProjectExpression(first.expression, s), scope, signatures)) @@ scope,
         s, signatures)

\* That return is lowered too, so it has to make sense there.
ReturnLowers(context, functions, signatures) ==
  LET function == functions[context[1]]
      s == ContextSubstitution(function, context[2])
      scope == LeadingScope(function.body, ProjectedParameters(function, s), s, signatures)
  IN \A i \in Positions(FirstReturn(function.body)) :
       StrictType(ProjectExpression(FirstReturn(function.body)[i], s), scope, signatures) # Refused

LoweringFits(program) ==
  /\ CollectionFits(program)
  /\ \A c \in Contexts(program) :
       ReturnLowers(c, program.functions, LinkedSignatures(program.functions))

\* Faulty variant of SpecializedName: the types are forgotten.
SharedName(target, types) == IF types = <<>> THEN target ELSE "__apx_spec__" \o target
SpecializedName(target, types) ==
  IF types = <<>> THEN target
  ELSE "__apx_spec__" \o FoldLeft(LAMBDA a, b : a \o "__" \o b, target, types)

\* A projected expression with its generic calls redirected.
RECURSIVE RewriteExpression(_, _, _, _)
RewriteExpression(e, scope, functions, signatures) ==
  LET rewrite(sub) == RewriteExpression(sub, scope, functions, signatures) IN
  CASE e.kind \in {"literal", "name"} -> e
    [] e.kind = "unary"  -> [e EXCEPT !.operand = rewrite(@)]
    [] e.kind = "binary" -> [e EXCEPT !.left = rewrite(@), !.right = rewrite(@)]
    [] e.kind = "call"   ->
         LET actual == [i \in Positions(e.arguments) |-> StrictType(e.arguments[i], scope, signatures)]
             generic == signatures[e.target].generics # <<>>
             key == IF generic THEN TypeArguments(signatures[e.target], actual, e.types) ELSE <<>>
             own == e.target \in DOMAIN functions
         IN [e EXCEPT !.arguments = [i \in Positions(@) |-> rewrite(@[i])],
                      !.target = IF own THEN SpecializedName(@, key) ELSE @,
                      !.types = IF own THEN <<>> ELSE key]

RECURSIVE RewriteBlock(_, _, _, _, _)
RewriteBlock(statements, scope, s, functions, signatures) ==
  IF statements = <<>> THEN <<>>
  ELSE LET first == Head(statements)
           e == ProjectExpression(first.expression, s)
           rewritten == [first EXCEPT !.expression = RewriteExpression(e, scope, functions, signatures)]
           block(b) == RewriteBlock(b, scope, s, functions, signatures)
           rest(names) == RewriteBlock(Tail(statements), names, s, functions, signatures)
       IN CASE first.kind = "let" ->
                 <<rewritten>> \o rest((first.name :> StrictType(e, scope, signatures)) @@ scope)
            [] first.kind = "return" -> <<rewritten>> \o rest(scope)
            [] first.kind = "when" ->
                 <<[rewritten EXCEPT !.actions = block(@), !.otherwise = block(@)]>> \o rest(scope)

LowerFunction(context, functions, signatures) ==
  LET function == functions[context[1]]
      s == ContextSubstitution(function, context[2])
  IN [function EXCEPT
        !.name = SpecializedName(@, context[2]),
        !.parameters = [i \in Positions(@) |-> [@[i] EXCEPT !.type = Projected(@, s)]],
        !.returns = Projected(@, s),
        !.generics = <<>>,
        !.body = RewriteBlock(@, ProjectedParameters(function, s), s, functions, signatures)]

RECURSIVE RewriteActions(_, _, _, _)
RewriteActions(actions, types, functions, signatures) ==
  LET rewrite(e) == RewriteExpression(e, types, functions, signatures)
      block(b) == RewriteActions(b, types, functions, signatures)
      action(a) ==
        CASE a.kind = "assign" -> [a EXCEPT !.expression = rewrite(@)]
          [] a.kind = "emit"   -> [a EXCEPT !.facts = [j \in Positions(@) |-> rewrite(@[j])]]
          [] a.kind = "when"   ->
               [a EXCEPT !.expression = rewrite(@), !.actions = block(@), !.otherwise = block(@)]
  IN [i \in Positions(actions) |-> action(actions[i])]

\* The generic functions stay; specializations come after them.
Lowered(program) ==
  LET functions == program.functions
      signatures == LinkedSignatures(functions)
      generics == {f \in DOMAIN functions : functions[f].generics # <<>>}
      lowered == {LowerFunction(c, functions, signatures) : c \in Contexts(program)}
      types == StateTypes(program.directive)
  IN [functions |-> [f \in generics |-> functions[f]] @@
                    [name \in {f.name : f \in lowered} |-> CHOOSE f \in lowered : f.name = name],
      directive |-> [program.directive EXCEPT
        !.states = [i \in Positions(@) |->
           [@[i] EXCEPT !.initial = RewriteExpression(@, types, functions, signatures)]],
        !.actions = RewriteActions(@, types, functions, signatures)]]
=============================================================================
