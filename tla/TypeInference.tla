--------------------------- MODULE TypeInference ---------------------------
(***************************************************************************)
(* The types of ApexForge expressions (inference.py over generics.py,      *)
(* constraints.py, substitution.py and specialization.py): strict          *)
(* inference for the compiler and the generic lowering, partial inference  *)
(* for the linked validator, and the substitutions of generic calls.       *)
(*                                                                         *)
(* A type is a string: a builtin, a type variable of one function, or      *)
(* Unknown (None in the code).  Every error of the code is the one string  *)
(* Refused: which of its codes is raised first is left out.                *)
(***************************************************************************)
EXTENDS Naturals, Sequences, FiniteSets, TLC

CONSTANTS
  TypeVariable,    \* the type parameters of the program's functions
  NumericVariable  \* those declared with the constraint numeric

ASSUME VariableAssumption == NumericVariable \subseteq TypeVariable

Unknown == "unknown"
Refused == "refused"
Builtin == {"int", "bool", "string", "float", "void", "result", "collection"}
Type    == Builtin \cup TypeVariable

Arithmetic == {"+", "-", "*", "/", "%"}
Ordering   == {"<", "<=", ">", ">="}
Logical    == {"and", "or"}
Equality   == {"==", "!="}

IsVariable(t)      == t \in TypeVariable
SatisfiesNumeric(t) == t \in {"int", "float"} \cup NumericVariable
\* A variable constrained to numbers takes numbers only.
Admits(v, t)       == v \in NumericVariable => SatisfiesNumeric(t)

-----------------------------------------------------------------------------
\* Substitutions: functions from the bound variables to types.

RECURSIVE Followed(_, _, _)
Followed(s, t, visited) ==
  IF t \notin DOMAIN s \/ t \in visited THEN t
  ELSE IF s[t] = t THEN t ELSE Followed(s, s[t], visited \cup {t})
Resolve(s, t) == Followed(s, t, {})

\* A signature lists parameter types, the type parameters in order, and the return type.
Positions(seq) == 1..Len(seq)
VariablesOf(signature) == {signature.generics[i] : i \in Positions(signature.generics)}

ExplicitFits(signature, types) ==
  /\ Len(types) = Len(signature.generics)
  /\ \A i \in Positions(types) : types[i] # "void" /\ Admits(signature.generics[i], types[i])

ExplicitSubstitution(signature, types) ==
  [v \in VariablesOf(signature) |->
     types[CHOOSE i \in Positions(types) : signature.generics[i] = v]]

\* Every argument binds its variable, all to the same type; a type parameter that no
\* parameter mentions cannot be inferred.
InferredFits(signature, actual, complete) ==
  LET declared == signature.parameters IN
  /\ Len(actual) = Len(declared)
  /\ \A i \in Positions(declared) :
       IF declared[i] = Unknown \/ actual[i] = Unknown THEN ~complete
       ELSE IF IsVariable(declared[i])
       THEN /\ actual[i] # "void" /\ Admits(declared[i], actual[i])
            /\ \A j \in 1..(i - 1) :
                 declared[j] = declared[i] => actual[j] \in {Unknown, actual[i]}
       ELSE actual[i] = declared[i]
  /\ \A v \in VariablesOf(signature) : \E i \in Positions(declared) : declared[i] = v

InferredSubstitution(signature, actual) ==
  LET binds(v, i) == signature.parameters[i] = v /\ actual[i] # Unknown IN
  [v \in {v \in TypeVariable : \E i \in Positions(actual) : binds(v, i)} |->
     actual[CHOOSE i \in Positions(actual) : binds(v, i)]]

ArgumentsFit(signature, actual, s, complete) ==
  \A i \in Positions(signature.parameters) \cap Positions(actual) :
    LET declared == signature.parameters[i]
        expected == Resolve(s, declared)
        open     == IsVariable(expected) /\ declared \notin DOMAIN s
    IN IF declared = Unknown \/ actual[i] = Unknown \/ open
       THEN ~complete ELSE actual[i] = expected

ReturnFits(signature, s, complete) ==
  complete => /\ signature.returns # Unknown
              /\ IsVariable(signature.returns) => signature.returns \in DOMAIN s

ReturnOf(signature, s) ==
  IF IsVariable(signature.returns) /\ signature.returns \notin DOMAIN s
  THEN Unknown ELSE Resolve(s, signature.returns)

Substitution(signature, actual, types) ==
  IF types # <<>> THEN ExplicitSubstitution(signature, types)
  ELSE InferredSubstitution(signature, actual)

\* resolve_call_specialization raises nothing.
SpecializationFits(signature, actual, types, complete) ==
  /\ signature.generics # <<>>
  /\ IF types # <<>> THEN ExplicitFits(signature, types)
     ELSE InferredFits(signature, actual, complete)
  /\ LET s == Substitution(signature, actual, types) IN
     ArgumentsFit(signature, actual, s, complete) /\ ReturnFits(signature, s, complete)

\* The key of a specialization: the types of the type parameters, in order.
TypeArguments(signature, actual, types) ==
  LET s == Substitution(signature, actual, types) IN
  [i \in Positions(signature.generics) |-> Resolve(s, signature.generics[i])]
\* A key without variables closes the parameters too: they mention no others.
Closed(key) == \A i \in Positions(key) : ~IsVariable(key[i])

-----------------------------------------------------------------------------
\* Expressions.  Mode "strict" is infer_expression_type; "partial" and "complete" are
\* infer_expression_type_partial without and with require_complete_arguments.

NumericResult(left, right) ==
  IF left = right /\ SatisfiesNumeric(left) THEN left ELSE Refused

UnaryType(operator, operand) ==
  IF operator = "not" THEN (IF operand = "bool" THEN "bool" ELSE Refused)
  ELSE NumericResult(operand, operand)

BinaryType(operator, left, right) ==
  CASE operator = "+" /\ "string" \in {left, right} ->
         IF "void" \in {left, right} THEN Refused ELSE "string"
    [] operator \in Arithmetic /\ ~(operator = "+" /\ "string" \in {left, right}) ->
         NumericResult(left, right)
    [] operator \in Ordering ->
         IF NumericResult(left, right) = Refused THEN Refused ELSE "bool"
    [] operator \in Logical ->
         IF left = "bool" /\ right = "bool" THEN "bool" ELSE Refused
    [] operator \in Equality ->
         IF left = right /\ left # "void" THEN "bool" ELSE Refused

\* Faulty variant of PlainFits: the arguments go unchecked.
PlainFitsAny(signature, actual, mode) == mode = "strict" => signature.returns # Unknown

\* A call of a function that is not generic.
PlainFits(signature, actual, mode) ==
  /\ mode = "strict" => signature.returns # Unknown
  /\ \A i \in Positions(actual) :
       LET declared == signature.parameters[i] IN
       IF declared = Unknown THEN mode # "strict"
       ELSE IF actual[i] = Unknown THEN mode = "partial"
       ELSE actual[i] = declared

CallType(signature, actual, types, mode) ==
  IF Len(actual) # Len(signature.parameters) \/ \E i \in Positions(actual) : actual[i] = Refused
  THEN Refused
  ELSE IF types # <<>> \/ signature.generics # <<>>
  THEN IF SpecializationFits(signature, actual, types, mode # "partial")
       THEN ReturnOf(signature, Substitution(signature, actual, types)) ELSE Refused
  ELSE IF PlainFits(signature, actual, mode) THEN signature.returns ELSE Refused

RECURSIVE TypeOf(_, _, _, _)
TypeOf(e, identifiers, functions, mode) ==
  LET type(sub) == TypeOf(sub, identifiers, functions, mode) IN
  CASE e.kind = "literal" -> e.value.type
    [] e.kind = "name" ->
         IF e.name \notin DOMAIN identifiers \/
            (mode = "strict" /\ identifiers[e.name] = Unknown)
         THEN Refused ELSE identifiers[e.name]
    [] e.kind = "unary" ->
         LET operand == type(e.operand) IN
         IF operand \in {Refused, Unknown} THEN operand ELSE UnaryType(e.operator, operand)
    [] e.kind = "binary" ->
         LET left == type(e.left) right == type(e.right) IN
         IF Refused \in {left, right} THEN Refused
         ELSE IF Unknown \in {left, right} THEN Unknown
         ELSE BinaryType(e.operator, left, right)
    [] e.kind = "call" ->
         IF e.target \notin DOMAIN functions THEN Refused
         ELSE CallType(functions[e.target], [i \in Positions(e.arguments) |-> type(e.arguments[i])],
                       e.types, mode)

StrictType(e, identifiers, functions) == TypeOf(e, identifiers, functions, "strict")
PartialType(e, identifiers, functions, complete) ==
  TypeOf(e, identifiers, functions, IF complete THEN "complete" ELSE "partial")

\* The signature an AIR function declares.
SignatureOf(function) ==
  [parameters |-> [i \in Positions(function.parameters) |-> function.parameters[i].type],
   generics |-> function.generics, returns |-> function.returns]
=============================================================================
