----------------------------- MODULE Evaluation -----------------------------
(***************************************************************************)
(* The runtime's evaluator of expressions and pure functions               *)
(* (ApexForgeRuntime._evaluate_expression and its callees, with the call   *)
(* frames of call_stack.py).  Types are erased: only values are looked at. *)
(*                                                                         *)
(* A scope maps names to values: the cells of the state for a directive's  *)
(* expression, the bindings of the active frame for a function's.  A stack *)
(* is the sequence of the functions being evaluated.  The AIR evaluated is *)
(* the one SourceCompiler writes.                                          *)
(***************************************************************************)
EXTENDS SourceCompiler

CONSTANT MaxFunctionCallDepth  \* MAX_FUNCTION_CALL_DEPTH of the engine

IsNumber(v) == v.type \in {"int", "float"}
IsText(v)   == v.type = "string"
\* What a function body yields when it ends without a return.
Fell == Datum("none", 0, 1, "")

NumberType(a, b) == IF "float" \in {a.type, b.type} THEN "float" ELSE "int"
FirstFailed(a, b) == IF Failed(a) THEN a ELSE b

Rendered(v) ==
  CASE IsText(v)         -> v.text
    [] v.type = "bool"   -> IF IsTrue(v) THEN "True" ELSE "False"
    [] v.type = "int"    -> ToString(v.num)
    [] v.type = "float"  -> ToString(v.num) \o "/" \o ToString(v.den)

Scaled(n, d) == IF d < 0 THEN [num |-> -n, den |-> -d] ELSE [num |-> n, den |-> d]

\* Division makes a float of two ints; the remainder takes the sign of the divisor.
Quotient(a, b) ==
  LET q == Scaled(a.num * b.den, a.den * b.num) IN FloatValue(q.num, q.den)
Remainder(a, b) ==
  LET q == Scaled(a.num * b.den, a.den * b.num)
  IN Datum(NumberType(a, b), a.num * b.den - b.num * a.den * (q.num \div q.den),
           a.den * b.den, "")

ArithmeticResult(operator, a, b) ==
  CASE operator = "+" -> Datum(NumberType(a, b), a.num * b.den + b.num * a.den, a.den * b.den, "")
    [] operator = "-" -> Datum(NumberType(a, b), a.num * b.den - b.num * a.den, a.den * b.den, "")
    [] operator = "*" -> Datum(NumberType(a, b), a.num * b.num, a.den * b.den, "")
    [] operator = "/" -> Quotient(a, b)
    [] operator = "%" -> Remainder(a, b)

Ordered(operator, a, b) ==
  CASE operator = "<"  -> Less(a, b)   [] operator = "<=" -> ~Less(b, a)
    [] operator = ">"  -> Less(b, a)   [] operator = ">=" -> ~Less(a, b)

UnaryResult(operator, v) ==
  IF Failed(v) THEN v
  ELSE IF operator = "not" THEN (IF v.type = "bool" THEN BoolValue(~IsTrue(v)) ELSE Failure("type"))
  ELSE IF ~IsNumber(v) THEN Failure("type")
  ELSE IF operator = "-" THEN [v EXCEPT !.num = -@] ELSE v

\* Both operands have been evaluated.
BinaryResult(operator, a, b) ==
  IF Failed(a) \/ Failed(b) THEN FirstFailed(a, b)
  ELSE IF operator = "+" /\ (IsText(a) \/ IsText(b)) THEN TextValue(Rendered(a) \o Rendered(b))
  ELSE IF operator = "==" THEN BoolValue(Same(a, b))
  ELSE IF operator = "!=" THEN BoolValue(~Same(a, b))
  ELSE IF ~IsNumber(b) THEN Failure("type")
  ELSE IF operator = "/" /\ b.num = 0 THEN Failure("division by zero")
  ELSE IF operator = "%" /\ b.num = 0 THEN Failure("modulo by zero")
  ELSE IF ~IsNumber(a) THEN Failure("type")
  ELSE IF operator \in Ordering THEN BoolValue(Ordered(operator, a, b))
  ELSE ArithmeticResult(operator, a, b)

\* CallFrame.bind: the parameters by position.
Frame(function, values) ==
  [name \in {function.parameters[i].name : i \in Positions(values)} |->
     values[CHOOSE i \in Positions(values) : function.parameters[i].name = name]]

RECURSIVE Eval(_, _, _, _), Call(_, _, _, _), Execute(_, _, _, _, _)

Boolean(v) == IF Failed(v) \/ v.type = "bool" THEN v ELSE Failure("type")
\* The right operand is evaluated only when the left one does not decide.
Connected(e, left, scope, functions, stack) ==
  IF left.type # "bool" THEN Boolean(left)
  ELSE IF IsTrue(left) = (e.operator = "or") THEN left
  ELSE Boolean(Eval(e.right, scope, functions, stack))

\* A call whose arguments have been evaluated.
Called(e, values, functions, stack) ==
  LET failed == SelectSeq(values, Failed) IN
  IF e.target \notin DOMAIN Standard \cup DOMAIN functions THEN Failure("undefined")
  ELSE IF failed # <<>> THEN Head(failed)
  ELSE IF e.target \in DOMAIN Standard THEN Invoke(e.target, values, e.types)
  ELSE Call(functions[e.target], values, functions, stack)

Eval(e, scope, functions, stack) ==
  LET value(sub) == Eval(sub, scope, functions, stack) IN
  CASE e.kind = "literal" -> e.value
    [] e.kind = "name" ->
         IF e.name \in DOMAIN scope THEN scope[e.name] ELSE Failure("undefined")
    [] e.kind = "unary" -> UnaryResult(e.operator, value(e.operand))
    [] e.kind = "binary" /\ e.operator \in Logical ->
         Connected(e, value(e.left), scope, functions, stack)
    [] e.kind = "binary" /\ e.operator \notin Logical ->
         BinaryResult(e.operator, value(e.left), value(e.right))
    [] e.kind = "call" ->
         Called(e, [i \in Positions(e.arguments) |-> value(e.arguments[i])], functions, stack)

\* A call of a program's own function: its body has to return.
Returned(result) == IF result = Fell THEN Failure("no return") ELSE result
Call(function, values, functions, stack) ==
  IF Len(values) # Len(function.parameters) THEN Failure("arity")
  ELSE IF \E i \in Positions(stack) : stack[i] = function.name THEN Failure("recursion")
  ELSE IF Len(stack) >= MaxFunctionCallDepth THEN Failure("depth")
  ELSE Returned(Execute(function.body, Frame(function, values), functions,
                        Append(stack, function.name), 0))

\* The statements after a branch that yielded a result, or fell through.
ExecuteAfter(result, statements, scope, functions, stack, depth) ==
  IF result = Fell THEN Execute(Tail(statements), scope, functions, stack, depth) ELSE result

\* A block whose first statement's expression has a value.
ExecuteWith(value, statements, scope, functions, stack, depth) ==
  LET first == Head(statements) IN
  CASE Failed(value) \/ first.kind = "return" -> value
    [] ~Failed(value) /\ first.kind = "let" ->
         IF first.name \in DOMAIN scope THEN Failure("duplicate")
         ELSE Execute(Tail(statements), first.name :> value @@ scope, functions, stack, depth)
    [] ~Failed(value) /\ first.kind = "when" ->
         IF value.type # "bool" THEN Failure("type")
         ELSE ExecuteAfter(Execute(IF IsTrue(value) THEN first.actions ELSE first.otherwise,
                                   scope, functions, stack, depth + 1),
                           statements, scope, functions, stack, depth)

\* A block of statements: its value, a failure, or Fell.  A branch's bindings end with it.
Execute(statements, scope, functions, stack, depth) ==
  IF depth > MaxConditionalDepth THEN Failure("nesting")
  ELSE IF statements = <<>> THEN Fell
  ELSE ExecuteWith(Eval(Head(statements).expression, scope, functions, stack),
                   statements, scope, functions, stack, depth)
=============================================================================
