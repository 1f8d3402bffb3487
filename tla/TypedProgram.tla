---------------------------- MODULE TypedProgram ----------------------------
(***************************************************************************)
(* The way of one program from parsed units to its end: every unit is      *)
(* compiled on its own, the linked whole is validated, it may be lowered,  *)
(* its state is initialised, and the actions of its directive are          *)
(* performed one by one.                                                   *)
(*                                                                         *)
(* The directive is entered once and invokes no other: transactions,       *)
(* authority and invocations are RuntimeEngine's.                          *)
(***************************************************************************)
EXTENDS Evaluation, GenericLowering

CONSTANT Suite  \* suites of source programs, each its functions in order and a directive

VARIABLES
  source,    \* the program
  unit,      \* the next unit to compile
  phase,     \* how far it has come
  lowered,   \* whether air has been lowered
  air,       \* the linked program
  todo,      \* the actions still to perform
  cells,     \* the value of every state
  events,    \* the events emitted, with their facts
  outcome    \* why the directive failed, or "ok"

vars == <<source, unit, phase, lowered, air, todo, cells, events, outcome>>

Functions(program) == [name \in {f.name : f \in ToSet(program.functions)} |->
                         CHOOSE f \in ToSet(program.functions) : f.name = name]
Linked(program) == [functions |-> Functions(program),
                    directive |-> CompiledDirective(program.directive)]

NoCells == [name \in {} |-> FALSE]
NoAir   == [functions |-> NoCells, directive |-> [states |-> <<>>, events |-> {}, actions |-> <<>>]]

Init ==
  /\ \E i \in Positions(Suite) : source \in Suite[i]
  /\ unit = 1 /\ phase = "source" /\ lowered = FALSE
  /\ air = NoAir /\ todo = <<>> /\ cells = NoCells /\ events = <<>> /\ outcome = "none"

-----------------------------------------------------------------------------
Compile ==
  /\ phase = "source"
  /\ unit <= Len(source.functions)
  /\ IF FunctionCompiles(source.functions[unit])
     THEN unit' = unit + 1 /\ UNCHANGED phase
     ELSE phase' = "refused source" /\ UNCHANGED unit
  /\ UNCHANGED <<source, lowered, air, todo, cells, events, outcome>>

\* The directive comes last; the units are then linked.
CompileDirective ==
  /\ phase = "source"
  /\ unit = Len(source.functions) + 1
  /\ IF DirectiveCompiles(source.directive)
     THEN phase' = "linked" /\ air' = Linked(source)
     ELSE phase' = "refused source" /\ UNCHANGED air
  /\ UNCHANGED <<source, unit, lowered, todo, cells, events, outcome>>

Validate ==
  /\ phase = "linked"
  /\ phase' = IF ValidProgram(air) THEN "valid" ELSE "refused"
  /\ UNCHANGED <<source, unit, lowered, air, todo, cells, events, outcome>>

Lower ==
  /\ phase = "valid" /\ ~lowered
  /\ IF LoweringFits(air)
     THEN lowered' = TRUE /\ air' = Lowered(air) /\ UNCHANGED phase
     ELSE phase' = "not lowered" /\ UNCHANGED <<lowered, air>>
  /\ UNCHANGED <<source, unit, todo, cells, events, outcome>>

-----------------------------------------------------------------------------
\* Execution.  The initial state is made of literals; anything else is an error no
\* handler expects.
InitialCells(directive) ==
  [name \in DOMAIN StateTypes(directive) |->
     directive.states[CHOOSE i \in Positions(directive.states) :
                        directive.states[i].name = name].initial.value]

Start ==
  /\ phase = "valid"
  /\ IF \A i \in Positions(air.directive.states) : air.directive.states[i].initial.kind = "literal"
     THEN /\ phase' = "running"
          /\ cells' = InitialCells(air.directive)
          /\ todo' = air.directive.actions
          /\ UNCHANGED outcome
     ELSE phase' = "crashed" /\ UNCHANGED <<cells, todo, outcome>>
  /\ UNCHANGED <<source, unit, lowered, air, events>>

\* A value of another type than the assignment's is refused; add sums.
AssignedValue(a, value, old) ==
  IF Failed(value) THEN value
  ELSE IF value.type # a.operation[2] THEN Failure("type")
  ELSE IF a.operation[1] = "set" THEN value ELSE ArithmeticResult("+", old, value)

Consequence(rest, memory, emitted, failure) ==
  [todo |-> rest, cells |-> memory, events |-> emitted, failure |-> failure]
Aborted(program, failure) ==
  Consequence(<<>>, InitialCells(program.directive), <<>>, failure.text)

\* The actions, their expressions evaluated.
Assigned(program, rest, memory, emitted, a, value) ==
  IF Failed(value) THEN Aborted(program, value)
  ELSE Consequence(rest, [memory EXCEPT ![a.state] = value], emitted, "none")
Emitted(program, rest, memory, emitted, a, facts) ==
  IF \E i \in Positions(facts) : Failed(facts[i])
  THEN Aborted(program, Head(SelectSeq(facts, Failed)))
  ELSE Consequence(rest, memory, Append(emitted, <<a.event, facts>>), "none")
Chosen(program, rest, memory, emitted, a, condition) ==
  IF Failed(condition) THEN Aborted(program, condition)
  ELSE IF condition.type # "bool" THEN Aborted(program, Failure("type"))
  ELSE Consequence((IF IsTrue(condition) THEN a.actions ELSE a.otherwise) \o rest,
                   memory, emitted, "none")

\* What one action does: the rest to do, the cells and events, and a failure or "none".
Effect(program, rest, memory, emitted, a) ==
  LET value(e) == Eval(e, memory, program.functions, <<>>) IN
  CASE a.kind = "assign" ->
         Assigned(program, rest, memory, emitted, a,
                  AssignedValue(a, value(a.expression), memory[a.state]))
    [] a.kind = "emit" ->
         Emitted(program, rest, memory, emitted, a,
                 [i \in Positions(a.facts) |-> value(a.facts[i])])
    [] a.kind = "when" -> Chosen(program, rest, memory, emitted, a, value(a.expression))

Perform ==
  /\ phase = "running" /\ todo # <<>>
  /\ \E effect \in {Effect(air, Tail(todo), cells, events, Head(todo))} :
       /\ todo' = effect.todo /\ cells' = effect.cells /\ events' = effect.events
       /\ IF effect.failure = "none" THEN UNCHANGED <<phase, outcome>>
          ELSE phase' = "ended" /\ outcome' = effect.failure
  /\ UNCHANGED <<source, unit, lowered, air>>

End ==
  /\ phase = "running" /\ todo = <<>>
  /\ phase' = "ended" /\ outcome' = "ok"
  /\ UNCHANGED <<source, unit, lowered, air, todo, cells, events>>

Next == Compile \/ CompileDirective \/ Validate \/ Lower \/ Start \/ Perform \/ End
Spec == Init /\ [][Next]_vars

-----------------------------------------------------------------------------
\* How a program ends that is run as it was linked.
RECURSIVE Run(_, _, _, _)
RunAfter(program, effect) ==
  IF effect.failure = "none" THEN Run(program, effect.todo, effect.cells, effect.events)
  ELSE [cells |-> effect.cells, events |-> effect.events, outcome |-> effect.failure]
Run(program, rest, memory, emitted) ==
  IF rest = <<>> THEN [cells |-> memory, events |-> emitted, outcome |-> "ok"]
  ELSE RunAfter(program, Effect(program, Tail(rest), memory, emitted, Head(rest)))

FullyTyped(program) ==
  \A i \in Positions(program.functions) : CompletelyTyped(SignatureOf(program.functions[i]))

\* A division that may be one of two ints: its divisor is not written as a float.
RECURSIVE MayDivideInts(_)
MayDivideInts(e) ==
  CASE e.kind \in {"literal", "name"} -> FALSE
    [] e.kind = "unary"  -> MayDivideInts(e.operand)
    [] e.kind = "binary" ->
         \/ MayDivideInts(e.left) \/ MayDivideInts(e.right)
         \/ e.operator = "/" /\ ~(e.right.kind = "literal" /\ e.right.value.type = "float")
    [] e.kind = "call"   -> \E i \in Positions(e.arguments) : MayDivideInts(e.arguments[i])

RECURSIVE BlockExpressions(_)
BlockExpressions(statements) ==
  UNION {LET s == statements[i] IN
         {s.expression} \cup (IF s.kind = "when"
                              THEN BlockExpressions(s.actions) \cup BlockExpressions(s.otherwise)
                              ELSE {}) : i \in Positions(statements)}
DividesInts(program) ==
  \E e \in ActionExpressions(program.directive.actions) \cup
             UNION {BlockExpressions(program.functions[f].body) : f \in DOMAIN program.functions} :
    MayDivideInts(e)

\* What a well-typed program may still fail of: elements of collections have no static type.
Expected == {"ok", "division by zero", "modulo by zero", "domain", "limit", "element", "depth"}

\* A program whose functions are completely annotated and that was accepted never fails
\* of its types, of a name or of a call: inference predicts every value the evaluator makes.
WellTypedRuns ==
  phase = "ended" /\ FullyTyped(source) /\ ~DividesInts(Linked(source)) => outcome \in Expected

\* What the compiler refuses seeing one unit, the validator would refuse seeing all of
\* them: the early check costs no program its run.
RefusedEarlyIsInvalid ==
  phase = "refused source" /\ FullyTyped(source) /\
  ActionsCompile(source.directive.actions, StateTypes(source.directive), source.directive.events)
    => ~ValidProgram(Linked(source))

\* A lowered program does what the program did: the same cells, events and failure.
LoweringPreserves ==
  phase = "ended" /\ lowered =>
    LET plain == Linked(source) IN
    [cells |-> cells, events |-> events, outcome |-> outcome] =
      Run(plain, plain.directive.actions, InitialCells(plain.directive), <<>>)

\* A program the validator accepted has a state to start from.
AcceptedStarts == phase # "crashed"
=============================================================================
