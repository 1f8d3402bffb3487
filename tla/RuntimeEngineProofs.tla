------------------------ MODULE RuntimeEngineProofs ------------------------
(***************************************************************************)
(* Proofs about RuntimeEngine, for every program, authority policy and     *)
(* choice of entry directives and for every value of the two limits.       *)
(***************************************************************************)
EXTENDS RuntimeEngine, InductionLemmas, TLAPS

-----------------------------------------------------------------------------
(* Lemmas about the data.                                                  *)

\* Applying a typed assignment to a typed snapshot gives a typed snapshot.
LEMMA ApplyType ==
  ASSUME NEW s \in Snapshot, NEW a \in Assignment
  PROVE  Apply(s, a) \in Snapshot
<1>1. a.key \in StateKey /\ KeyType[a.key] = OpType[a.op]
      /\ a.value \in Value /\ a.value \in ValueOf(OpType[a.op])
      /\ a.op \in {"set_int", "add_int", "set_bool"}
  BY DEF Assignment, OpType
<1>2. s \in [StateKey -> Value] /\ \A k \in StateKey : s[k] \in ValueOf(KeyType[k])
  BY DEF Snapshot
<1>3. CASE a.op = "add_int"
  <2>1. KeyType[a.key] = "int"
    BY <1>1, <1>3 DEF OpType
  <2>2. s[a.key] \in IntValue /\ a.value \in IntValue
    BY <1>1, <1>2, <2>1 DEF ValueOf
  <2>. DEFINE v == [type |-> "int", val |-> s[a.key].val + a.value.val]
  <2>3. v \in IntValue
    BY <2>2 DEF IntValue
  <2>4. Apply(s, a) = [s EXCEPT ![a.key] = v]
    BY <1>3 DEF Apply
  <2>5. v \in Value /\ v \in ValueOf(KeyType[a.key])
    BY <2>1, <2>3 DEF Value, ValueOf
  <2>. HIDE DEF v
  <2>. QED
    BY <1>1, <1>2, <2>4, <2>5 DEF Snapshot
<1>4. CASE a.op # "add_int"
  <2>1. Apply(s, a) = [s EXCEPT ![a.key] = a.value]
    BY <1>4 DEF Apply
  <2>. QED
    BY <1>1, <1>2, <2>1 DEF Snapshot
<1>. QED
  BY <1>3, <1>4

\* The path a verified decision selects is one of its paths.
LEMMA SelectPathType ==
  ASSUME NEW d \in Decision
  PROVE  SelectPath(d) \in d /\ SelectPath(d) \in Path
BY DEF Decision, SelectPath

\* A path's actions are actions, in either representation.
LEMMA OrderedActionsType ==
  ASSUME NEW q \in Path
  PROVE  OrderedActions(q) \in Seq(Action)
BY DEF Path, OrderedActions

LEMMA OpenedType ==
  ASSUME NEW b \in Buffer
  PROVE  Opened(b) \in Buffer /\ Opened(b).next = b.next /\ Opened(b).events = <<>>
BY DEF Buffer, Opened

\* The two ways the state and the record of assignments of a buffer change: an
\* assignment is applied and recorded, and a callee's are taken over.
Assigned(new, old) ==
  \/ new.state = old.state /\ new.assignments = old.assignments
  \/ \E a \in Assignment : /\ new.state = Apply(old.state, a)
                           /\ new.assignments = Append(old.assignments, a)
Taken(new, old, inner) == /\ new.state = inner.state
                          /\ new.assignments = old.assignments \o inner.assignments

\* Merging typed buffers: the callee's state and index, the records appended.
LEMMA MergedType ==
  ASSUME NEW b \in Buffer, NEW c \in Buffer
  PROVE  /\ Merged(b, c) \in Buffer
         /\ Merged(b, c).next = c.next
         /\ Merged(b, c).events = b.events \o c.events
         /\ Merged(b, c).effects = b.effects \o c.effects
         /\ Taken(Merged(b, c), b, c)
<1>1. b.assignments \o c.assignments \in Seq(Assignment)
  BY DEF Buffer
<1>2. b.events \o c.events \in Seq(EventRecord)
  BY DEF Buffer
<1>3. b.effects \o c.effects \in Seq(Effect)
  BY DEF Buffer
<1>. QED
  BY <1>1, <1>2, <1>3 DEF Buffer, Merged, Taken

\* Reporting counts up.
LEMMA ReportedType ==
  ASSUME diagnostics \in [Diagnostic -> Nat], NEW ds
  PROVE  Reported(ds) \in [Diagnostic -> Nat]
BY DEF Reported

-----------------------------------------------------------------------------
(* Lemmas about the stack.                                                 *)

\* What pushing, popping, replacing the top and returning do to a typed stack.
LEMMA PushedStack ==
  ASSUME stack \in Seq(Frame), NEW f \in Frame
  PROVE  /\ Pushed(f) \in Seq(Frame) /\ Len(Pushed(f)) = Len(stack) + 1
         /\ Pushed(f)[Len(stack) + 1] = f
         /\ \A i \in 1..Len(stack) : Pushed(f)[i] = stack[i]
BY DEF Pushed

LEMMA TopOfStack ==
  ASSUME stack \in Seq(Frame), stack # <<>>
  PROVE  Top \in Frame /\ Len(stack) \in Nat /\ Len(stack) > 0
BY DEF Top

LEMMA StackEnds ==
  ASSUME stack \in Seq(Frame)
  PROVE  /\ stack # <<>> => Len(stack) > 0 /\ Len(stack) \in DOMAIN stack /\ Top = stack[Len(stack)]
         /\ Len(stack) > 1 => /\ stack # <<>> /\ 1 \in 1..Len(stack) - 1
                              /\ Len(stack) - 1 \in DOMAIN stack
                              /\ Caller = stack[Len(stack) - 1]
BY DEF Top, Caller

LEMMA PoppedStack ==
  ASSUME stack \in Seq(Frame), stack # <<>>
  PROVE  /\ Below \in Seq(Frame) /\ Len(Below) = Len(stack) - 1
         /\ \A i \in 1..Len(stack) - 1 : Below[i] = stack[i]
BY DEF Below

LEMMA ChangedTop ==
  ASSUME stack \in Seq(Frame), stack # <<>>, NEW f \in Frame
  PROVE  /\ TopBecomes(f) \in Seq(Frame) /\ Len(TopBecomes(f)) = Len(stack)
         /\ TopBecomes(f)[Len(stack)] = f
         /\ \A i \in 1..Len(stack) - 1 : TopBecomes(f)[i] = stack[i]
BY DEF TopBecomes

LEMMA ReturnedStack ==
  ASSUME stack \in Seq(Frame), Len(stack) > 1, NEW f \in Frame
  PROVE  /\ Returned(f) \in Seq(Frame) /\ Len(Returned(f)) = Len(stack) - 1
         /\ Returned(f)[Len(stack) - 1] = f
         /\ \A i \in 1..Len(stack) - 2 : Returned(f)[i] = stack[i]
         /\ Caller \in Frame
<1>1. Below \in Seq(Frame) /\ Len(Below) = Len(stack) - 1
      /\ \A i \in 1..Len(stack) - 1 : Below[i] = stack[i]
  BY PoppedStack
<1>. QED
  BY <1>1 DEF Returned, Caller

\* The stack after a path has been begun.
LEMMA BegunStack ==
  ASSUME stack \in Seq(Frame), stack # <<>>, NEW f \in Frame, NEW g \in Frame
  PROVE  /\ Append(TopBecomes(f), g) \in Seq(Frame)
         /\ Len(Append(TopBecomes(f), g)) = Len(stack) + 1
         /\ Append(TopBecomes(f), g)[Len(stack)] = f
         /\ Append(TopBecomes(f), g)[Len(stack) + 1] = g
         /\ \A i \in 1..Len(stack) - 1 : Append(TopBecomes(f), g)[i] = stack[i]
<1>1. /\ TopBecomes(f) \in Seq(Frame) /\ Len(TopBecomes(f)) = Len(stack)
      /\ TopBecomes(f)[Len(stack)] = f
      /\ \A i \in 1..Len(stack) - 1 : TopBecomes(f)[i] = stack[i]
  BY ChangedTop
<1>. QED
  BY <1>1

-----------------------------------------------------------------------------
(* Type correctness and the call discipline.                               *)

\* The parts of a frame, by its kind.
LEMMA FrameParts ==
  ASSUME NEW f \in Frame
  PROVE  /\ f.kind \in {"directive", "actions"}
         /\ f.chain \in Seq(Directive) /\ f.chain # <<>> /\ f.chain \in Chain
         /\ f.buf \in Buffer /\ f.depth \in Nat
         /\ f.kind = "directive" => /\ f.todo \in Seq(Decision) /\ f.depth = 0
                                    /\ f.path \in Path \cup {None}
         /\ f.kind = "actions" => f.todo \in Seq(Action) /\ f.path \in Path
BY DEF Frame, Chain

\* A frame whose first pending item is dealt with, its buffer now being b.
LEMMA NextItem ==
  ASSUME NEW f \in Frame, NEW b \in Buffer, f.todo # <<>>
  PROVE  [f EXCEPT !.todo = Tail(@), !.buf = b] \in Frame
<1>1. CASE f.kind = "directive"
  <2>1. Tail(f.todo) \in Seq(Decision)
    BY <1>1, FrameParts
  <2>. QED
    BY <1>1, <2>1 DEF Frame
<1>2. CASE f.kind = "actions"
  <2>1. Tail(f.todo) \in Seq(Action)
    BY <1>2, FrameParts
  <2>. QED
    BY <1>2, <2>1 DEF Frame
<1>. QED
  BY <1>1, <1>2, FrameParts

LEMMA InvocationStackType ==
  ASSUME TypeOK
  PROVE  InvocationStack \in Seq(Directive) /\ CallerBuffer \in Buffer
<1>1. CASE stack = <<>>
  BY <1>1 DEF InvocationStack, CallerBuffer, TypeOK
<1>2. CASE stack # <<>>
  <2>1. Top \in Frame
    BY <1>2, TopOfStack DEF TypeOK
  <2>. QED
    BY <1>2, <2>1, FrameParts DEF InvocationStack, CallerBuffer
<1>. QED
  BY <1>1, <1>2

\* The frame of a directive that is entered.
DirectiveFrame(d) == [kind |-> "directive", chain |-> Append(InvocationStack, d),
                      todo |-> prog.decisions[d], path |-> None, depth |-> 0,
                      buf |-> Opened(CallerBuffer)]

LEMMA DirectiveFrameType ==
  ASSUME TypeOK, NEW d \in Directive
  PROVE  DirectiveFrame(d) \in Frame
<1>1. prog.decisions[d] \in Seq(Decision)
  BY VerifiedPrograms DEF TypeOK, Program
<1>2. Append(InvocationStack, d) \in Seq(Directive) /\ Opened(CallerBuffer) \in Buffer
  BY InvocationStackType, OpenedType
<1>3. Append(InvocationStack, d) \in Chain
  <2>1. InvocationStack \in Seq(Directive)
    BY InvocationStackType
  <2>2. /\ Append(InvocationStack, d) \in Seq(Directive)
        /\ Len(Append(InvocationStack, d)) = Len(InvocationStack) + 1
        /\ Len(InvocationStack) \in Nat
    BY <2>1
  <2>. QED
    BY <2>2 DEF Chain
<1>. QED
  BY <1>1, <1>2, <1>3 DEF DirectiveFrame, Frame

\* The action at the head of an actions frame.
LEMMA HeadAction ==
  ASSUME TypeOK, InActions, Top.todo # <<>>
  PROVE  /\ Top \in Frame /\ Top.kind = "actions" /\ Head(Top.todo) \in Action
         /\ Head(Top.todo) \in AssignAction \cup EmitAction \cup InvokeAction \cup WhenAction
         /\ Head(Top.todo).kind = "assign" => /\ Head(Top.todo) \in AssignAction
                                /\ KeyType[Head(Top.todo).key] = OpType[Head(Top.todo).op]
         /\ Head(Top.todo).kind = "emit" => Head(Top.todo) \in EmitAction
         /\ Head(Top.todo).kind = "invoke" => /\ Head(Top.todo) \in InvokeAction
                                              /\ Resolve[Head(Top.todo).target] \in Directive
         /\ Head(Top.todo).kind = "when" => Head(Top.todo) \in WhenAction
<1>1. Top \in Frame /\ Top.kind = "actions"
  BY TopOfStack DEF TypeOK, InActions
<1>2. Top.todo \in Seq(Action)
  BY <1>1, FrameParts
<1>3. Head(Top.todo) \in Action
  BY <1>2
<1>4. Head(Top.todo) \in AssignAction \cup EmitAction \cup InvokeAction \cup WhenAction
  BY <1>3, VerifiedActions
<1>. QED
  BY <1>1, <1>3, <1>4, VerifiedActions
     DEF AssignAction, EmitAction, InvokeAction, WhenAction

\* An evaluated assignment whose value has the operation's type is typed, and
\* so is the buffer it is recorded in.
LEMMA AssignBuffer ==
  ASSUME NEW b \in Buffer, NEW a \in Assignment
  PROVE  [b EXCEPT !.state = Apply(@, a), !.assignments = Append(@, a)] \in Buffer
<1>1. Apply(b.state, a) \in Snapshot
  BY ApplyType DEF Buffer
<1>2. Append(b.assignments, a) \in Seq(Assignment)
  BY DEF Buffer
<1>. QED
  BY <1>1, <1>2 DEF Buffer

LEMMA EmitBuffer ==
  ASSUME NEW b \in Buffer, NEW ev \in EventRecord
  PROVE  [b EXCEPT !.next = @ + 1, !.events = Append(@, ev)] \in Buffer
<1>. DEFINE n == b.next + 1
<1>1. Append(b.events, ev) \in Seq(EventRecord)
  BY DEF Buffer
<1>2. n \in Nat
  BY DEF Buffer
<1>. HIDE DEF n
<1>3. [b EXCEPT !.next = n, !.events = Append(b.events, ev)] \in Buffer
  BY <1>1, <1>2 DEF Buffer
<1>. QED
  BY <1>3 DEF n

\* What the invariant is at the start.
LEMMA InitTyped == Init => TypeOK /\ CallDiscipline
<1>. SUFFICES ASSUME Init PROVE TypeOK /\ CallDiscipline
  OBVIOUS
<1>1. prog.initials \in Snapshot
  BY VerifiedPrograms DEF Init, Program
<1>2. committed \in Buffer
  BY <1>1 DEF Init, Buffer
<1>3. diagnostics \in [Diagnostic -> Nat]
  BY DEF Init
<1>. QED
  BY <1>2, <1>3 DEF Init, TypeOK, CallDiscipline

\* A call that is entered: one frame on top, its caller waiting for it.
LEMMA EnterTyped ==
  ASSUME TypeOK, CallDiscipline, NEW d \in Directive, EnterDirective(d)
  PROVE  TypeOK' /\ CallDiscipline'
<1>1. stack' = Pushed(DirectiveFrame(d)) /\ DirectiveFrame(d) \in Frame
      /\ DirectiveFrame(d).kind = "directive"
  BY DirectiveFrameType DEF EnterDirective, DirectiveFrame
<1>2. /\ stack' \in Seq(Frame) /\ Len(stack') = Len(stack) + 1
      /\ stack'[Len(stack) + 1] = DirectiveFrame(d)
      /\ \A i \in 1..Len(stack) : stack'[i] = stack[i]
  BY <1>1, PushedStack DEF TypeOK
<1>3. TypeOK'
  BY <1>2 DEF EnterDirective, TypeOK
<1>4. signal = "none" /\ phase = "running" /\ roots # <<>>
      /\ (stack # <<>> => Top.kind = "actions" /\ Top.todo # <<>>)
  BY DEF EnterDirective, Calling, Doing, InActions, Running, CallDiscipline
<1>5. \A i \in 1..Len(stack') - 1 :
        stack'[i].todo # <<>> /\ (stack'[i].kind = "directive" => stack'[i].path # None)
  BY <1>2, <1>4 DEF CallDiscipline, Top, TypeOK
<1>6. stack'[1].kind = "directive"
  BY <1>1, <1>2 DEF CallDiscipline, TypeOK
<1>. QED
  BY <1>3, <1>4, <1>5, <1>6 DEF CallDiscipline, EnterDirective

\* Selecting a path.
LEMMA BeginPathTyped ==
  ASSUME TypeOK, CallDiscipline, BeginPath
  PROVE  TypeOK' /\ CallDiscipline'
<1>. DEFINE q == SelectPath(Head(Top.todo))
            f == [Top EXCEPT !.path = q]
            g == [kind |-> "actions", chain |-> Top.chain, todo |-> OrderedActions(q),
                  path |-> q, depth |-> 0, buf |-> Opened(Top.buf)]
<1>1. stack \in Seq(Frame) /\ stack # <<>> /\ Top \in Frame /\ Top.kind = "directive"
      /\ Top.todo # <<>>
  BY TopOfStack DEF BeginPath, InDirective, TypeOK
<1>2. q \in Path /\ q # None
  <2>1. Head(Top.todo) \in Decision
    BY <1>1, FrameParts
  <2>. QED
    BY <2>1, SelectPathType, EngineConstants
<1>. HIDE DEF q
<1>3. f \in Frame /\ f.kind = "directive" /\ f.path = q /\ f.todo = Top.todo
  BY <1>1, <1>2 DEF Frame
<1>4. OrderedActions(q) \in Seq(Action) /\ Opened(Top.buf) \in Buffer
  BY <1>1, <1>2, OrderedActionsType, OpenedType, FrameParts
<1>5. g \in Frame /\ g.kind = "actions"
  BY <1>1, <1>2, <1>4, FrameParts DEF Frame
<1>6. stack' = Append(TopBecomes(f), g)
  BY DEF BeginPath, q
<1>. HIDE DEF f, g
<1>7. /\ stack' \in Seq(Frame) /\ Len(stack') = Len(stack) + 1
      /\ stack'[Len(stack)] = f /\ stack'[Len(stack) + 1] = g
      /\ \A i \in 1..Len(stack) - 1 : stack'[i] = stack[i]
  <2>. DEFINE s == Append(TopBecomes(f), g)
  <2>1. /\ s \in Seq(Frame) /\ Len(s) = Len(stack) + 1
        /\ s[Len(stack)] = f /\ s[Len(stack) + 1] = g
        /\ \A i \in 1..Len(stack) - 1 : s[i] = stack[i]
    BY <1>1, <1>3, <1>5, BegunStack
  <2>2. stack' = s
    BY <1>6
  <2>. HIDE DEF s
  <2>. QED
    BY <2>1, <2>2
<1>8. TypeOK'
  BY <1>7 DEF BeginPath, TypeOK
<1>9. \A i \in 1..Len(stack') - 1 :
        stack'[i].todo # <<>> /\ (stack'[i].kind = "directive" => stack'[i].path # None)
  BY <1>1, <1>2, <1>3, <1>7 DEF CallDiscipline
<1>10. stack'[1].kind = "directive"
  BY <1>1, <1>3, <1>7 DEF CallDiscipline
<1>. QED
  BY <1>8, <1>9, <1>10 DEF CallDiscipline, BeginPath, InDirective, Running

\* Returning to a caller: the frame on top goes, its caller takes over b.
LEMMA ReturnTyped ==
  ASSUME TypeOK, CallDiscipline, Running, Len(stack) > 1, NEW b \in Buffer,
         stack' = Returned([Caller EXCEPT !.todo = Tail(@), !.buf = b]),
         UNCHANGED <<prog, grants, entry, phase, roots, signal, committed, diagnostics, done>>
  PROVE  TypeOK' /\ CallDiscipline'
<1>. DEFINE f == [Caller EXCEPT !.todo = Tail(@), !.buf = b]
<1>1. stack \in Seq(Frame) /\ Len(stack) \in Nat /\ stack # <<>>
  BY DEF TypeOK
<1>2. Caller \in Frame /\ Caller = stack[Len(stack) - 1] /\ Caller.todo # <<>>
  BY <1>1 DEF Caller, CallDiscipline
<1>3. f \in Frame /\ f.kind = Caller.kind
  BY <1>2, NextItem, FrameParts DEF Frame
<1>4. stack' = Returned(f)
  OBVIOUS
<1>. HIDE DEF f
<1>5. /\ stack' \in Seq(Frame) /\ Len(stack') = Len(stack) - 1
      /\ stack'[Len(stack) - 1] = f
      /\ \A i \in 1..Len(stack) - 2 : stack'[i] = stack[i]
  <2>. DEFINE s == Returned(f)
  <2>1. /\ s \in Seq(Frame) /\ Len(s) = Len(stack) - 1 /\ s[Len(stack) - 1] = f
        /\ \A i \in 1..Len(stack) - 2 : s[i] = stack[i]
    BY <1>1, <1>3, ReturnedStack
  <2>2. stack' = s
    BY <1>4
  <2>. HIDE DEF s
  <2>. QED
    BY <2>1, <2>2
<1>6. TypeOK'
  BY <1>5 DEF TypeOK
<1>7. \A i \in 1..Len(stack') - 1 :
        stack'[i].todo # <<>> /\ (stack'[i].kind = "directive" => stack'[i].path # None)
  BY <1>1, <1>5 DEF CallDiscipline
<1>8. stack'[1].kind = "directive"
  BY <1>1, <1>2, <1>3, <1>5 DEF CallDiscipline
<1>. QED
  BY <1>1, <1>6, <1>7, <1>8 DEF CallDiscipline, Running

\* A frame is popped because its call failed.
LEMMA PopTyped ==
  ASSUME TypeOK, CallDiscipline, stack # <<>>, stack' = Below,
         UNCHANGED <<prog, grants, entry, phase, roots, committed, done>>,
         diagnostics' \in [Diagnostic -> Nat],
         \/ signal' = "failed"
         \/ signal = "raised" /\ signal' = signal /\ Top.kind = "actions"
  PROVE  TypeOK' /\ CallDiscipline'
<1>1. /\ stack \in Seq(Frame) /\ Len(stack) \in Nat /\ Len(stack) > 0
      /\ stack' \in Seq(Frame) /\ Len(stack') = Len(stack) - 1
      /\ \A i \in 1..Len(stack) - 1 : stack'[i] = stack[i]
  BY PoppedStack DEF TypeOK
<1>2. TypeOK'
  BY <1>1 DEF TypeOK
<1>3. \A i \in 1..Len(stack') - 1 :
        stack'[i].todo # <<>> /\ (stack'[i].kind = "directive" => stack'[i].path # None)
  BY <1>1 DEF CallDiscipline
<1>4. stack' # <<>> => stack'[1].kind = "directive"
  BY <1>1 DEF CallDiscipline
<1>5. signal' = "raised" => stack' # <<>> /\ (Top'.kind = "directive" => Top'.path # None)
  <2>. SUFFICES ASSUME signal' = "raised"
                PROVE  stack' # <<>> /\ (Top'.kind = "directive" => Top'.path # None)
    OBVIOUS
  <2>1. Top.kind = "actions"
    OBVIOUS
  <2>2. Len(stack) > 1
    BY <1>1, <2>1 DEF CallDiscipline, Top
  <2>3. Top' = stack[Len(stack) - 1]
    BY <1>1, <2>2 DEF Top
  <2>. QED
    BY <1>1, <2>2, <2>3 DEF CallDiscipline
<1>. QED
  BY <1>2, <1>3, <1>4, <1>5 DEF CallDiscipline

\* The action at the top of the stack is dealt with within its frame.
LEMMA ContinueTyped ==
  ASSUME TypeOK, CallDiscipline, InActions, Top.todo # <<>>, NEW b \in Buffer,
         stack' = Continue(b),
         UNCHANGED <<prog, grants, entry, phase, roots, signal, committed, diagnostics, done>>
  PROVE  TypeOK' /\ CallDiscipline'
<1>. DEFINE f == [Top EXCEPT !.todo = Tail(@), !.buf = b]
<1>1. stack \in Seq(Frame) /\ Len(stack) \in Nat /\ Len(stack) > 0 /\ Top \in Frame
      /\ stack # <<>> /\ Top.kind = "actions" /\ Running
  BY TopOfStack DEF TypeOK, InActions
<1>2. f \in Frame /\ f.kind = "actions"
  BY <1>1, NextItem, FrameParts DEF Frame
<1>3. stack' = TopBecomes(f)
  BY DEF Continue
<1>. HIDE DEF f
<1>4. /\ stack' \in Seq(Frame) /\ Len(stack') = Len(stack) /\ stack'[Len(stack)] = f
      /\ \A i \in 1..Len(stack) - 1 : stack'[i] = stack[i]
  <2>. DEFINE s == TopBecomes(f)
  <2>1. /\ s \in Seq(Frame) /\ Len(s) = Len(stack) /\ s[Len(stack)] = f
        /\ \A i \in 1..Len(stack) - 1 : s[i] = stack[i]
    BY <1>1, <1>2, ChangedTop
  <2>2. stack' = s
    BY <1>3
  <2>. HIDE DEF s
  <2>. QED
    BY <2>1, <2>2
<1>5. TypeOK'
  BY <1>4 DEF TypeOK
<1>6. \A i \in 1..Len(stack') - 1 :
        stack'[i].todo # <<>> /\ (stack'[i].kind = "directive" => stack'[i].path # None)
  BY <1>1, <1>4 DEF CallDiscipline
<1>7. stack'[1].kind = "directive"
  BY <1>1, <1>2, <1>4 DEF CallDiscipline, Top
<1>. QED
  BY <1>1, <1>4, <1>5, <1>6, <1>7 DEF CallDiscipline, Running

\* Entering a branch.
LEMMA BeginBranchTyped ==
  ASSUME TypeOK, CallDiscipline, BeginBranch
  PROVE  TypeOK' /\ CallDiscipline'
<1>. DEFINE f == [Top EXCEPT !.todo = Branch, !.depth = @ + 1, !.buf = Opened(Top.buf)]
            n == Top.depth + 1
<1>1. stack \in Seq(Frame) /\ Len(stack) \in Nat /\ Len(stack) > 0 /\ Top \in Frame
      /\ Top.kind = "actions" /\ Running /\ Top.todo # <<>> /\ stack # <<>>
      /\ Head(Top.todo) \in WhenAction
  BY TopOfStack, HeadAction DEF TypeOK, BeginBranch, Doing, InActions
<1>2. Branch \in Seq(Action)
  BY <1>1 DEF Branch, WhenAction
<1>3. n \in Nat /\ Opened(Top.buf) \in Buffer
  BY <1>1, OpenedType, FrameParts
<1>4. f = [Top EXCEPT !.todo = Branch, !.depth = n, !.buf = Opened(Top.buf)]
  OBVIOUS
<1>. HIDE DEF n
<1>5. f \in Frame /\ f.kind = "actions"
  BY <1>1, <1>2, <1>3, <1>4, FrameParts DEF Frame
<1>6. stack' = Pushed(f)
  BY DEF BeginBranch
<1>. HIDE DEF f
<1>7. /\ stack' \in Seq(Frame) /\ Len(stack') = Len(stack) + 1
      /\ stack'[Len(stack) + 1] = f
      /\ \A i \in 1..Len(stack) : stack'[i] = stack[i]
  <2>. DEFINE s == Pushed(f)
  <2>1. /\ s \in Seq(Frame) /\ Len(s) = Len(stack) + 1 /\ s[Len(stack) + 1] = f
        /\ \A i \in 1..Len(stack) : s[i] = stack[i]
    BY <1>1, <1>5, PushedStack
  <2>2. stack' = s
    BY <1>6
  <2>. HIDE DEF s
  <2>. QED
    BY <2>1, <2>2
<1>8. TypeOK'
  BY <1>7 DEF TypeOK, BeginBranch
<1>9. \A i \in 1..Len(stack') - 1 :
        stack'[i].todo # <<>> /\ (stack'[i].kind = "directive" => stack'[i].path # None)
  BY <1>1, <1>7 DEF CallDiscipline, Top
<1>10. stack'[1].kind = "directive"
  BY <1>1, <1>7 DEF CallDiscipline
<1>. QED
  BY <1>1, <1>8, <1>9, <1>10 DEF CallDiscipline, Running, BeginBranch

\* Every step preserves both.
LEMMA StepTyped == TypeOK /\ CallDiscipline /\ [Next]_vars => TypeOK' /\ CallDiscipline'
<1>. SUFFICES ASSUME TypeOK, CallDiscipline, [Next]_vars
              PROVE  TypeOK' /\ CallDiscipline'
  OBVIOUS
<1>1. CASE ResolveEntries
  <2>1. entry # None => entry \in Seq(Reference)
    BY VerifiedPrograms DEF TypeOK
  <2>2. entry # None /\ ~BadEntries => ResolvedEntries \in Seq(Directive)
    BY <2>1, EngineConstants DEF BadEntries, ResolvedEntries
  <2>3. prog.directives \in Seq(Directive)
    BY VerifiedPrograms DEF TypeOK, Program
  <2>4. roots' \in Seq(Directive)
    BY <1>1, <2>2, <2>3 DEF ResolveEntries, TypeOK
  <2>5. stack = <<>> /\ signal = "none"
    BY <1>1 DEF ResolveEntries, CallDiscipline, TypeOK
  <2>. QED
    BY <1>1, <2>4, <2>5 DEF ResolveEntries, TypeOK, CallDiscipline
<1>2. CASE AbortRoot
  <2>1. roots # <<>> /\ stack = <<>>
    BY <1>2 DEF AbortRoot, CallDiscipline
  <2>2. Head(roots) \in Directive /\ Tail(roots) \in Seq(Directive)
    BY <2>1 DEF TypeOK
  <2>. QED
    BY <1>2, <2>1, <2>2 DEF AbortRoot, TypeOK, CallDiscipline
<1>3. CASE Finish
  BY <1>3 DEF Finish, Running, TypeOK, CallDiscipline
<1>4. ASSUME NEW d \in Directive, RejectCycle(d) \/ RejectDepth(d) \/ Deny(d)
      PROVE  TypeOK' /\ CallDiscipline'
  <2>1. PICK ds : Reject(ds)
    BY <1>4 DEF RejectCycle, RejectDepth, Deny
  <2>2. diagnostics' \in [Diagnostic -> Nat]
    BY <2>1, ReportedType DEF Reject, TypeOK
  <2>3. phase = "running" /\ roots # <<>>
    BY <1>4 DEF RejectCycle, RejectDepth, Deny, Calling, Doing, InActions, Running,
                CallDiscipline
  <2>. QED
    BY <2>1, <2>2, <2>3 DEF Reject, TypeOK, CallDiscipline
<1>5. ASSUME NEW d \in Directive, EnterDirective(d)
      PROVE  TypeOK' /\ CallDiscipline'
  BY <1>5, EnterTyped
<1>6. CASE BeginPath
  BY <1>6, BeginPathTyped
<1>7. CASE FinishPath
  <2>1. stack \in Seq(Frame) /\ Len(stack) > 1 /\ Running /\ Top \in Frame
        /\ Caller = stack[Len(stack) - 1] /\ Caller \in Frame
    <3>1. stack \in Seq(Frame) /\ stack # <<>> /\ Top.kind = "actions" /\ Running
      BY <1>7 DEF FinishPath, InActions, TypeOK
    <3>2. Len(stack) > 1
      BY <3>1 DEF CallDiscipline, Top
    <3>. QED
      BY <3>1, <3>2 DEF Top, Caller
  <2>2. Caller.path \in Path
    <3>1. Caller.path # None
      BY <1>7, <2>1 DEF FinishPath, CallDiscipline
    <3>. QED
      BY <1>7, <2>1, <3>1, FrameParts DEF FinishPath
  <2>. DEFINE m == Merged(Caller.buf, Top.buf)
              b == [m EXCEPT !.effects = @ \o Caller.path.effects]
  <2>3. m \in Buffer
    BY <2>1, FrameParts, MergedType
  <2>. HIDE DEF m
  <2>4. m.effects \o Caller.path.effects \in Seq(Effect)
    BY <2>2, <2>3 DEF Buffer, Path
  <2>5. b \in Buffer
    BY <2>3, <2>4 DEF Buffer
  <2>6. stack' = Returned([Caller EXCEPT !.todo = Tail(@), !.buf = b])
    BY <1>7 DEF FinishPath, m
  <2>. HIDE DEF b
  <2>. QED
    BY <1>7, <2>1, <2>5, <2>6, ReturnTyped DEF FinishPath
<1>8. CASE ReturnDirective \/ FinishBranch
  <2>1. stack \in Seq(Frame) /\ Len(stack) > 1 /\ Running /\ Top \in Frame /\ Caller \in Frame
    <3>1. stack \in Seq(Frame) /\ stack # <<>> /\ Running
      BY <1>8 DEF ReturnDirective, FinishBranch, InDirective, InActions, TypeOK
    <3>2. Len(stack) > 1
      BY <1>8, <3>1 DEF ReturnDirective, FinishBranch, InActions, CallDiscipline, Top
    <3>. QED
      BY <3>1, <3>2 DEF Top, Caller
  <2>2. Merged(Caller.buf, Top.buf) \in Buffer
    BY <2>1, FrameParts, MergedType
  <2>. QED
    BY <1>8, <2>1, <2>2, ReturnTyped DEF ReturnDirective, FinishBranch
<1>9. CASE CommitRoot
  <2>1. stack # <<>> /\ stack \in Seq(Frame) /\ roots # <<>> /\ Top \in Frame /\ signal = "none"
    BY <1>9, TopOfStack DEF CommitRoot, InDirective, Running, TypeOK, CallDiscipline
  <2>2. Head(roots) \in Directive /\ Tail(roots) \in Seq(Directive)
    BY <2>1 DEF TypeOK
  <2>3. committed' \in Buffer
    BY <1>9, <2>1, FrameParts, MergedType DEF CommitRoot, TypeOK
  <2>4. [root |-> Head(roots), ok |-> TRUE] \in [root : Directive, ok : BOOLEAN]
    BY <2>2
  <2>5. done' \in Seq([root : Directive, ok : BOOLEAN])
    BY <1>9, <2>4 DEF CommitRoot, TypeOK
  <2>. QED
    BY <1>9, <2>1, <2>2, <2>3, <2>5 DEF CommitRoot, TypeOK, CallDiscipline
<1>10. CASE CatchError
  <2>1. stack # <<>> /\ diagnostics' \in [Diagnostic -> Nat]
    BY <1>10, ReportedType DEF CatchError, CallDiscipline, TypeOK
  <2>. QED
    BY <1>10, <2>1, PopTyped DEF CatchError
<1>11. CASE AbortCall
  <2>1. diagnostics' \in [Diagnostic -> Nat]
    BY <1>11 DEF AbortCall, TypeOK
  <2>. QED
    BY <1>11, <2>1, PopTyped DEF AbortCall
<1>12. CASE Assign
  <2>. DEFINE a == Head(Top.todo)
              ev == [key |-> a.key, op |-> a.op, value |-> Evaluated(a.expr)]
              b == [Top.buf EXCEPT !.state = Apply(@, ev), !.assignments = Append(@, ev)]
  <2>1. InActions /\ Top.todo # <<>> /\ Top.buf \in Buffer /\ a \in AssignAction
        /\ KeyType[a.key] = OpType[a.op]
    BY <1>12, HeadAction, FrameParts DEF Assign, Doing
  <2>2. ev \in Assignment
    <3>1. ev.value \in ValueOf(OpType[a.op])
      BY <1>12 DEF Assign
    <3>2. ev.value \in Value
      BY <3>1 DEF ValueOf, Value
    <3>. QED
      BY <2>1, <3>1, <3>2 DEF Assignment, AssignAction
  <2>3. b \in Buffer
    BY <2>1, <2>2, AssignBuffer
  <2>4. stack' = Continue(b)
    BY <1>12 DEF Assign
  <2>. HIDE DEF b
  <2>. QED
    BY <1>12, <2>1, <2>3, <2>4, ContinueTyped DEF Assign
<1>13. CASE Emit
  <2>. DEFINE a == Head(Top.todo)
              ev == [directive |-> Top.chain[Len(Top.chain)], path |-> Top.path.id,
                     index |-> Top.buf.next, event |-> a.event, fact |-> Evaluated(a.fact)]
              b == [Top.buf EXCEPT !.next = @ + 1, !.events = Append(@, ev)]
  <2>1. InActions /\ Top.todo # <<>> /\ Top \in Frame /\ a \in EmitAction
        /\ Top.buf \in Buffer /\ Top.path \in Path
        /\ Top.chain \in Seq(Directive) /\ Top.chain # <<>>
    BY <1>13, HeadAction, FrameParts DEF Emit, Doing
  <2>3. ev \in EventRecord
    <3>1. ev.directive \in Directive
      BY <2>1
    <3>2. ev.path \in PathId /\ ev.index \in Nat
      BY <2>1 DEF Path, Buffer
    <3>3. ev.event \in Event
      BY <2>1 DEF EmitAction
    <3>4. ev.fact \in Value
      BY <1>13 DEF Emit
    <3>. QED
      BY <3>1, <3>2, <3>3, <3>4 DEF EventRecord
  <2>4. b \in Buffer
    BY <2>1, <2>3, EmitBuffer
  <2>5. stack' = Continue(b)
    BY <1>13 DEF Emit
  <2>. HIDE DEF b
  <2>. QED
    BY <1>13, <2>1, <2>4, <2>5, ContinueTyped DEF Emit
<1>14. CASE BeginBranch
  BY <1>14, BeginBranchTyped
<1>15. CASE RaiseError
  <2>1. stack # <<>> /\ Top.kind = "actions" /\ phase = "running"
    BY <1>15 DEF RaiseError, InActions, Running
  <2>. QED
    BY <1>15, <2>1 DEF RaiseError, TypeOK, CallDiscipline, Top
<1>16. CASE UNCHANGED vars
  BY <1>16 DEF vars, TypeOK, CallDiscipline, Top
<1>. QED
  BY <1>1, <1>2, <1>3, <1>4, <1>5, <1>6, <1>7, <1>8, <1>9, <1>10, <1>11, <1>12, <1>13,
     <1>14, <1>15, <1>16 DEF Next

(* Every execution of every verified program keeps the types of its state, *)
(* delta and call stack, and its call stack well formed.                   *)
THEOREM TypesAndCalls == Spec => [](TypeOK /\ CallDiscipline)
<1>1. Init => TypeOK /\ CallDiscipline
  BY InitTyped
<1>2. TypeOK /\ CallDiscipline /\ [Next]_vars => (TypeOK /\ CallDiscipline)'
  BY StepTyped
<1>. QED
  BY <1>1, <1>2, PTL DEF Spec

-----------------------------------------------------------------------------
(* What a step does to the call stack, in six cases.                       *)

\* The frames 1..n keep their buffer, chain and nesting depth.
Kept(n) == \A i \in 1..n : /\ stack'[i].buf = stack[i].buf
                           /\ stack'[i].chain = stack[i].chain
                           /\ stack'[i].depth = stack[i].depth

Stays == stack' = stack /\ committed' = committed /\ (stack # <<>> => roots' = roots)

Calls ==
  LET f == stack'[Len(stack) + 1] IN
  /\ stack' \in Seq(Frame) /\ Len(stack') = Len(stack) + 1 /\ Kept(Len(stack))
  /\ committed' = committed /\ roots' = roots
  /\ f.buf = Opened(CallerBuffer)
  /\ stack = <<>> => f.chain = <<Head(roots)>>
  /\ \/ stack # <<>> /\ f.chain = Top.chain
     \/ \E d \in Directive : /\ f.chain = Append(InvocationStack, d)
                             /\ Allowed(d) /\ ~OnStack(d)
                             /\ Len(InvocationStack) < MAX_INVOCATION_DEPTH
  /\ f.depth <= MAX_CONDITIONAL_DEPTH

Acts ==
  LET b == stack'[Len(stack)].buf IN
  /\ stack # <<>> /\ stack' \in Seq(Frame) /\ Len(stack') = Len(stack)
  /\ Kept(Len(stack) - 1) /\ committed' = committed /\ roots' = roots
  /\ stack'[Len(stack)].chain = Top.chain /\ stack'[Len(stack)].depth = Top.depth
  /\ \/ b.next = Top.buf.next /\ b.events = Top.buf.events
     \/ \E ev \in EventRecord : /\ b.next = Top.buf.next + 1
                                /\ b.events = Append(Top.buf.events, ev)
                                /\ ev.index = Top.buf.next
                                /\ ev.directive = Top.chain[Len(Top.chain)]
  /\ Assigned(b, Top.buf)

Returns ==
  LET f == stack'[Len(stack) - 1] IN
  /\ Len(stack) > 1 /\ stack' \in Seq(Frame) /\ Len(stack') = Len(stack) - 1
  /\ Kept(Len(stack) - 2) /\ committed' = committed /\ roots' = roots
  /\ f.chain = Caller.chain /\ f.depth = Caller.depth
  /\ f.buf.next = Top.buf.next /\ f.buf.events = Caller.buf.events \o Top.buf.events
  /\ Taken(f.buf, Caller.buf, Top.buf)

Drops ==
  /\ stack # <<>> /\ stack' \in Seq(Frame) /\ Len(stack') = Len(stack) - 1
  /\ Kept(Len(stack) - 1) /\ committed' = committed /\ roots' = roots

Commits ==
  /\ Len(stack) = 1 /\ stack' = <<>>
  /\ committed'.next = Top.buf.next
  /\ committed'.events = committed.events \o Top.buf.events
  /\ committed'.effects = committed.effects \o Top.buf.effects
  /\ Taken(committed', committed, Top.buf)

LEMMA EnterCalls ==
  ASSUME TypeOK, NEW d \in Directive, EnterDirective(d)
  PROVE  Calls
<1>1. stack' = Pushed(DirectiveFrame(d)) /\ DirectiveFrame(d) \in Frame
  BY DirectiveFrameType DEF EnterDirective, DirectiveFrame
<1>2. /\ stack' \in Seq(Frame) /\ Len(stack') = Len(stack) + 1
      /\ stack'[Len(stack) + 1] = DirectiveFrame(d)
      /\ \A i \in 1..Len(stack) : stack'[i] = stack[i]
  BY <1>1, PushedStack DEF TypeOK
<1>3. /\ DirectiveFrame(d).buf = Opened(CallerBuffer) /\ DirectiveFrame(d).depth = 0
      /\ DirectiveFrame(d).chain = Append(InvocationStack, d)
  BY DEF DirectiveFrame
<1>4. Allowed(d) /\ ~OnStack(d) /\ Len(InvocationStack) < MAX_INVOCATION_DEPTH
      /\ committed' = committed /\ roots' = roots
  BY DEF EnterDirective, Allowed
<1>5. stack = <<>> => Append(InvocationStack, d) = <<Head(roots)>>
  BY DEF EnterDirective, Calling, Doing, InActions, InvocationStack
<1>. QED
  BY <1>2, <1>3, <1>4, <1>5, EngineConstants DEF Calls, Kept

LEMMA BeginPathCalls ==
  ASSUME TypeOK, BeginPath
  PROVE  Calls
<1>. DEFINE q == SelectPath(Head(Top.todo))
            f == [Top EXCEPT !.path = q]
            g == [kind |-> "actions", chain |-> Top.chain, todo |-> OrderedActions(q),
                  path |-> q, depth |-> 0, buf |-> Opened(Top.buf)]
            s == Append(TopBecomes(f), g)
<1>1. stack \in Seq(Frame) /\ stack # <<>> /\ Top \in Frame /\ Top.kind = "directive"
      /\ Top.todo # <<>> /\ phase = "running" /\ signal = "none"
  BY TopOfStack DEF BeginPath, InDirective, Running, TypeOK
<1>2. q \in Path
  BY <1>1, FrameParts, SelectPathType
<1>3. OrderedActions(q) \in Seq(Action) /\ Opened(Top.buf) \in Buffer
  BY <1>1, <1>2, OrderedActionsType, OpenedType, FrameParts
<1>4. stack' = s
  BY DEF BeginPath
<1>. HIDE DEF q
<1>5. f \in Frame /\ f.buf = Top.buf /\ f.chain = Top.chain /\ f.depth = Top.depth
  <2>. DEFINE calls == [kind : {"directive"}, chain : Chain, todo : Seq(Decision),
                        path : Path \cup {None}, depth : {0}, buf : Buffer]
  <2>1. Top \in calls
    BY <1>1 DEF Frame
  <2>2. f \in calls
    BY <1>2, <2>1
  <2>3. f.buf = Top.buf /\ f.chain = Top.chain /\ f.depth = Top.depth
    BY <2>1
  <2>. QED
    BY <2>2, <2>3 DEF Frame
<1>6. g \in Frame /\ g.buf = Opened(Top.buf) /\ g.chain = Top.chain /\ g.depth = 0
  BY <1>1, <1>2, <1>3, FrameParts DEF Frame
<1>. HIDE DEF f, g
<1>7. /\ s \in Seq(Frame) /\ Len(s) = Len(stack) + 1
      /\ s[Len(stack)] = f /\ s[Len(stack) + 1] = g
      /\ \A i \in 1..Len(stack) - 1 : s[i] = stack[i]
  <2>1. f \in Frame /\ g \in Frame
    BY <1>5, <1>6
  <2>2. /\ Append(TopBecomes(f), g) \in Seq(Frame)
        /\ Len(Append(TopBecomes(f), g)) = Len(stack) + 1
        /\ Append(TopBecomes(f), g)[Len(stack)] = f
        /\ Append(TopBecomes(f), g)[Len(stack) + 1] = g
        /\ \A i \in 1..Len(stack) - 1 : Append(TopBecomes(f), g)[i] = stack[i]
    BY <1>1, <2>1, BegunStack, Zenon
  <2>. QED
    BY <2>2
<1>. HIDE DEF s
<1>8. Kept(Len(stack))
  <2>1. Len(stack) \in Nat /\ Len(stack) > 0 /\ Top = stack[Len(stack)]
    BY <1>1, StackEnds DEF TypeOK
  <2>2. \A i \in 1..Len(stack) : i = Len(stack) \/ i \in 1..Len(stack) - 1
    BY <2>1
  <2>3. f.buf = stack[Len(stack)].buf /\ f.chain = stack[Len(stack)].chain
        /\ f.depth = stack[Len(stack)].depth
    BY <1>5, <2>1
  <2>. QED
    BY <1>4, <1>7, <2>2, <2>3 DEF Kept
<1>9. CallerBuffer = Top.buf
  BY <1>1 DEF CallerBuffer
<1>10. committed' = committed /\ roots' = roots
  BY DEF BeginPath
<1>. QED
  BY <1>1, <1>4, <1>6, <1>7, <1>8, <1>9, <1>10, EngineConstants DEF Calls

LEMMA BeginBranchCalls ==
  ASSUME TypeOK, BeginBranch
  PROVE  Calls
<1>. DEFINE n == Top.depth + 1
            f == [Top EXCEPT !.todo = Branch, !.depth = n, !.buf = Opened(Top.buf)]
            s == Pushed(f)
<1>1. stack \in Seq(Frame) /\ Len(stack) \in Nat /\ Len(stack) > 0 /\ Top \in Frame
      /\ Top.kind = "actions" /\ phase = "running" /\ signal = "none" /\ stack # <<>>
      /\ Head(Top.todo) \in WhenAction
  BY TopOfStack, HeadAction DEF TypeOK, BeginBranch, Doing, InActions, Running
<1>2. Branch \in Seq(Action)
  BY <1>1 DEF Branch, WhenAction
<1>3. n \in Nat /\ n <= MAX_CONDITIONAL_DEPTH /\ Opened(Top.buf) \in Buffer
  BY <1>1, OpenedType, FrameParts, EngineConstants DEF BeginBranch
<1>4. stack' = s
  BY DEF BeginBranch
<1>. HIDE DEF n
<1>5. f \in Frame /\ f.buf = Opened(Top.buf) /\ f.chain = Top.chain /\ f.depth = n
  BY <1>1, <1>2, <1>3, FrameParts DEF Frame
<1>. HIDE DEF f
<1>6. /\ s \in Seq(Frame) /\ Len(s) = Len(stack) + 1 /\ s[Len(stack) + 1] = f
      /\ \A i \in 1..Len(stack) : s[i] = stack[i]
  BY <1>1, <1>5, PushedStack
<1>. HIDE DEF s
<1>7. CallerBuffer = Top.buf
  BY <1>1 DEF CallerBuffer
<1>8. committed' = committed /\ roots' = roots
  BY DEF BeginBranch
<1>. QED
  BY <1>1, <1>3, <1>4, <1>5, <1>6, <1>7, <1>8 DEF Calls, Kept

LEMMA ReturnReturns ==
  ASSUME TypeOK, Len(stack) > 1, NEW b, committed' = committed, roots' = roots,
         b.next = Top.buf.next, b.events = Caller.buf.events \o Top.buf.events,
         b \in Buffer, Caller.todo # <<>>, Taken(b, Caller.buf, Top.buf),
         stack' = Returned([Caller EXCEPT !.todo = Tail(@), !.buf = b])
  PROVE  Returns
<1>. DEFINE f == [Caller EXCEPT !.todo = Tail(@), !.buf = b]
            s == Returned(f)
<1>1. stack \in Seq(Frame) /\ Len(stack) \in Nat
  BY DEF TypeOK
<1>2. Caller \in Frame
  BY <1>1 DEF Caller
<1>3. f \in Frame /\ f.buf = b /\ f.chain = Caller.chain /\ f.depth = Caller.depth
  BY <1>2, NextItem DEF Frame
<1>4. stack' = s
  OBVIOUS
<1>. HIDE DEF f
<1>5. /\ s \in Seq(Frame) /\ Len(s) = Len(stack) - 1 /\ s[Len(stack) - 1] = f
      /\ \A i \in 1..Len(stack) - 2 : s[i] = stack[i]
  BY <1>1, <1>3, ReturnedStack
<1>. HIDE DEF s
<1>. QED
  BY <1>3, <1>4, <1>5 DEF Returns, Kept

LEMMA FinishReturns ==
  ASSUME TypeOK, CallDiscipline, FinishPath \/ ReturnDirective \/ FinishBranch
  PROVE  Returns
<1>1. stack \in Seq(Frame) /\ stack # <<>> /\ Len(stack) \in Nat /\ Top \in Frame
      /\ committed' = committed /\ roots' = roots
  BY TopOfStack DEF FinishPath, ReturnDirective, FinishBranch, InDirective, InActions, TypeOK
<1>2. Len(stack) > 1
  BY <1>1 DEF FinishPath, ReturnDirective, FinishBranch, InActions, CallDiscipline, Top
<1>3. Caller \in Frame /\ Caller.todo # <<>>
  BY <1>1, <1>2 DEF Caller, CallDiscipline
<1>. DEFINE m == Merged(Caller.buf, Top.buf)
<1>4. /\ m \in Buffer /\ m.next = Top.buf.next /\ m.events = Caller.buf.events \o Top.buf.events
      /\ Taken(m, Caller.buf, Top.buf)
  BY <1>1, <1>3, FrameParts, MergedType
<1>5. CASE FinishPath
  <2>. DEFINE b == [m EXCEPT !.effects = @ \o Caller.path.effects]
  <2>1. Caller.path \in Path
    <3>1. Caller.path # None
      BY <1>2, <1>5, <1>1 DEF FinishPath, CallDiscipline, Caller
    <3>. QED
      BY <1>3, <1>5, <3>1, FrameParts DEF FinishPath
  <2>2. stack' = Returned([Caller EXCEPT !.todo = Tail(@), !.buf = b])
    BY <1>5 DEF FinishPath
  <2>. HIDE DEF m
  <2>3. m.effects \o Caller.path.effects \in Seq(Effect)
    BY <1>4, <2>1 DEF Buffer, Path
  <2>4. b \in Buffer /\ b.next = m.next /\ b.events = m.events
    BY <1>4, <2>3 DEF Buffer
  <2>5. b.state = m.state /\ b.assignments = m.assignments
    BY <1>4 DEF Buffer
  <2>. HIDE DEF b
  <2>6. Taken(b, Caller.buf, Top.buf)
    BY <1>4, <2>5 DEF Taken
  <2>. QED
    BY <1>1, <1>2, <1>3, <1>4, <2>2, <2>4, <2>6, ReturnReturns
<1>6. CASE ReturnDirective \/ FinishBranch
  <2>1. stack' = Returned([Caller EXCEPT !.todo = Tail(@), !.buf = m])
    BY <1>6 DEF ReturnDirective, FinishBranch
  <2>. HIDE DEF m
  <2>. QED
    BY <1>1, <1>2, <1>3, <1>4, <2>1, ReturnReturns
<1>. QED
  BY <1>5, <1>6

LEMMA ContinueActs ==
  ASSUME TypeOK, InActions, Top.todo # <<>>, NEW b \in Buffer, committed' = committed, roots' = roots,
         stack' = Continue(b), Assigned(b, Top.buf),
         \/ b.next = Top.buf.next /\ b.events = Top.buf.events
         \/ \E ev \in EventRecord : /\ b.next = Top.buf.next + 1
                                    /\ b.events = Append(Top.buf.events, ev)
                                    /\ ev.index = Top.buf.next
                                    /\ ev.directive = Top.chain[Len(Top.chain)]
  PROVE  Acts
<1>. DEFINE f == [Top EXCEPT !.todo = Tail(@), !.buf = b]
            s == TopBecomes(f)
<1>1. stack \in Seq(Frame) /\ Len(stack) \in Nat /\ Len(stack) > 0 /\ Top \in Frame
      /\ stack # <<>>
  BY TopOfStack DEF TypeOK, InActions
<1>2. f \in Frame /\ f.buf = b /\ f.chain = Top.chain /\ f.depth = Top.depth
  BY <1>1, NextItem DEF Frame
<1>3. stack' = s
  BY DEF Continue
<1>. HIDE DEF f
<1>4. /\ s \in Seq(Frame) /\ Len(s) = Len(stack) /\ s[Len(stack)] = f
      /\ \A i \in 1..Len(stack) - 1 : s[i] = stack[i]
  BY <1>1, <1>2, ChangedTop
<1>. HIDE DEF s
<1>5. Kept(Len(stack) - 1)
  BY <1>3, <1>4 DEF Kept
<1>6. stack'[Len(stack)] = f
  BY <1>3, <1>4
<1>. QED
  BY <1>1, <1>2, <1>3, <1>4, <1>5, <1>6 DEF Acts

LEMMA AssignActs ==
  ASSUME TypeOK, Assign
  PROVE  Acts
<1>. DEFINE a == Head(Top.todo)
            ev == [key |-> a.key, op |-> a.op, value |-> Evaluated(a.expr)]
            b == [Top.buf EXCEPT !.state = Apply(@, ev), !.assignments = Append(@, ev)]
<1>1. InActions /\ Top.todo # <<>> /\ Top.buf \in Buffer /\ a \in AssignAction
      /\ KeyType[a.key] = OpType[a.op]
  BY HeadAction, FrameParts DEF Assign, Doing
<1>2. ev \in Assignment
  <2>1. ev.value \in ValueOf(OpType[a.op])
    BY DEF Assign
  <2>2. ev.value \in Value
    BY <2>1 DEF ValueOf, Value
  <2>. QED
    BY <1>1, <2>1, <2>2 DEF Assignment, AssignAction
<1>3. b \in Buffer
  BY <1>1, <1>2, AssignBuffer
<1>4. stack' = Continue(b) /\ committed' = committed /\ roots' = roots
  BY DEF Assign
<1>. HIDE DEF ev
<1>5. b.next = Top.buf.next /\ b.events = Top.buf.events
  BY <1>1 DEF Buffer
<1>6. Assigned(b, Top.buf)
  <2>1. /\ b.state = Apply(Top.buf.state, ev)
        /\ b.assignments = Append(Top.buf.assignments, ev)
    BY <1>1 DEF Buffer
  <2>. QED
    BY <1>2, <2>1 DEF Assigned
<1>. HIDE DEF b
<1>. QED
  BY <1>1, <1>3, <1>4, <1>5, <1>6, ContinueActs

LEMMA EmitActs ==
  ASSUME TypeOK, Emit
  PROVE  Acts
<1>. DEFINE a == Head(Top.todo)
            ev == [directive |-> Top.chain[Len(Top.chain)], path |-> Top.path.id,
                   index |-> Top.buf.next, event |-> a.event, fact |-> Evaluated(a.fact)]
            n == Top.buf.next + 1
            es == Append(Top.buf.events, ev)
            b == [Top.buf EXCEPT !.next = n, !.events = es]
<1>1. InActions /\ Top.todo # <<>> /\ Top \in Frame /\ a \in EmitAction
      /\ Top.buf \in Buffer /\ Top.path \in Path
      /\ Top.chain \in Seq(Directive) /\ Top.chain # <<>>
  BY HeadAction, FrameParts DEF Emit, Doing
<1>2. ev \in EventRecord
  <2>1. Top.chain[Len(Top.chain)] \in Directive
    BY <1>1
  <2>2. Top.path.id \in PathId /\ Top.buf.next \in Nat /\ a.event \in Event
    BY <1>1 DEF Path, Buffer, EmitAction
  <2>3. Evaluated(a.fact) \in Value
    BY DEF Emit
  <2>. QED
    BY <2>1, <2>2, <2>3 DEF EventRecord
<1>3. b \in Buffer
  BY <1>1, <1>2, EmitBuffer
<1>4. stack' = Continue(b) /\ committed' = committed /\ roots' = roots
  BY DEF Emit
<1>5. ev.index = Top.buf.next /\ ev.directive = Top.chain[Len(Top.chain)]
  OBVIOUS
<1>. HIDE DEF ev
<1>6. n = Top.buf.next + 1 /\ es = Append(Top.buf.events, ev)
  OBVIOUS
<1>. HIDE DEF n, es
<1>7. b.next = n /\ b.events = es
  BY <1>1 DEF Buffer
<1>8. Assigned(b, Top.buf)
  BY <1>1 DEF Buffer, Assigned
<1>. HIDE DEF b
<1>. QED
  BY <1>1, <1>2, <1>3, <1>4, <1>5, <1>6, <1>7, <1>8, ContinueActs

LEMMA AbortDrops ==
  ASSUME TypeOK, CallDiscipline, AbortCall \/ CatchError
  PROVE  Drops
<1>1. stack \in Seq(Frame) /\ stack # <<>> /\ stack' = Below /\ committed' = committed /\ roots' = roots
  BY DEF AbortCall, CatchError, CallDiscipline, TypeOK
<1>2. /\ Below \in Seq(Frame) /\ Len(Below) = Len(stack) - 1
      /\ \A i \in 1..Len(stack) - 1 : Below[i] = stack[i]
  BY <1>1, PoppedStack
<1>. QED
  BY <1>1, <1>2 DEF Drops, Kept

LEMMA CommitCommits ==
  ASSUME TypeOK, CommitRoot
  PROVE  Commits
<1>1. Top \in Frame
  BY TopOfStack DEF CommitRoot, InDirective, TypeOK
<1>. QED
  BY <1>1, FrameParts, MergedType DEF CommitRoot, Commits, TypeOK

\* Every step is one of the six.
LEMMA StackStep ==
  ASSUME TypeOK, CallDiscipline, [Next]_vars
  PROVE  Stays \/ Calls \/ Acts \/ Returns \/ Drops \/ Commits
<1>1. CASE ResolveEntries \/ AbortRoot \/ Finish \/ RaiseError \/ UNCHANGED vars
  BY <1>1 DEF ResolveEntries, AbortRoot, Finish, RaiseError, vars, Stays, CallDiscipline
<1>2. ASSUME NEW d \in Directive, RejectCycle(d) \/ RejectDepth(d) \/ Deny(d)
      PROVE  Stays
  BY <1>2 DEF RejectCycle, RejectDepth, Deny, Reject, Stays
<1>3. ASSUME NEW d \in Directive, EnterDirective(d)
      PROVE  Calls
  BY <1>3, EnterCalls
<1>. QED
  BY <1>1, <1>2, <1>3, BeginPathCalls, BeginBranchCalls, FinishReturns, AssignActs,
     EmitActs, AbortDrops, CommitCommits DEF Next

-----------------------------------------------------------------------------
(* The safety invariants.                                                  *)

\* Concatenated and appended event sequences, index by index.
LEMMA ConcatenatedEvents ==
  ASSUME NEW es \in Seq(EventRecord), NEW fs \in Seq(EventRecord), NEW first \in Nat,
         \A k \in 1..Len(es) : es[k].index = first + k - 1,
         \A k \in 1..Len(fs) : fs[k].index = (first + Len(es)) + k - 1
  PROVE  /\ es \o fs \in Seq(EventRecord) /\ Len(es \o fs) = Len(es) + Len(fs)
         /\ \A k \in 1..Len(es) + Len(fs) : (es \o fs)[k].index = first + k - 1
<1>1. Len(es) \in Nat /\ Len(fs) \in Nat
  OBVIOUS
<1>2. ASSUME NEW k \in 1..Len(es) + Len(fs)
      PROVE  (es \o fs)[k].index = first + k - 1
  <2>1. CASE k <= Len(es)
    <3>1. (es \o fs)[k] = es[k]
      BY <2>1
    <3>. QED
      BY <1>1, <2>1, <3>1
  <2>2. CASE k > Len(es)
    <3>. DEFINE l == k - Len(es)
    <3>1. l \in 1..Len(fs)
      BY <1>1, <2>2
    <3>2. (es \o fs)[k] = fs[l]
      BY <2>2
    <3>3. fs[l].index = (first + Len(es)) + l - 1
      BY <3>1
    <3>4. (first + Len(es)) + l - 1 = first + k - 1
      BY <1>1
    <3>. HIDE DEF l
    <3>. QED
      BY <3>2, <3>3, <3>4
  <2>. QED
    BY <1>1, <2>1, <2>2
<1>. QED
  BY <1>2

LEMMA AppendedEvent ==
  ASSUME NEW es \in Seq(EventRecord), NEW ev \in EventRecord, NEW first \in Nat,
         \A k \in 1..Len(es) : es[k].index = first + k - 1,
         ev.index = first + Len(es)
  PROVE  /\ Len(Append(es, ev)) = Len(es) + 1
         /\ \A k \in 1..Len(es) + 1 : Append(es, ev)[k].index = first + k - 1
<1>1. Len(es) \in Nat /\ Len(Append(es, ev)) = Len(es) + 1
  OBVIOUS
<1>2. ASSUME NEW k \in 1..Len(es) + 1
      PROVE  Append(es, ev)[k].index = first + k - 1
  <2>1. CASE k <= Len(es)
    <3>1. Append(es, ev)[k] = es[k]
      BY <1>1, <2>1
    <3>. QED
      BY <1>1, <2>1, <3>1
  <2>2. CASE k = Len(es) + 1
    <3>1. Append(es, ev)[k] = ev
      BY <1>1, <2>2
    <3>. QED
      BY <1>1, <2>2, <3>1
  <2>. QED
    BY <1>1, <2>1, <2>2
<1>. QED
  BY <1>1, <1>2

\* Numbered for a typed buffer, with the domain of its events as an interval.
LEMMA NumberedEvents ==
  ASSUME NEW b \in Buffer, NEW first
  PROVE  /\ b.events \in Seq(EventRecord) /\ b.next \in Nat /\ DOMAIN b.events = 1..Len(b.events)
         /\ Numbered(b, first) <=> /\ b.next = first + Len(b.events)
                                   /\ \A k \in 1..Len(b.events) : b.events[k].index = first + k - 1
<1>1. b.events \in Seq(EventRecord) /\ b.next \in Nat
  BY DEF Buffer
<1>2. DOMAIN b.events = 1..Len(b.events)
  BY <1>1
<1>. QED
  BY <1>1, <1>2 DEF Numbered

\* Appending the numbered records of a callee to the numbered records of its
\* caller.
LEMMA NumberedMerge ==
  ASSUME NEW b \in Buffer, NEW c \in Buffer, NEW first \in Nat,
         Numbered(b, first), Numbered(c, b.next),
         NEW m \in Buffer, m.next = c.next, m.events = b.events \o c.events
  PROVE  Numbered(m, first)
<1>. DEFINE es == b.events
            fs == c.events
<1>1. es \in Seq(EventRecord) /\ fs \in Seq(EventRecord)
  BY NumberedEvents
<1>2. /\ b.next = first + Len(es) /\ c.next = b.next + Len(fs)
      /\ \A k \in 1..Len(es) : es[k].index = first + k - 1
      /\ \A k \in 1..Len(fs) : fs[k].index = b.next + k - 1
  BY NumberedEvents
<1>3. m.events = es \o fs /\ m.next = (first + Len(es)) + Len(fs)
  BY <1>2
<1>. HIDE DEF es, fs
<1>4. \A k \in 1..Len(fs) : fs[k].index = (first + Len(es)) + k - 1
  BY <1>2
<1>5. /\ Len(es \o fs) = Len(es) + Len(fs)
      /\ \A k \in 1..Len(es) + Len(fs) : (es \o fs)[k].index = first + k - 1
  BY <1>1, <1>2, <1>4, ConcatenatedEvents
<1>6. (first + Len(es)) + Len(fs) = first + Len(es \o fs)
  BY <1>1, <1>5
<1>7. \A k \in 1..Len(m.events) : m.events[k].index = first + k - 1
  BY <1>3, <1>5
<1>8. m.next = first + Len(m.events)
  BY <1>3, <1>6
<1>. QED
  BY <1>7, <1>8, NumberedEvents

LEMMA NumberedEmit ==
  ASSUME NEW b \in Buffer, NEW first \in Nat, Numbered(b, first),
         NEW ev \in EventRecord, ev.index = b.next,
         NEW m \in Buffer, m.next = b.next + 1, m.events = Append(b.events, ev)
  PROVE  Numbered(m, first)
<1>. DEFINE es == b.events
<1>1. es \in Seq(EventRecord) /\ b.next = first + Len(es)
      /\ \A k \in 1..Len(es) : es[k].index = first + k - 1
  BY NumberedEvents
<1>2. m.events = Append(es, ev) /\ ev.index = first + Len(es)
      /\ m.next = (first + Len(es)) + 1
  BY <1>1
<1>. HIDE DEF es
<1>3. /\ Len(Append(es, ev)) = Len(es) + 1
      /\ \A k \in 1..Len(es) + 1 : Append(es, ev)[k].index = first + k - 1
  BY <1>1, <1>2, AppendedEvent
<1>4. (first + Len(es)) + 1 = first + Len(Append(es, ev))
  BY <1>1, <1>3
<1>5. /\ m.next = first + Len(m.events)
      /\ \A k \in 1..Len(m.events) : m.events[k].index = first + k - 1
  BY <1>2, <1>3, <1>4
<1>. QED
  BY <1>5, NumberedEvents

\* The buffers of a typed execution.
LEMMA BufferTypes ==
  ASSUME TypeOK
  PROVE  /\ committed \in Buffer /\ Len(stack) \in Nat
         /\ \A i \in DOMAIN stack : stack[i].buf \in Buffer /\ Base(i) \in Buffer
                                    /\ Base(i).next \in Nat
<1>1. \A i \in DOMAIN stack : stack[i].buf \in Buffer
  BY FrameParts DEF TypeOK
<1>2. \A b \in Buffer : b.next \in Nat
  BY DEF Buffer
<1>. QED
  BY <1>1, <1>2 DEF TypeOK, Base

\* The base of a frame after a step.
BaseAfter(i) == IF i = 1 THEN committed' ELSE stack'[i - 1].buf

LEMMA NumberedAfter ==
  ASSUME Numbered(committed', 0),
         \A i \in DOMAIN stack' : Numbered(stack'[i].buf, BaseAfter(i).next)
  PROVE  EventsNumbered'
BY DEF EventsNumbered, Base, BaseAfter, Numbered

LEMMA TypesAfter ==
  ASSUME TypeOK'
  PROVE  committed' \in Buffer /\ \A i \in 1..Len(stack') : stack'[i].buf \in Buffer
BY FrameParts DEF TypeOK

\* An index below n or n itself.
LEMMA LastOrBefore ==
  ASSUME NEW n \in Nat, NEW i \in 1..n
  PROVE  i = n \/ i \in 1..n - 1
OBVIOUS

LEMMA StepNumbered ==
  ASSUME TypeOK, CallDiscipline, TypeOK', EventsNumbered, [Next]_vars
  PROVE  EventsNumbered'
<1>. DEFINE n == Len(stack)
<1>0. stack \in Seq(Frame) /\ stack' \in Seq(Frame) /\ n \in Nat /\ DOMAIN stack = 1..n
      /\ DOMAIN stack' = 1..Len(stack')
  BY DEF TypeOK
<1>1. CASE Stays
  BY <1>1 DEF Stays, EventsNumbered, Base
<1>2. CASE Calls
  <2>1. /\ committed' = committed /\ Len(stack') = n + 1
        /\ \A i \in 1..n : stack'[i].buf = stack[i].buf
        /\ stack'[n + 1].buf = Opened(CallerBuffer)
    BY <1>2 DEF Calls, Kept
  <2>2. \A i \in 1..n : BaseAfter(i) = Base(i)
    BY <1>0, <2>1 DEF Base, BaseAfter
  <2>3. BaseAfter(n + 1) = CallerBuffer
    BY <1>0, <2>1 DEF BaseAfter, CallerBuffer, Top
  <2>4. Numbered(Opened(CallerBuffer), CallerBuffer.next)
    BY InvocationStackType DEF Numbered, Opened, Buffer
  <2>5. \A i \in DOMAIN stack' : Numbered(stack'[i].buf, BaseAfter(i).next)
    <3>. SUFFICES ASSUME NEW i \in 1..n + 1 PROVE Numbered(stack'[i].buf, BaseAfter(i).next)
      BY <1>0, <2>1
    <3>1. CASE i \in 1..n
      BY <1>0, <2>1, <2>2, <3>1 DEF EventsNumbered
    <3>2. CASE i = n + 1
      BY <2>1, <2>3, <2>4, <3>2
    <3>. QED
      BY <1>0, <3>1, <3>2
  <2>. QED
    BY <2>1, <2>5, NumberedAfter DEF EventsNumbered
<1>3. CASE Acts
  <2>1. /\ committed' = committed /\ Len(stack') = n /\ n > 0
        /\ \A i \in 1..n - 1 : stack'[i].buf = stack[i].buf
    BY <1>0, <1>3 DEF Acts, Kept
  <2>2. \A i \in 1..n : BaseAfter(i) = Base(i)
    BY <1>0, <2>1 DEF Base, BaseAfter
  <2>3. Numbered(Top.buf, Base(n).next) /\ Top.buf \in Buffer /\ Base(n).next \in Nat
    BY <1>0, <2>1, BufferTypes DEF EventsNumbered, Top
  <2>4. Numbered(stack'[n].buf, Base(n).next)
    <3>1. CASE stack'[n].buf.next = Top.buf.next /\ stack'[n].buf.events = Top.buf.events
      BY <2>3, <3>1 DEF Numbered
    <3>2. ASSUME NEW ev \in EventRecord,
                 stack'[n].buf.next = Top.buf.next + 1, ev.index = Top.buf.next,
                 stack'[n].buf.events = Append(Top.buf.events, ev)
          PROVE  Numbered(stack'[n].buf, Base(n).next)
      <4>1. stack'[n].buf \in Buffer
        BY <1>0, <2>1, TypesAfter
      <4>. QED
        BY <2>3, <3>2, <4>1, NumberedEmit
    <3>. QED
      BY <1>3, <2>1, <3>1, <3>2 DEF Acts
  <2>5. \A i \in DOMAIN stack' : Numbered(stack'[i].buf, BaseAfter(i).next)
    <3>. SUFFICES ASSUME NEW i \in 1..n PROVE Numbered(stack'[i].buf, BaseAfter(i).next)
      BY <1>0, <2>1
    <3>0. i = n \/ i \in 1..n - 1
      BY <1>0, LastOrBefore
    <3>1. CASE i = n
      BY <1>0, <2>1, <2>2, <2>4, <3>1
    <3>2. CASE i \in 1..n - 1
      BY <1>0, <2>1, <2>2, <3>2 DEF EventsNumbered
    <3>. QED
      BY <3>0, <3>1, <3>2
  <2>. QED
    BY <2>1, <2>5, NumberedAfter DEF EventsNumbered
<1>4. CASE Returns
  <2>1. /\ committed' = committed /\ Len(stack') = n - 1 /\ n > 1
        /\ \A i \in 1..n - 2 : stack'[i].buf = stack[i].buf
        /\ stack'[n - 1].buf.next = Top.buf.next
        /\ stack'[n - 1].buf.events = Caller.buf.events \o Top.buf.events
    BY <1>0, <1>4 DEF Returns, Kept
  <2>2. \A i \in 1..n - 1 : BaseAfter(i) = Base(i)
    BY <1>0, <2>1 DEF Base, BaseAfter
  <2>3. /\ Numbered(Top.buf, Caller.buf.next) /\ Numbered(Caller.buf, Base(n - 1).next)
        /\ Top.buf \in Buffer /\ Caller.buf \in Buffer /\ Base(n - 1).next \in Nat
    <3>1. Base(n) = Caller.buf
      BY <1>0, <2>1 DEF Base, Caller
    <3>2. n \in DOMAIN stack /\ n - 1 \in DOMAIN stack /\ Top = stack[n] /\ Caller = stack[n - 1]
      BY <2>1, StackEnds DEF TypeOK
    <3>3. \A i \in {n - 1, n} : /\ stack[i].buf \in Buffer /\ Base(i).next \in Nat
                               /\ Numbered(stack[i].buf, Base(i).next)
      BY <3>2, BufferTypes DEF EventsNumbered
    <3>. QED
      BY <3>1, <3>2, <3>3
  <2>4. Numbered(stack'[n - 1].buf, Base(n - 1).next)
    <3>1. stack'[n - 1].buf \in Buffer
      BY <1>0, <2>1, TypesAfter
    <3>. QED
      BY <2>1, <2>3, <3>1, NumberedMerge
  <2>5. \A i \in DOMAIN stack' : Numbered(stack'[i].buf, BaseAfter(i).next)
    <3>. SUFFICES ASSUME NEW i \in 1..n - 1 PROVE Numbered(stack'[i].buf, BaseAfter(i).next)
      BY <1>0, <2>1
    <3>. DEFINE m == n - 1
    <3>4. m \in Nat /\ i \in 1..m /\ m - 1 = n - 2
      BY <1>0, <2>1
    <3>. HIDE DEF m
    <3>5. i = m \/ i \in 1..m - 1
      BY <3>4, LastOrBefore
    <3>0. i = n - 1 \/ i \in 1..n - 2
      BY <3>4, <3>5 DEF m
    <3>1. CASE i = n - 1
      BY <1>0, <2>1, <2>2, <2>4, <3>1
    <3>2. CASE i \in 1..n - 2
      <4>1. stack'[i].buf = stack[i].buf /\ BaseAfter(i) = Base(i)
        BY <2>1, <2>2, <3>2
      <4>2. i \in DOMAIN stack
        BY <1>0, <3>2
      <4>. QED
        BY <4>1, <4>2 DEF EventsNumbered
    <3>. QED
      BY <3>0, <3>1, <3>2
  <2>. QED
    BY <2>1, <2>5, NumberedAfter DEF EventsNumbered
<1>5. CASE Drops
  <2>1. /\ committed' = committed /\ Len(stack') = n - 1 /\ n > 0
        /\ \A i \in 1..n - 1 : stack'[i].buf = stack[i].buf
    BY <1>0, <1>5 DEF Drops, Kept
  <2>2. \A i \in 1..n - 1 : BaseAfter(i) = Base(i)
    BY <1>0, <2>1 DEF Base, BaseAfter
  <2>3. \A i \in 1..n - 1 : i \in DOMAIN stack
    BY <1>0, <2>1
  <2>4. \A i \in DOMAIN stack' : Numbered(stack'[i].buf, BaseAfter(i).next)
    BY <1>0, <2>1, <2>2, <2>3 DEF EventsNumbered
  <2>. QED
    BY <2>1, <2>4, NumberedAfter DEF EventsNumbered
<1>6. CASE Commits
  <2>1. /\ n = 1 /\ stack' = <<>> /\ committed'.next = Top.buf.next
        /\ committed'.events = committed.events \o Top.buf.events
    BY <1>6 DEF Commits
  <2>2. Numbered(Top.buf, committed.next) /\ Numbered(committed, 0)
        /\ Top.buf \in Buffer /\ committed \in Buffer
    BY <1>0, <2>1, BufferTypes DEF EventsNumbered, Base, Top
  <2>3. Numbered(committed', 0)
    BY <2>1, <2>2, TypesAfter, NumberedMerge
  <2>. QED
    BY <1>0, <2>1, <2>3, NumberedAfter
<1>. QED
  BY <1>1, <1>2, <1>3, <1>4, <1>5, <1>6, StackStep

(* The events of an execution carry the indices 0, 1, 2, ... in order, at  *)
(* every level of the call stack and in the result, whatever fails and is  *)
(* rolled back in between: event record ids are unique.                    *)
THEOREM Numbering == Spec => []EventsNumbered
<1>1. Init => EventsNumbered
  BY DEF Init, EventsNumbered, Numbered
<1>2. EventsNumbered /\ TypeOK /\ CallDiscipline /\ TypeOK' /\ [Next]_vars => EventsNumbered'
  BY StepNumbered
<1>. QED
  BY <1>1, <1>2, TypesAndCalls, PTL DEF Spec

-----------------------------------------------------------------------------
(* Authority.                                                              *)

\* The running root is the directive at the bottom of the stack.
RootServed == stack # <<>> => stack[1].chain = <<Head(roots)>>

\* A step leaves the arguments of execute, hence the authority checks, alone.
LEMMA AllowedKept ==
  ASSUME [Next]_vars
  PROVE  \A d : Allowed(d)' <=> Allowed(d)
<1>1. prog' = prog /\ grants' = grants
  BY DEF Next, vars, ResolveEntries, AbortRoot, Finish, RejectCycle, RejectDepth, Deny, Reject,
         EnterDirective, BeginPath, FinishPath, ReturnDirective, CommitRoot, CatchError,
         AbortCall, Assign, Emit, BeginBranch, FinishBranch, RaiseError
<1>. QED
  BY <1>1 DEF Allowed, DeniedChecks, Allows

\* Only CommitRoot and AbortRoot record a root, the running one.
LEMMA DoneStep ==
  ASSUME TypeOK, CallDiscipline, [Next]_vars
  PROVE  \/ done' = done
         \/ stack = <<>> /\ done' = Append(done, [root |-> Head(roots), ok |-> FALSE])
         \/ Len(stack) = 1 /\ done' = Append(done, [root |-> Head(roots), ok |-> TRUE])
BY DEF Next, vars, ResolveEntries, AbortRoot, Finish, RejectCycle, RejectDepth, Deny, Reject,
       EnterDirective, BeginPath, FinishPath, ReturnDirective, CommitRoot, CatchError,
       AbortCall, Assign, Emit, BeginBranch, FinishBranch, RaiseError

LEMMA RootServedStep ==
  ASSUME TypeOK, CallDiscipline, RootServed, [Next]_vars
  PROVE  RootServed'
<1>0. stack \in Seq(Frame) /\ Len(stack) \in Nat /\ (stack # <<>> => Len(stack) > 0)
  BY DEF TypeOK
<1>1. CASE Stays
  BY <1>1 DEF Stays, RootServed
<1>2. CASE Calls
  BY <1>0, <1>2 DEF Calls, Kept, RootServed
<1>3. CASE Acts
  <2>1. /\ stack # <<>> /\ Kept(Len(stack) - 1) /\ roots' = roots
        /\ stack'[Len(stack)].chain = Top.chain
    BY <1>3 DEF Acts
  <2>. DEFINE n == Len(stack)
  <2>0. Top = stack[n] /\ n \in Nat /\ n > 0
    BY <1>0, <2>1, StackEnds
  <2>2. stack[1].chain = <<Head(roots)>>
    BY <2>1 DEF RootServed
  <2>3. 1 = n \/ 1 \in 1..n - 1
    <3>. HIDE DEF n
    <3>. QED
      BY <2>0
  <2>4. stack'[1].chain = stack[1].chain
    BY <2>0, <2>1, <2>3 DEF Kept
  <2>. QED
    BY <2>1, <2>2, <2>4 DEF RootServed
<1>4. CASE Returns
  <2>1. /\ Len(stack) > 1 /\ Kept(Len(stack) - 2) /\ roots' = roots
        /\ stack'[Len(stack) - 1].chain = Caller.chain
    BY <1>4 DEF Returns
  <2>. DEFINE n == Len(stack)
  <2>0. Caller = stack[n - 1] /\ stack # <<>> /\ n \in Nat /\ n > 1
    BY <1>0, <2>1, StackEnds
  <2>2. stack[1].chain = <<Head(roots)>>
    BY <2>0 DEF RootServed
  <2>3. 1 = n - 1 \/ 1 \in 1..n - 2
    <3>. HIDE DEF n
    <3>. QED
      BY <2>0
  <2>4. stack'[1].chain = stack[1].chain
    BY <2>0, <2>1, <2>3 DEF Kept
  <2>. QED
    BY <2>1, <2>2, <2>4 DEF RootServed
<1>5. CASE Drops
  BY <1>0, <1>5 DEF Drops, Kept, RootServed
<1>6. CASE Commits
  BY <1>6 DEF Commits, RootServed
<1>. QED
  BY <1>1, <1>2, <1>3, <1>4, <1>5, <1>6, StackStep

\* The parts of OnlyAuthorizedAct: a sequence of events of cleared directives,
\* a chain of cleared directives.
EventsCleared(es) == \A k \in DOMAIN es : Allowed(es[k].directive)
ChainCleared(ch)  == \A j \in DOMAIN ch : Allowed(ch[j])
FrameCleared(f)   == ChainCleared(f.chain) /\ EventsCleared(f.buf.events)

LEMMA ClearedParts ==
  OnlyAuthorizedAct <=> /\ EventsCleared(committed.events)
                        /\ \A i \in DOMAIN stack : FrameCleared(stack[i])
                        /\ \A i \in DOMAIN done : done[i].ok => Allowed(done[i].root)
BY DEF OnlyAuthorizedAct, EventsCleared, ChainCleared, FrameCleared

LEMMA ClearedConcatenation ==
  ASSUME NEW es \in Seq(EventRecord), NEW fs \in Seq(EventRecord),
         EventsCleared(es), EventsCleared(fs)
  PROVE  EventsCleared(es \o fs)
<1>. SUFFICES ASSUME NEW k \in 1..Len(es) + Len(fs)
              PROVE  Allowed((es \o fs)[k].directive)
  BY DEF EventsCleared
<1>1. Len(es) \in Nat /\ Len(fs) \in Nat
  OBVIOUS
<1>2. CASE k <= Len(es)
  <2>1. (es \o fs)[k] = es[k] /\ k \in DOMAIN es
    BY <1>2
  <2>. QED
    BY <2>1 DEF EventsCleared
<1>3. CASE k > Len(es)
  <2>1. (es \o fs)[k] = fs[k - Len(es)] /\ k - Len(es) \in DOMAIN fs
    BY <1>1, <1>3
  <2>. QED
    BY <2>1 DEF EventsCleared
<1>. QED
  BY <1>1, <1>2, <1>3

\* The frames a step leaves behind, in terms of those it found: each is cleared.
LEMMA FramesCleared ==
  ASSUME TypeOK, CallDiscipline, TypeOK', OnlyAuthorizedAct, [Next]_vars
  PROVE  /\ \A i \in DOMAIN stack' : FrameCleared(stack'[i])
         /\ EventsCleared(committed'.events)
<1>. DEFINE n == Len(stack)
<1>0. stack \in Seq(Frame) /\ stack' \in Seq(Frame) /\ n \in Nat /\ DOMAIN stack = 1..n
      /\ DOMAIN stack' = 1..Len(stack')
  BY DEF TypeOK
<1>7. /\ EventsCleared(committed.events)
      /\ \A i \in 1..n : FrameCleared(stack[i])
  BY <1>0, ClearedParts
<1>8. ASSUME NEW m, Kept(m) PROVE \A i \in 1..m : FrameCleared(stack[i]) => FrameCleared(stack'[i])
  BY <1>8 DEF Kept, FrameCleared
<1>1. CASE Stays
  BY <1>0, <1>1, <1>7 DEF Stays
<1>2. CASE Calls
  <2>. DEFINE f == stack'[n + 1]
  <2>1. committed' = committed /\ Len(stack') = n + 1 /\ Kept(n) /\ f.buf = Opened(CallerBuffer)
    BY <1>2 DEF Calls
  <2>2. EventsCleared(f.buf.events)
    BY <2>1 DEF Opened, EventsCleared
  <2>3. ChainCleared(f.chain)
    <3>1. CASE stack # <<>> /\ f.chain = Top.chain
      BY <1>0, <1>7, <3>1 DEF FrameCleared, Top
    <3>2. ASSUME NEW d \in Directive, f.chain = Append(InvocationStack, d), Allowed(d)
          PROVE  ChainCleared(f.chain)
      <4>1. InvocationStack \in Seq(Directive) /\ ChainCleared(InvocationStack)
        BY <1>0, <1>7, InvocationStackType DEF InvocationStack, FrameCleared, Top, ChainCleared
      <4>. QED
        BY <3>2, <4>1 DEF ChainCleared
    <3>. QED
      BY <1>2, <3>1, <3>2 DEF Calls
  <2>4. FrameCleared(f)
    BY <2>2, <2>3 DEF FrameCleared
  <2>. QED
    BY <1>0, <1>7, <1>8, <2>1, <2>4
<1>3. CASE Acts
  <2>. DEFINE f == stack'[n]
  <2>1. /\ committed' = committed /\ Len(stack') = n /\ n > 0 /\ Kept(n - 1)
        /\ f.chain = Top.chain
    BY <1>0, <1>3 DEF Acts
  <2>2. Top \in Frame /\ Top.buf.events \in Seq(EventRecord) /\ FrameCleared(Top)
        /\ Top.chain \in Seq(Directive) /\ Top.chain # <<>>
    BY <1>0, <1>7, <2>1, TopOfStack, FrameParts DEF Top, Buffer
  <2>3. EventsCleared(f.buf.events)
    <3>1. CASE f.buf.events = Top.buf.events
      BY <2>2, <3>1 DEF FrameCleared
    <3>2. ASSUME NEW ev \in EventRecord, f.buf.events = Append(Top.buf.events, ev),
                 ev.directive = Top.chain[Len(Top.chain)]
          PROVE  EventsCleared(f.buf.events)
      <4>1. Allowed(ev.directive)
        BY <2>2, <3>2 DEF FrameCleared, ChainCleared
      <4>. QED
        BY <2>2, <3>2, <4>1 DEF FrameCleared, EventsCleared
    <3>. QED
      BY <1>3, <3>1, <3>2 DEF Acts
  <2>4. FrameCleared(f)
    BY <2>1, <2>2, <2>3 DEF FrameCleared
  <2>. QED
    BY <1>0, <1>7, <1>8, <2>1, <2>4
<1>4. CASE Returns
  <2>. DEFINE f == stack'[n - 1]
  <2>1. /\ committed' = committed /\ Len(stack') = n - 1 /\ n > 1 /\ Kept(n - 2)
        /\ f.chain = Caller.chain /\ f.buf.events = Caller.buf.events \o Top.buf.events
    BY <1>0, <1>4 DEF Returns
  <2>2. /\ Top.buf.events \in Seq(EventRecord) /\ Caller.buf.events \in Seq(EventRecord)
        /\ FrameCleared(Top) /\ FrameCleared(Caller)
    <3>1. n \in 1..n /\ n - 1 \in 1..n /\ Top = stack[n] /\ Caller = stack[n - 1]
      BY <1>0, <2>1, StackEnds
    <3>2. Top \in Frame /\ Caller \in Frame
      BY <1>0, <3>1
    <3>3. Top.buf \in Buffer /\ Caller.buf \in Buffer
      BY <3>2, FrameParts
    <3>. QED
      BY <1>7, <3>1, <3>3 DEF Buffer
  <2>3. FrameCleared(f)
    BY <2>1, <2>2, ClearedConcatenation DEF FrameCleared
  <2>. QED
    BY <1>0, <1>7, <1>8, <2>1, <2>3
<1>5. CASE Drops
  BY <1>0, <1>5, <1>7, <1>8 DEF Drops
<1>6. CASE Commits
  <2>5. n = 1 /\ committed \in Buffer
    BY <1>6 DEF Commits, TypeOK
  <2>1. n = 1 /\ Top = stack[1] /\ Top \in Frame /\ committed \in Buffer
    BY <1>0, <2>5 DEF Top
  <2>3. Top.buf.events \in Seq(EventRecord) /\ committed.events \in Seq(EventRecord)
    BY <2>1, FrameParts DEF Buffer
  <2>4. FrameCleared(Top)
    BY <1>7, <2>1
  <2>2. EventsCleared(committed'.events)
    BY <1>6, <1>7, <2>3, <2>4, ClearedConcatenation DEF Commits, FrameCleared
  <2>. QED
    BY <1>6, <2>2 DEF Commits
<1>. QED
  BY <1>1, <1>2, <1>3, <1>4, <1>5, <1>6, StackStep

LEMMA DoneCleared ==
  ASSUME TypeOK, CallDiscipline, RootServed, OnlyAuthorizedAct, [Next]_vars
  PROVE  \A i \in DOMAIN done' : done'[i].ok => Allowed(done'[i].root)
<1>1. done \in Seq([root : Directive, ok : BOOLEAN])
      /\ \A i \in DOMAIN done : done[i].ok => Allowed(done[i].root)
  BY ClearedParts DEF TypeOK
<1>2. CASE done' = done
  BY <1>1, <1>2
<1>3. CASE done' = Append(done, [root |-> Head(roots), ok |-> FALSE])
  BY <1>1, <1>3
<1>4. CASE Len(stack) = 1 /\ done' = Append(done, [root |-> Head(roots), ok |-> TRUE])
  <2>3. stack \in Seq(Frame)
    BY DEF TypeOK
  <2>4. 1 \in DOMAIN stack /\ stack # <<>>
    BY <1>4, <2>3
  <2>1. ChainCleared(stack[1].chain)
    BY <2>4, ClearedParts DEF FrameCleared
  <2>2. Allowed(Head(roots))
    BY <2>1, <2>4 DEF RootServed, ChainCleared
  <2>. QED
    BY <1>1, <1>4, <2>2
<1>. QED
  BY <1>2, <1>3, <1>4, DoneStep

\* Both are invariant: the root that is committed is the one that was cleared.
LEMMA AuthorizedRoots == Spec => [](OnlyAuthorizedAct /\ RootServed)
<1>1. Init => OnlyAuthorizedAct /\ RootServed
  BY DEF Init, OnlyAuthorizedAct, RootServed
<1>2. /\ OnlyAuthorizedAct /\ RootServed /\ TypeOK /\ CallDiscipline /\ TypeOK' /\ [Next]_vars
      => OnlyAuthorizedAct' /\ RootServed'
  <2>. SUFFICES ASSUME OnlyAuthorizedAct, RootServed, TypeOK, CallDiscipline, TypeOK', [Next]_vars
                PROVE  OnlyAuthorizedAct' /\ RootServed'
    OBVIOUS
  <2>1. RootServed'
    BY RootServedStep
  <2>2. /\ \A i \in DOMAIN stack' : FrameCleared(stack'[i])
        /\ EventsCleared(committed'.events)
        /\ \A i \in DOMAIN done' : done'[i].ok => Allowed(done'[i].root)
    BY FramesCleared, DoneCleared
  <2>3. \A d : Allowed(d)' <=> Allowed(d)
    BY AllowedKept
  <2>4. OnlyAuthorizedAct'
    BY <2>2, <2>3 DEF OnlyAuthorizedAct, FrameCleared, ChainCleared, EventsCleared
  <2>. QED
    BY <2>1, <2>4
<1>. QED
  BY <1>1, <1>2, TypesAndCalls, PTL DEF Spec

(* Whoever acts is authorised: active directives, the directives behind    *)
(* every queued or committed event, and the roots that succeeded.          *)
THEOREM Authorization == Spec => []OnlyAuthorizedAct
BY AuthorizedRoots, PTL

-----------------------------------------------------------------------------
(* The bounds on the recursion.                                            *)

\* A frame that respects both limits and whose chain repeats nothing.
Distinct(ch) == \A j, k \in DOMAIN ch : ch[j] = ch[k] => j = k
FrameBounded(f) == /\ Len(f.chain) <= MAX_INVOCATION_DEPTH /\ Distinct(f.chain)
                   /\ f.depth <= MAX_CONDITIONAL_DEPTH

LEMMA BoundedParts ==
  InvocationsBounded <=> \A i \in DOMAIN stack : FrameBounded(stack[i])
BY DEF InvocationsBounded, FrameBounded, Distinct

\* Adding a directive that is not on the stack.
LEMMA LongerChain ==
  ASSUME NEW ch \in Seq(Directive), NEW d \in Directive, Distinct(ch),
         \A i \in DOMAIN ch : ch[i] # d, Len(ch) < MAX_INVOCATION_DEPTH
  PROVE  Distinct(Append(ch, d)) /\ Len(Append(ch, d)) <= MAX_INVOCATION_DEPTH
<1>1. Len(ch) \in Nat /\ Len(Append(ch, d)) = Len(ch) + 1
  OBVIOUS
<1>2. /\ \A i \in 1..Len(ch) : Append(ch, d)[i] = ch[i]
      /\ Append(ch, d)[Len(ch) + 1] = d
      /\ DOMAIN ch = 1..Len(ch) /\ DOMAIN Append(ch, d) = 1..Len(ch) + 1
  OBVIOUS
<1>. HIDE DEF Distinct
<1>3. Distinct(Append(ch, d))
  BY <1>1, <1>2 DEF Distinct
<1>. QED
  BY <1>1, <1>3, EngineConstants

LEMMA StepBounded ==
  ASSUME TypeOK, CallDiscipline, TypeOK', InvocationsBounded, [Next]_vars
  PROVE  InvocationsBounded'
<1>. DEFINE n == Len(stack)
<1>0. stack \in Seq(Frame) /\ stack' \in Seq(Frame) /\ n \in Nat /\ DOMAIN stack = 1..n
      /\ DOMAIN stack' = 1..Len(stack')
  BY DEF TypeOK
<1>7. \A i \in 1..n : FrameBounded(stack[i])
  BY <1>0, BoundedParts
<1>8. ASSUME NEW m, Kept(m) PROVE \A i \in 1..m : FrameBounded(stack[i]) => FrameBounded(stack'[i])
  BY <1>8 DEF Kept, FrameBounded
<1>9. \A i \in DOMAIN stack' : FrameBounded(stack'[i])
  <2>1. CASE Stays
    BY <1>0, <1>7, <2>1 DEF Stays
  <2>2. CASE Calls
    <3>. DEFINE f == stack'[n + 1]
    <3>1. Len(stack') = n + 1 /\ Kept(n) /\ f.depth <= MAX_CONDITIONAL_DEPTH
      BY <2>2 DEF Calls
    <3>2. Distinct(f.chain) /\ Len(f.chain) <= MAX_INVOCATION_DEPTH
      <4>1. CASE stack # <<>> /\ f.chain = Top.chain
        BY <1>0, <1>7, <4>1 DEF FrameBounded, Top
      <4>2. ASSUME NEW d \in Directive, f.chain = Append(InvocationStack, d), ~OnStack(d),
                   Len(InvocationStack) < MAX_INVOCATION_DEPTH
            PROVE  Distinct(f.chain) /\ Len(f.chain) <= MAX_INVOCATION_DEPTH
        <5>1. InvocationStack \in Seq(Directive) /\ Distinct(InvocationStack)
          BY <1>0, <1>7, InvocationStackType DEF InvocationStack, FrameBounded, Top, Distinct
        <5>2. \A i \in DOMAIN InvocationStack : InvocationStack[i] # d
          BY <4>2 DEF OnStack
        <5>. QED
          BY <4>2, <5>1, <5>2, LongerChain
      <4>. QED
        BY <2>2, <4>1, <4>2 DEF Calls
    <3>3. FrameBounded(f)
      BY <3>1, <3>2 DEF FrameBounded
    <3>. QED
      BY <1>0, <1>7, <1>8, <3>1, <3>3
  <2>3. CASE Acts
    <3>0. stack # <<>> /\ stack'[n].chain = Top.chain /\ stack'[n].depth = Top.depth
      BY <2>3 DEF Acts
    <3>1. n > 0 /\ FrameBounded(Top)
      BY <1>0, <1>7, <3>0, StackEnds
    <3>2. FrameBounded(stack'[n])
      BY <3>0, <3>1 DEF FrameBounded
    <3>3. Len(stack') = n /\ Kept(n - 1)
      BY <2>3 DEF Acts
    <3>. QED
      BY <1>0, <1>7, <1>8, <3>1, <3>2, <3>3
  <2>4. CASE Returns
    <3>0. n > 1 /\ stack'[n - 1].chain = Caller.chain /\ stack'[n - 1].depth = Caller.depth
      BY <2>4 DEF Returns
    <3>1. FrameBounded(Caller)
      BY <1>0, <1>7, <3>0, StackEnds
    <3>2. FrameBounded(stack'[n - 1])
      BY <3>0, <3>1 DEF FrameBounded
    <3>3. Len(stack') = n - 1 /\ Kept(n - 2)
      BY <2>4 DEF Returns
    <3>. QED
      BY <1>0, <1>7, <1>8, <3>0, <3>2, <3>3
  <2>5. CASE Drops
    BY <1>0, <1>7, <1>8, <2>5 DEF Drops
  <2>6. CASE Commits
    BY <2>6 DEF Commits
  <2>. QED
    BY <2>1, <2>2, <2>3, <2>4, <2>5, <2>6, StackStep
<1>. QED
  BY <1>9 DEF InvocationsBounded, FrameBounded, Distinct

(* No chain of invocations repeats a directive or exceeds the limit, and   *)
(* no nest of branches exceeds its limit: execute's recursion is bounded,  *)
(* although verified programs may invoke in cycles.                        *)
THEOREM BoundedRecursion == Spec => []InvocationsBounded
<1>1. Init => InvocationsBounded
  BY DEF Init, InvocationsBounded
<1>2. /\ InvocationsBounded /\ TypeOK /\ CallDiscipline /\ TypeOK' /\ [Next]_vars
      => InvocationsBounded'
  BY StepBounded
<1>. QED
  BY <1>1, <1>2, TypesAndCalls, PTL DEF Spec

-----------------------------------------------------------------------------
(* Failures and their diagnostics.                                         *)

\* What a step does to the signal, the diagnostics and the roots that have
\* ended: a failure starts, a root ends, or neither.
FailureStarts ==
  /\ signal # "failed" /\ signal' = "failed" /\ done' = done
  /\ \E ds \in SUBSET Diagnostic : ds # {} /\ diagnostics' = Reported(ds)
RootEnds ==
  /\ signal \in {"none", "failed"} /\ signal' = "none" /\ diagnostics' = diagnostics
  /\ done' = Append(done, [root |-> Head(roots), ok |-> signal = "none"])
NeitherOfThem ==
  /\ diagnostics' = diagnostics /\ done' = done
  /\ signal = "failed" <=> signal' = "failed"

LEMMA FailureStep ==
  ASSUME TypeOK, CallDiscipline, [Next]_vars
  PROVE  FailureStarts \/ RootEnds \/ NeitherOfThem
<1>1. CASE CommitRoot
  BY <1>1 DEF CommitRoot, InDirective, Running, RootEnds
<1>2. CASE AbortRoot
  BY <1>2 DEF AbortRoot, RootEnds
<1>3. ASSUME NEW d \in Directive, RejectCycle(d) \/ RejectDepth(d) \/ Deny(d)
      PROVE  FailureStarts
  <2>1. signal = "none"
    BY <1>3 DEF RejectCycle, RejectDepth, Deny, Calling, Doing, InActions, Running
  <2>2. PICK ds \in SUBSET Diagnostic : ds # {} /\ Reject(ds)
    <3>1. CASE RejectCycle(d)
      <4>1. {[code |-> "RUN003", node |-> d]} \in SUBSET Diagnostic
        BY DEF Diagnostic
      <4>. QED
        BY <3>1, <4>1 DEF RejectCycle
    <3>2. CASE RejectDepth(d)
      <4>1. {[code |-> "RUN004", node |-> d]} \in SUBSET Diagnostic
        BY DEF Diagnostic
      <4>. QED
        BY <3>2, <4>1 DEF RejectDepth
    <3>3. CASE Deny(d)
      <4>. DEFINE ds == {[code |-> "RUN001", node |-> d, check |-> c] : c \in DeniedChecks(d)}
      <4>1. DeniedChecks(d) \subseteq Check
        BY VerifiedPrograms DEF DeniedChecks, TypeOK, Program
      <4>2. ds \in SUBSET Diagnostic
        BY <4>1 DEF Diagnostic
      <4>. QED
        BY <3>3, <4>2 DEF Deny
    <3>. QED
      BY <1>3, <3>1, <3>2, <3>3
  <2>. QED
    BY <2>1, <2>2 DEF Reject, FailureStarts
<1>4. CASE CatchError
  <2>1. stack # <<>> /\ Top \in Frame /\ Top.path # None /\ Top.kind = "directive"
    BY <1>4, TopOfStack DEF CatchError, CallDiscipline, TypeOK
  <2>2. Top.path \in Path
    BY <2>1, FrameParts
  <2>3. [code |-> "RUN002", node |-> Top.path.id] \in Diagnostic
    BY <2>2 DEF Diagnostic, Path
  <2>. QED
    BY <1>4, <2>3 DEF CatchError, FailureStarts
<1>5. CASE RaiseError
  BY <1>5 DEF RaiseError, InActions, Running, NeitherOfThem
<1>6. ASSUME NEW d \in Directive, EnterDirective(d)
      PROVE  NeitherOfThem
  BY <1>6 DEF EnterDirective, NeitherOfThem
<1>7. CASE \/ ResolveEntries \/ Finish \/ BeginPath \/ FinishPath \/ ReturnDirective
           \/ AbortCall \/ Assign \/ Emit \/ BeginBranch \/ FinishBranch \/ UNCHANGED vars
  BY <1>7 DEF ResolveEntries, Finish, BeginPath, FinishPath, ReturnDirective, AbortCall,
              Assign, Emit, BeginBranch, FinishBranch, vars, NeitherOfThem
<1>. QED
  BY <1>1, <1>2, <1>3, <1>4, <1>5, <1>6, <1>7 DEF Next

\* Reporting something changes the diagnostics and leaves an error on record.
LEMMA ReportedChanges ==
  ASSUME diagnostics \in [Diagnostic -> Nat], NEW ds \in SUBSET Diagnostic, ds # {}
  PROVE  /\ Reported(ds) # diagnostics
         /\ \E d \in Diagnostic : Reported(ds)[d] > 0
<1>1. PICK d \in ds : d \in Diagnostic
  OBVIOUS
<1>2. diagnostics[d] \in Nat /\ Reported(ds)[d] = diagnostics[d] + 1
  BY <1>1 DEF Reported
<1>. QED
  BY <1>1, <1>2

LEMMA StepDiagnosed ==
  ASSUME TypeOK, CallDiscipline, FailureDiagnosed, [Next]_vars
  PROVE  FailureDiagnosed'
<1>. DEFINE Failed(s) == \E i \in DOMAIN s : ~s[i].ok
<1>0. done \in Seq([root : Directive, ok : BOOLEAN]) /\ diagnostics \in [Diagnostic -> Nat]
      /\ (Erroneous <=> signal = "failed" \/ Failed(done))
  BY DEF TypeOK, FailureDiagnosed
<1>1. CASE FailureStarts
  <2>1. signal' = "failed"
    BY <1>1 DEF FailureStarts
  <2>2. Erroneous'
    BY <1>0, <1>1, ReportedChanges DEF FailureStarts, Erroneous
  <2>. QED
    BY <2>1, <2>2 DEF FailureDiagnosed
<1>2. CASE RootEnds
  <2>1. Erroneous' <=> Erroneous
    BY <1>2 DEF RootEnds, Erroneous
  <2>2. Failed(done') <=> Failed(done) \/ signal = "failed"
    <3>. DEFINE last == [root |-> Head(roots), ok |-> signal = "none"]
    <3>1. done' = Append(done, last) /\ Len(done) \in Nat
      BY <1>0, <1>2 DEF RootEnds
    <3>2. ~last.ok <=> signal = "failed"
      BY <1>2 DEF RootEnds
    <3>. HIDE DEF last
    <3>3. /\ DOMAIN done = 1..Len(done) /\ DOMAIN done' = 1..Len(done) + 1
          /\ \A i \in 1..Len(done) : done'[i] = done[i]
          /\ done'[Len(done) + 1] = last
      BY <1>0, <3>1
    <3>4. \A i \in 1..Len(done) + 1 : i \in 1..Len(done) \/ i = Len(done) + 1
      BY <3>1
    <3>5. 1..Len(done) \subseteq 1..Len(done) + 1 /\ Len(done) + 1 \in 1..Len(done) + 1
      BY <3>1
    <3>. QED
      BY <3>2, <3>3, <3>4, <3>5
  <2>3. signal' # "failed"
    BY <1>2 DEF RootEnds
  <2>. QED
    BY <1>0, <2>1, <2>2, <2>3 DEF FailureDiagnosed
<1>3. CASE NeitherOfThem
  BY <1>3 DEF NeitherOfThem, FailureDiagnosed, Erroneous
<1>. QED
  BY <1>1, <1>2, <1>3, FailureStep

(* An error is on record if and only if a root has failed or is failing:   *)
(* ExecutionResult.ok tells whether every entry directive took effect.     *)
THEOREM Diagnosis == Spec => []FailureDiagnosed
<1>1. Init => FailureDiagnosed
  BY DEF Init, FailureDiagnosed, Erroneous
<1>2. FailureDiagnosed /\ TypeOK /\ CallDiscipline /\ [Next]_vars => FailureDiagnosed'
  BY StepDiagnosed
<1>. QED
  BY <1>1, <1>2, TypesAndCalls, PTL DEF Spec

(* Diagnostics are reported when a failure starts and at no other step.    *)
THEOREM Causes == Spec => OneCausePerAbort
<1>1. TypeOK /\ CallDiscipline /\ [Next]_vars
      => [diagnostics' # diagnostics <=> signal # "failed" /\ signal' = "failed"]_vars
  <2>. SUFFICES ASSUME TypeOK, CallDiscipline, [Next]_vars
                PROVE  diagnostics' # diagnostics <=> signal # "failed" /\ signal' = "failed"
    OBVIOUS
  <2>1. CASE FailureStarts
    BY <2>1, ReportedChanges DEF FailureStarts, TypeOK
  <2>2. CASE RootEnds \/ NeitherOfThem
    BY <2>2 DEF RootEnds, NeitherOfThem
  <2>. QED
    BY <2>1, <2>2, FailureStep
<1>. QED
  BY <1>1, TypesAndCalls, PTL DEF Spec, OneCausePerAbort

-----------------------------------------------------------------------------
(* Entry directives.                                                       *)

\* The inductive form of EachRootOnce: what is left to execute has no
\* repetition, and nothing of it has been executed before.
RootsLeft ==
  /\ Distinct(roots)
  /\ \A i \in DOMAIN done, j \in DOMAIN roots : done[i].root # roots[j]
  /\ phase = "resolving" => done = <<>>

\* What a step does to roots and done.
RootsChosen == /\ phase = "resolving" /\ done' = done /\ phase' # "resolving"
               /\ roots' = prog.directives \/ (~BadEntries /\ roots' = ResolvedEntries)
RootsKept   == roots' = roots /\ done' = done /\ (phase' = "resolving" => phase = "resolving")
RootMoved   == /\ roots # <<>> /\ roots' = Tail(roots) /\ phase' # "resolving"
               /\ \E ok \in BOOLEAN : done' = Append(done, [root |-> Head(roots), ok |-> ok])

LEMMA RootsStep ==
  ASSUME TypeOK, CallDiscipline, [Next]_vars
  PROVE  RootsChosen \/ RootsKept \/ RootMoved
<1>1. CASE ResolveEntries
  BY <1>1 DEF ResolveEntries, RootsChosen, RootsKept
<1>2. CASE AbortRoot \/ CommitRoot
  BY <1>2 DEF AbortRoot, CommitRoot, InDirective, Running, CallDiscipline, RootMoved
<1>3. ASSUME NEW d \in Directive, RejectCycle(d) \/ RejectDepth(d) \/ Deny(d) \/ EnterDirective(d)
      PROVE  RootsKept
  BY <1>3 DEF RejectCycle, RejectDepth, Deny, Reject, EnterDirective, RootsKept
<1>4. CASE \/ Finish \/ BeginPath \/ FinishPath \/ ReturnDirective \/ CatchError \/ AbortCall
           \/ Assign \/ Emit \/ BeginBranch \/ FinishBranch \/ RaiseError \/ UNCHANGED vars
  BY <1>4 DEF Finish, BeginPath, FinishPath, ReturnDirective, CatchError, AbortCall,
              Assign, Emit, BeginBranch, FinishBranch, RaiseError, vars, RootsKept
<1>. QED
  BY <1>1, <1>2, <1>3, <1>4 DEF Next

\* Whatever entries execute resolves, they are distinct directives.
LEMMA DistinctEntries ==
  ASSUME TypeOK, RootsChosen
  PROVE  Distinct(roots')
<1>1. CASE roots' = prog.directives
  BY <1>1, VerifiedPrograms DEF TypeOK, Program, Distinct
<1>2. CASE ~BadEntries /\ roots' = ResolvedEntries
  BY <1>2 DEF BadEntries, ResolvedEntries, Distinct
<1>. QED
  BY <1>1, <1>2 DEF RootsChosen

LEMMA StepOnce ==
  ASSUME TypeOK, CallDiscipline, TypeOK', RootsLeft, EachRootOnce, [Next]_vars
  PROVE  RootsLeft' /\ EachRootOnce'
<1>0. done \in Seq([root : Directive, ok : BOOLEAN]) /\ roots \in Seq(Directive)
  BY DEF TypeOK
<1>1. CASE RootsChosen
  BY <1>1, DistinctEntries DEF RootsChosen, RootsLeft, EachRootOnce
<1>2. CASE RootsKept
  BY <1>2 DEF RootsKept, RootsLeft, EachRootOnce
<1>3. CASE RootMoved
  <2>. DEFINE n == Len(done)
  <2>1. PICK ok \in BOOLEAN : done' = Append(done, [root |-> Head(roots), ok |-> ok])
    BY <1>3 DEF RootMoved
  <2>2. roots # <<>> /\ roots' = Tail(roots) /\ phase' # "resolving"
    BY <1>3 DEF RootMoved
  <2>3. /\ n \in Nat /\ DOMAIN done = 1..n /\ DOMAIN done' = 1..n + 1
        /\ \A i \in 1..n : done'[i].root = done[i].root
        /\ done'[n + 1].root = roots[1]
    BY <1>0, <2>1, <2>2
  <2>4. /\ 1 \in DOMAIN roots
        /\ \A j \in DOMAIN roots' : /\ j + 1 \in DOMAIN roots /\ roots'[j] = roots[j + 1]
                                    /\ j \in Nat /\ j > 0
    BY <1>0, <2>2
  <2>5. Distinct(roots')
    BY <2>4 DEF RootsLeft, Distinct
  <2>6. \A i \in 1..n + 1 : i \in 1..n \/ i = n + 1
    BY <2>3
  <2>. HIDE DEF n
  <2>7. \A i \in DOMAIN done', j \in DOMAIN roots' : done'[i].root # roots'[j]
    BY <2>3, <2>4, <2>6 DEF RootsLeft, Distinct
  <2>8. EachRootOnce'
    BY <2>3, <2>4, <2>6 DEF EachRootOnce, RootsLeft
  <2>. QED
    BY <2>2, <2>5, <2>7, <2>8 DEF RootsLeft
<1>. QED
  BY <1>1, <1>2, <1>3, RootsStep

(* No directive is executed as a root twice, however it is referred to.    *)
THEOREM RootsOnce == Spec => []EachRootOnce
<1>1. Init => RootsLeft /\ EachRootOnce
  BY DEF Init, RootsLeft, EachRootOnce, Distinct
<1>2. /\ RootsLeft /\ EachRootOnce /\ TypeOK /\ CallDiscipline /\ TypeOK' /\ [Next]_vars
      => RootsLeft' /\ EachRootOnce'
  BY StepOnce
<1>. QED
  BY <1>1, <1>2, TypesAndCalls, PTL DEF Spec

-----------------------------------------------------------------------------
(* Replaying assignments.  Replay is a recursive function; that there is   *)
(* one for every length, and that it depends on the assignments only, is   *)
(* shown by induction on the length.                                       *)

\* f lists the snapshots that the first n of the assignments a lead through.
Snapshots(f, s, a, n) ==
  f = [k \in 0..n |-> IF k = 0 THEN s ELSE Apply(f[k - 1], a[k])]

\* The list of all states of a replay exists: by induction over the entries.
LEMMA SnapshotsExist ==
  ASSUME NEW s, NEW a, NEW n \in Nat
  PROVE  \E f : Snapshots(f, s, a, n)
<1>. DEFINE T == {m \in Nat : \E f : Snapshots(f, s, a, m)}
<1>1. 0 \in T
  <2>. DEFINE f == [k \in 0..0 |-> s]
  <2>1. f = [k \in 0..0 |-> IF k = 0 THEN s ELSE Apply(f[k - 1], a[k])]
    OBVIOUS
  <2>. QED
    BY <2>1 DEF Snapshots
<1>2. ASSUME NEW m \in Nat, m \in T PROVE m + 1 \in T
  <2>1. PICK f : Snapshots(f, s, a, m)
    BY <1>2
  <2>. DEFINE g == [k \in 0..m + 1 |-> IF k = m + 1 THEN Apply(f[m], a[k]) ELSE f[k]]
              h == [k \in 0..m + 1 |-> IF k = 0 THEN s ELSE Apply(g[k - 1], a[k])]
  <2>2. ASSUME NEW k \in 0..m + 1 PROVE g[k] = h[k]
    <3>1. CASE k = 0
      BY <2>1, <3>1 DEF Snapshots
    <3>2. CASE k \in 1..m
      <4>1. g[k] = f[k] /\ g[k - 1] = f[k - 1] /\ k \in 0..m
        BY <3>2
      <4>2. f[k] = Apply(f[k - 1], a[k])
        BY <2>1, <3>2, <4>1 DEF Snapshots
      <4>. QED
        BY <3>2, <4>1, <4>2
    <3>3. CASE k = m + 1
      <4>1. g[k - 1] = f[m]
        BY <3>3
      <4>. QED
        BY <3>3, <4>1
    <3>4. k = 0 \/ k \in 1..m \/ k = m + 1
      OBVIOUS
    <3>. QED
      BY <3>1, <3>2, <3>3, <3>4
  <2>3. g = h
    BY <2>2
  <2>4. Snapshots(g, s, a, m + 1)
    BY <2>3 DEF Snapshots
  <2>. HIDE DEF g
  <2>. QED
    BY <2>4
<1>. HIDE DEF T
<1>3. Nat \subseteq T
  BY <1>1, <1>2, EveryNat
<1>. QED
  BY <1>3 DEF T

SamePrefix(a, b, n) == \A k \in 1..n : a[k] = b[k]
SameSnapshots(f, g, n) == \A k \in 0..n : f[k] = g[k]

\* Two such lists agree as far as both go.
LEMMA SnapshotsAgree ==
  ASSUME NEW s, NEW a, NEW b, NEW n \in Nat, NEW m \in Nat, NEW f, NEW g,
         Snapshots(f, s, a, n), Snapshots(g, s, b, m), n <= m,
         SamePrefix(a, b, n)
  PROVE  SameSnapshots(f, g, n)
<1>. DEFINE T == {k \in Nat : k <= n => f[k] = g[k]}
<1>1. 0 \in T
  BY DEF Snapshots
<1>2. ASSUME NEW k \in Nat, k \in T PROVE k + 1 \in T
  <2>. SUFFICES ASSUME k + 1 <= n PROVE f[k + 1] = g[k + 1]
    OBVIOUS
  <2>1. f[k] = g[k] /\ a[k + 1] = b[k + 1]
    BY <1>2 DEF SamePrefix
  <2>2. f[k + 1] = Apply(f[k], a[k + 1])
    BY DEF Snapshots
  <2>3. g[k + 1] = Apply(g[k], b[k + 1])
    BY DEF Snapshots
  <2>. QED
    BY <2>1, <2>2, <2>3
<1>. HIDE DEF T
<1>3. Nat \subseteq T
  BY <1>1, <1>2, EveryNat
<1>. QED
  BY <1>3 DEF T, SameSnapshots

\* A replay is the last of its list.
LEMMA ReplayLast ==
  ASSUME NEW s, NEW a, Len(a) \in Nat, NEW f, Snapshots(f, s, a, Len(a))
  PROVE  Replay(s, a) = f[Len(a)]
<1>. DEFINE g == CHOOSE after : Snapshots(after, s, a, Len(a))
<1>1. Replay(s, a) = g[Len(a)]
  BY DEF Replay, Snapshots
<1>2. Snapshots(g, s, a, Len(a))
  OBVIOUS
<1>. HIDE DEF g
<1>. QED
  BY <1>1, <1>2, SnapshotsAgree DEF SamePrefix, SameSnapshots

\* Replaying nothing, one assignment more, and two sequences after each other.
LEMMA ReplayEmpty ==
  ASSUME NEW s
  PROVE  Replay(s, <<>>) = s
<1>1. PICK f : Snapshots(f, s, <<>>, 0)
  BY SnapshotsExist
<1>2. Len(<<>>) = 0 /\ f[0] = s
  BY <1>1 DEF Snapshots
<1>. QED
  BY <1>1, <1>2, ReplayLast

Concatenates(c, a, b) == c = a \o b
Lengthens(c, a, x)    == c = Append(a, x)

\* To replay two logs after each other is to replay their concatenation.
LEMMA ReplayConcatenation ==
  ASSUME NEW X, NEW s, NEW a \in Seq(X), NEW b \in Seq(X), NEW c, Concatenates(c, a, b)
  PROVE  Replay(s, c) = Replay(Replay(s, a), b)
<1>. DEFINE m == Len(a)
            n == Len(b)
            N == m + n
<1>1. /\ m \in Nat /\ n \in Nat /\ Len(c) = m + n
      /\ \A k \in 1..m : c[k] = a[k]
      /\ \A k \in 1..n : c[m + k] = b[k]
  BY DEF Concatenates
<1>0. m = Len(a) /\ n = Len(b) /\ N = Len(c) /\ N \in Nat /\ m <= N /\ N = m + n
  BY <1>1
<1>. HIDE DEF m, n, N
<1>2. PICK f : Snapshots(f, s, c, N)
  BY <1>0, SnapshotsExist
<1>3. PICK g : Snapshots(g, s, a, m)
  BY <1>1, SnapshotsExist
<1>4. f[m] = Replay(s, a)
  <2>1. Replay(s, a) = g[m]
    BY <1>0, <1>1, <1>3, ReplayLast
  <2>2. m \in 0..m
    BY <1>1
  <2>3. SamePrefix(a, c, m)
    BY <1>1 DEF SamePrefix
  <2>5. m \in Nat /\ N \in Nat /\ m <= N
    BY <1>0, <1>1
  <2>4. SameSnapshots(g, f, m)
    BY <1>2, <1>3, <2>3, <2>5, SnapshotsAgree
  <2>. QED
    BY <2>1, <2>2, <2>4 DEF SameSnapshots
<1>. DEFINE h == [k \in 0..n |-> f[m + k]]
            i == [k \in 0..n |-> IF k = 0 THEN f[m] ELSE Apply(h[k - 1], b[k])]
<1>5. ASSUME NEW k \in 0..n PROVE h[k] = i[k]
  <2>1. CASE k = 0
    BY <1>1, <2>1
  <2>2. CASE k \in 1..n
    <3>1. m + k \in 0..N /\ m + k # 0 /\ (m + k) - 1 = m + (k - 1) /\ k - 1 \in 0..n
      BY <1>0, <1>1, <2>2
    <3>2. f[m + k] = Apply(f[(m + k) - 1], c[m + k])
      BY <1>2, <3>1 DEF Snapshots
    <3>3. h[k - 1] = f[m + (k - 1)]
      BY <3>1
    <3>. QED
      BY <1>1, <2>2, <3>1, <3>2, <3>3
  <2>. QED
    BY <1>1, <2>1, <2>2
<1>6. Snapshots(h, f[m], b, n)
  <2>1. h = i
    BY <1>5
  <2>. QED
    BY <2>1 DEF Snapshots
<1>7. Replay(f[m], b) = h[n]
  <2>. HIDE DEF h
  <2>. QED
    BY <1>0, <1>1, <1>6, ReplayLast
<1>8. h[n] = f[N]
  BY <1>0, <1>1
<1>9. Replay(s, c) = f[N]
  BY <1>0, <1>2, ReplayLast
<1>. QED
  BY <1>4, <1>7, <1>8, <1>9

\* To replay one entry is to make its assignment.
LEMMA ReplayOne ==
  ASSUME NEW s, NEW x
  PROVE  Replay(s, <<x>>) = Apply(s, x)
<1>1. PICK f : Snapshots(f, s, <<x>>, 1)
  BY SnapshotsExist
<1>2. Len(<<x>>) = 1 /\ <<x>>[1] = x
  OBVIOUS
<1>3. f[0] = s
  BY <1>1 DEF Snapshots
<1>4. f[1] = Apply(f[0], <<x>>[1])
  BY <1>1 DEF Snapshots
<1>. QED
  BY <1>1, <1>2, <1>3, <1>4, ReplayLast

\* An entry more is an assignment more.
LEMMA ReplayAppend ==
  ASSUME NEW X, NEW s, NEW a \in Seq(X), NEW x \in X, NEW c, Lengthens(c, a, x)
  PROVE  Replay(s, c) = Apply(Replay(s, a), x)
<1>. DEFINE one == <<x>>
<1>1. Concatenates(c, a, one) /\ one \in Seq(X)
  BY DEF Lengthens, Concatenates
<1>2. Replay(Replay(s, a), one) = Apply(Replay(s, a), x)
  BY ReplayOne
<1>. HIDE DEF one
<1>3. Replay(s, c) = Replay(Replay(s, a), one)
  BY <1>1, ReplayConcatenation
<1>. QED
  BY <1>2, <1>3

-----------------------------------------------------------------------------
(* State and record agree.                                                 *)

\* A buffer's assignments make its state of the snapshot it started from.
Replayed(buf, first) == buf.state = Replay(first, buf.assignments)

\* StateIsReplay by its parts.
LEMMA ReplayedParts ==
  StateIsReplay <=> /\ Replayed(committed, prog.initials)
                    /\ \A i \in DOMAIN stack : Replayed(stack[i].buf, Base(i).state)
BY DEF StateIsReplay, Replayed

\* A buffer that is opened has nothing to replay.
LEMMA ReplayedOpened ==
  ASSUME NEW b
  PROVE  Replayed(Opened(b), b.state)
BY ReplayEmpty DEF Replayed, Opened

\* An assignment is logged where the state is changed.
LEMMA ReplayedAssigned ==
  ASSUME NEW b \in Buffer, NEW c, NEW first, Replayed(b, first), Assigned(c, b)
  PROVE  Replayed(c, first)
<1>1. CASE c.state = b.state /\ c.assignments = b.assignments
  BY <1>1 DEF Replayed
<1>2. ASSUME NEW a \in Assignment, c.state = Apply(b.state, a),
             c.assignments = Append(b.assignments, a)
      PROVE  Replayed(c, first)
  <2>1. b.assignments \in Seq(Assignment) /\ Lengthens(c.assignments, b.assignments, a)
    BY <1>2 DEF Buffer, Lengthens
  <2>2. Replay(first, c.assignments) = Apply(Replay(first, b.assignments), a)
    BY <2>1, ReplayAppend
  <2>. QED
    BY <1>2, <2>2 DEF Replayed
<1>. QED
  BY <1>1, <1>2 DEF Assigned

\* A buffer that takes over another's log replays it after its own.
LEMMA ReplayedTaken ==
  ASSUME NEW b \in Buffer, NEW c \in Buffer, NEW m, NEW first,
         Replayed(b, first), Replayed(c, b.state), Taken(m, b, c)
  PROVE  Replayed(m, first)
<1>1. /\ b.assignments \in Seq(Assignment) /\ c.assignments \in Seq(Assignment)
      /\ Concatenates(m.assignments, b.assignments, c.assignments)
  BY DEF Buffer, Taken, Concatenates
<1>2. Replay(first, m.assignments) = Replay(Replay(first, b.assignments), c.assignments)
  BY <1>1, ReplayConcatenation
<1>. QED
  BY <1>2 DEF Replayed, Taken

\* StateIsReplay after a step, by its parts.
LEMMA ReplayedAfter ==
  ASSUME prog' = prog, Replayed(committed', prog.initials),
         \A i \in DOMAIN stack' : Replayed(stack'[i].buf, BaseAfter(i).state)
  PROVE  StateIsReplay'
BY DEF StateIsReplay, Base, BaseAfter, Replayed

\* No step changes the program.
LEMMA ProgramKept ==
  ASSUME [Next]_vars
  PROVE  prog' = prog
BY DEF Next, vars, ResolveEntries, AbortRoot, Finish, RejectCycle, RejectDepth, Deny, Reject,
       EnterDirective, BeginPath, FinishPath, ReturnDirective, CommitRoot, CatchError,
       AbortCall, Assign, Emit, BeginBranch, FinishBranch, RaiseError

\* Every step keeps the state that of the replay.
LEMMA StepReplayed ==
  ASSUME TypeOK, CallDiscipline, TypeOK', StateIsReplay, [Next]_vars
  PROVE  StateIsReplay'
<1>. DEFINE n == Len(stack)
<1>0. /\ stack \in Seq(Frame) /\ stack' \in Seq(Frame) /\ n \in Nat /\ DOMAIN stack = 1..n
      /\ DOMAIN stack' = 1..Len(stack')
  BY DEF TypeOK
<1>7. /\ prog' = prog /\ Replayed(committed, prog.initials)
      /\ \A i \in 1..n : Replayed(stack[i].buf, Base(i).state)
  BY <1>0, ProgramKept, ReplayedParts
<1>1. CASE Stays
  BY <1>1, <1>7 DEF Stays, StateIsReplay, Base
<1>2. CASE Calls
  <2>1. /\ committed' = committed /\ Len(stack') = n + 1
        /\ \A i \in 1..n : stack'[i].buf = stack[i].buf
        /\ stack'[n + 1].buf = Opened(CallerBuffer)
    BY <1>2 DEF Calls, Kept
  <2>2. \A i \in 1..n : BaseAfter(i) = Base(i)
    BY <1>0, <2>1 DEF Base, BaseAfter
  <2>3. BaseAfter(n + 1) = CallerBuffer
    BY <1>0, <2>1 DEF BaseAfter, CallerBuffer, Top
  <2>5. \A i \in DOMAIN stack' : Replayed(stack'[i].buf, BaseAfter(i).state)
    <3>. SUFFICES ASSUME NEW i \in 1..n + 1 PROVE Replayed(stack'[i].buf, BaseAfter(i).state)
      BY <1>0, <2>1
    <3>1. CASE i \in 1..n
      BY <1>7, <2>1, <2>2, <3>1
    <3>2. CASE i = n + 1
      BY <2>1, <2>3, <3>2, ReplayedOpened
    <3>. QED
      BY <1>0, <3>1, <3>2
  <2>. QED
    BY <1>7, <2>1, <2>5, ReplayedAfter
<1>3. CASE Acts
  <2>1. /\ committed' = committed /\ Len(stack') = n /\ n > 0
        /\ \A i \in 1..n - 1 : stack'[i].buf = stack[i].buf
        /\ Assigned(stack'[n].buf, Top.buf)
    BY <1>0, <1>3 DEF Acts, Kept
  <2>2. \A i \in 1..n : BaseAfter(i) = Base(i)
    BY <1>0, <2>1 DEF Base, BaseAfter
  <2>3. Replayed(Top.buf, Base(n).state) /\ Top.buf \in Buffer
    BY <1>0, <1>7, <2>1, BufferTypes DEF Top
  <2>4. Replayed(stack'[n].buf, Base(n).state)
    BY <2>1, <2>3, ReplayedAssigned
  <2>5. \A i \in DOMAIN stack' : Replayed(stack'[i].buf, BaseAfter(i).state)
    <3>. SUFFICES ASSUME NEW i \in 1..n PROVE Replayed(stack'[i].buf, BaseAfter(i).state)
      BY <1>0, <2>1
    <3>0. i = n \/ i \in 1..n - 1
      BY <1>0, LastOrBefore
    <3>1. CASE i = n
      BY <1>0, <2>1, <2>2, <2>4, <3>1
    <3>2. CASE i \in 1..n - 1
      BY <1>0, <1>7, <2>1, <2>2, <3>2
    <3>. QED
      BY <3>0, <3>1, <3>2
  <2>. QED
    BY <1>7, <2>1, <2>5, ReplayedAfter
<1>4. CASE Returns
  <2>. DEFINE m == n - 1
  <2>1. /\ committed' = committed /\ Len(stack') = m /\ n > 1
        /\ \A i \in 1..n - 2 : stack'[i].buf = stack[i].buf
        /\ Taken(stack'[m].buf, Caller.buf, Top.buf)
    BY <1>0, <1>4 DEF Returns, Kept
  <2>0. m \in Nat /\ m > 0 /\ n = m + 1 /\ m - 1 = n - 2 /\ m \in 1..n /\ n \in 1..n
        /\ \A i \in 1..m - 1 : i \in 1..n
    BY <1>0, <2>1
  <2>2. \A i \in 1..m : BaseAfter(i) = Base(i)
    BY <1>0, <2>1 DEF Base, BaseAfter
  <2>3. /\ Replayed(Top.buf, Caller.buf.state) /\ Replayed(Caller.buf, Base(m).state)
        /\ Top.buf \in Buffer /\ Caller.buf \in Buffer
    <3>1. Base(n) = Caller.buf
      BY <1>0, <2>1 DEF Base, Caller
    <3>. QED
      BY <1>0, <1>7, <2>1, <3>1, BufferTypes DEF Top, Caller
  <2>. HIDE DEF m
  <2>4. Replayed(stack'[m].buf, Base(m).state)
    BY <2>1, <2>3, ReplayedTaken
  <2>5. \A i \in DOMAIN stack' : Replayed(stack'[i].buf, BaseAfter(i).state)
    <3>. SUFFICES ASSUME NEW i \in 1..m PROVE Replayed(stack'[i].buf, BaseAfter(i).state)
      BY <1>0, <2>1
    <3>0. i = m \/ i \in 1..m - 1
      BY <2>0, LastOrBefore
    <3>1. CASE i = m
      BY <2>2, <2>4, <3>1
    <3>2. CASE i \in 1..m - 1
      BY <1>7, <2>0, <2>1, <2>2, <3>2
    <3>. QED
      BY <3>0, <3>1, <3>2
  <2>. QED
    BY <1>7, <2>1, <2>5, ReplayedAfter
<1>5. CASE Drops
  <2>1. /\ committed' = committed /\ Len(stack') = n - 1 /\ n > 0
        /\ \A i \in 1..n - 1 : stack'[i].buf = stack[i].buf
    BY <1>0, <1>5 DEF Drops, Kept
  <2>2. \A i \in 1..n - 1 : BaseAfter(i) = Base(i)
    BY <1>0, <2>1 DEF Base, BaseAfter
  <2>. QED
    BY <1>0, <1>7, <2>1, <2>2, ReplayedAfter
<1>6. CASE Commits
  <2>1. /\ n = 1 /\ stack' = <<>> /\ Taken(committed', committed, Top.buf)
    BY <1>6 DEF Commits
  <2>2. Replayed(Top.buf, committed.state) /\ Top.buf \in Buffer /\ committed \in Buffer
    BY <1>0, <1>7, <2>1, BufferTypes DEF Base, Top
  <2>3. Replayed(committed', prog.initials)
    BY <1>7, <2>1, <2>2, ReplayedTaken
  <2>. QED
    BY <1>0, <1>7, <2>1, <2>3, ReplayedAfter
<1>. QED
  BY <1>1, <1>2, <1>3, <1>4, <1>5, <1>6, StackStep

\* The state of every buffer is the replay of its assignments on the snapshot it
\* started from, whatever was kept or dropped on the way.
THEOREM Replaying == Spec => []StateIsReplay
<1>1. Init => StateIsReplay
  BY ReplayEmpty DEF Init, StateIsReplay
<1>2. StateIsReplay /\ TypeOK /\ CallDiscipline /\ TypeOK' /\ [Next]_vars => StateIsReplay'
  BY StepReplayed
<1>. QED
  BY <1>1, <1>2, TypesAndCalls, PTL DEF Spec

-----------------------------------------------------------------------------
(* The atomic execution that the engine implements.                        *)

\* What appended records are, seen from the result.
LEMMA AppendedRecords ==
  ASSUME NEW X, NEW a \in Seq(X), NEW b \in Seq(X), NEW c, Concatenates(c, a, b)
  PROVE  Atomic!Extends(c, a) /\ Atomic!Added(c, a) = b
<1>1. /\ c \in Seq(X) /\ Len(a) \in Nat /\ Len(b) \in Nat /\ Len(c) = Len(a) + Len(b)
      /\ \A k \in 1..Len(a) : c[k] = a[k]
      /\ \A k \in 1..Len(b) : c[Len(a) + k] = b[k]
  BY DEF Concatenates
<1>2. SubSeq(c, 1, Len(a)) = a
  BY <1>1
<1>3. SubSeq(c, Len(a) + 1, Len(c)) = b
  BY <1>1
<1>. QED
  BY <1>1, <1>2, <1>3 DEF Atomic!Extends, Atomic!Added

\* The result the caller of the abstract execution sees.
ResultOf == IF phase # "finished" THEN "none" ELSE IF Erroneous THEN "errors" ELSE "ok"
AllowedSet == {d \in Directive : Allowed(d)}

LEMMA AllowedSetKept == [Next]_vars => AllowedSet' = AllowedSet
BY AllowedKept DEF AllowedSet

\* The steps inside a root change nothing that the caller sees.
Inside == /\ phase = "running" /\ phase' = "running"
          /\ roots' = roots /\ committed' = committed /\ done' = done

\* A step that the caller can see resolves, aborts, commits or finishes.
LEMMA VisibleStep ==
  ASSUME TypeOK, CallDiscipline, [Next]_vars
  PROVE  ResolveEntries \/ AbortRoot \/ Finish \/ CommitRoot \/ Inside \/ UNCHANGED vars
<1>1. ASSUME NEW d \in Directive, RejectCycle(d) \/ RejectDepth(d) \/ Deny(d) \/ EnterDirective(d)
      PROVE  Inside
  BY <1>1 DEF RejectCycle, RejectDepth, Deny, Reject, EnterDirective, Calling, Doing, InActions,
              Running, Inside
<1>2. CASE \/ BeginPath \/ FinishPath \/ ReturnDirective \/ CatchError \/ AbortCall
           \/ Assign \/ Emit \/ BeginBranch \/ FinishBranch \/ RaiseError
  BY <1>2 DEF BeginPath, FinishPath, ReturnDirective, CatchError, AbortCall, Assign, Emit,
              BeginBranch, FinishBranch, RaiseError, InDirective, Doing, InActions, Running, Inside
<1>. QED
  BY <1>1, <1>2 DEF Next

\* CommitRoot is the abstract commit: the whole of a root at once.
LEMMA CommitIsAtomic ==
  ASSUME TypeOK, CallDiscipline, TypeOK', RootServed, OnlyAuthorizedAct, OnlyAuthorizedAct',
         EventsNumbered', StateIsReplay, [Next]_vars, CommitRoot
  PROVE  Atomic!Commit
<1>1. /\ phase = "running" /\ phase' = phase /\ roots # <<>> /\ roots' = Tail(roots)
      /\ stack \in Seq(Frame) /\ Len(stack) = 1 /\ stack # <<>> /\ Top = stack[1]
      /\ done' = Append(done, [root |-> Head(roots), ok |-> TRUE])
  BY DEF CommitRoot, InDirective, Running, CallDiscipline, TypeOK, Top
<1>2. Head(roots) \in AllowedSet
  <2>1. Head(roots) \in Directive
    BY <1>1 DEF TypeOK
  <2>2. Allowed(Head(roots))
    BY <1>1 DEF RootServed, OnlyAuthorizedAct
  <2>. QED
    BY <2>1, <2>2 DEF AllowedSet
<1>3. Commits /\ Top.buf \in Buffer /\ committed \in Buffer /\ committed' \in Buffer
  BY <1>1, CommitCommits, BufferTypes, TypesAfter DEF TypeOK
<1>4. /\ Atomic!Extends(committed'.assignments, committed.assignments)
      /\ Atomic!Added(committed'.assignments, committed.assignments) = Top.buf.assignments
  <2>1. /\ committed.assignments \in Seq(Assignment) /\ Top.buf.assignments \in Seq(Assignment)
        /\ Concatenates(committed'.assignments, committed.assignments, Top.buf.assignments)
    BY <1>3 DEF Commits, Taken, Buffer, Concatenates
  <2>. QED
    BY <2>1, AppendedRecords
<1>5. Atomic!Extends(committed'.events, committed.events)
  <2>1. /\ committed.events \in Seq(EventRecord) /\ Top.buf.events \in Seq(EventRecord)
        /\ Concatenates(committed'.events, committed.events, Top.buf.events)
    BY <1>3 DEF Commits, Buffer, Concatenates
  <2>. QED
    BY <2>1, AppendedRecords
<1>6. Atomic!Extends(committed'.effects, committed.effects)
  <2>1. /\ committed.effects \in Seq(Effect) /\ Top.buf.effects \in Seq(Effect)
        /\ Concatenates(committed'.effects, committed.effects, Top.buf.effects)
    BY <1>3 DEF Commits, Buffer, Concatenates
  <2>. QED
    BY <2>1, AppendedRecords
<1>7. committed'.state = Replay(committed.state,
                           Atomic!Added(committed'.assignments, committed.assignments))
  <2>1. Top.buf.state = Replay(committed.state, Top.buf.assignments)
    BY <1>1 DEF StateIsReplay, Base
  <2>. QED
    BY <1>3, <1>4, <2>1 DEF Commits, Taken
<1>8. committed'.next = Len(committed'.events)
  BY <1>3 DEF EventsNumbered, Numbered, Buffer
<1>9. ASSUME NEW k \in Len(committed.events) + 1 .. Len(committed'.events)
      PROVE  committed'.events[k].index = k - 1 /\ committed'.events[k].directive \in AllowedSet
  <2>1. k \in DOMAIN committed'.events /\ committed'.events[k] \in EventRecord /\ k \in Int
    BY <1>3 DEF Buffer
  <2>2. committed'.events[k].index = 0 + k - 1
    BY <2>1 DEF EventsNumbered, Numbered
  <2>4. Allowed(committed'.events[k].directive)
    BY <2>1, AllowedKept DEF OnlyAuthorizedAct
  <2>. QED
    BY <2>1, <2>2, <2>4 DEF AllowedSet, EventRecord
<1>10. AllowedSet' = AllowedSet /\ ResultOf' = ResultOf
  BY <1>1, AllowedSetKept DEF ResultOf
<1>. QED
  BY <1>1, <1>2, <1>4, <1>5, <1>6, <1>7, <1>8, <1>9, <1>10 DEF Atomic!Commit, AllowedSet, ResultOf

\* ResolveEntries is the abstract beginning.
LEMMA EntriesBegin ==
  ASSUME TypeOK, CallDiscipline, [Next]_vars, ResolveEntries
  PROVE  Atomic!Begin
<1>1. UNCHANGED <<committed, done>> /\ AllowedSet' = AllowedSet /\ phase = "resolving"
  BY AllowedSetKept DEF ResolveEntries
<1>2. CASE phase' = "running" /\ (roots' = prog.directives \/ (~BadEntries /\ roots' = ResolvedEntries))
  <2>1. Distinct(roots')
    BY <1>1, <1>2, DistinctEntries DEF RootsChosen
  <2>2. ResultOf' = ResultOf
    BY <1>1, <1>2 DEF ResultOf
  <2>. QED
    BY <1>1, <1>2, <2>1, <2>2 DEF Atomic!Begin, Atomic!Distinct, Distinct, AllowedSet, ResultOf
<1>3. CASE phase' = "escaped" /\ roots' = roots
  <2>1. ResultOf' = ResultOf
    BY <1>1, <1>3 DEF ResultOf
  <2>. QED
    BY <1>1, <1>3, <2>1 DEF Atomic!Begin, AllowedSet, ResultOf
<1>. QED
  BY <1>2, <1>3 DEF ResolveEntries

\* Every step is one of the abstract execution or shows nothing.
LEMMA AtomicStep ==
  ASSUME TypeOK, CallDiscipline, TypeOK', RootServed, OnlyAuthorizedAct, OnlyAuthorizedAct',
         EventsNumbered', StateIsReplay, FailureDiagnosed, [Next]_vars
  PROVE  [Atomic!Next]_(Atomic!avars)
<1>0. AllowedSet' = AllowedSet
  BY AllowedSetKept
<1>1. CASE ResolveEntries
  BY <1>1, EntriesBegin DEF Atomic!Next
<1>2. CASE CommitRoot
  BY <1>2, CommitIsAtomic DEF Atomic!Next
<1>3. CASE AbortRoot
  <2>1. ResultOf' = ResultOf
    BY <1>3 DEF AbortRoot, ResultOf
  <2>2. Atomic!Abort
    BY <1>0, <1>3, <2>1 DEF AbortRoot, CallDiscipline, Atomic!Abort, AllowedSet, ResultOf
  <2>. QED
    BY <2>2 DEF Atomic!Next
<1>4. CASE Finish
  <2>1. ResultOf' = IF \A i \in DOMAIN done : done[i].ok THEN "ok" ELSE "errors"
    <3>1. Erroneous' <=> Erroneous
      BY <1>4 DEF Finish, Erroneous
    <3>2. Erroneous <=> \E i \in DOMAIN done : ~done[i].ok
      BY <1>4 DEF Finish, Running, FailureDiagnosed
    <3>. QED
      BY <1>4, <3>1, <3>2 DEF Finish, ResultOf
  <2>2. Atomic!Finish
    BY <1>0, <1>4, <2>1 DEF Finish, Running, Atomic!Finish, AllowedSet, ResultOf
  <2>. QED
    BY <2>2 DEF Atomic!Next
<1>5. CASE Inside
  <2>1. ResultOf' = ResultOf
    BY <1>5 DEF Inside, ResultOf
  <2>. QED
    BY <1>0, <1>5, <2>1 DEF Inside, Atomic!avars, AllowedSet, ResultOf
<1>6. CASE UNCHANGED vars
  <2>1. ResultOf' = ResultOf
    BY <1>6 DEF vars, ResultOf, Erroneous
  <2>. QED
    BY <1>0, <1>6, <2>1 DEF vars, Atomic!avars, AllowedSet, ResultOf
<1>. QED
  BY <1>1, <1>2, <1>3, <1>4, <1>5, <1>6, VisibleStep

(* The engine implements the atomic execution: to its caller a root either *)
(* takes effect as a whole, with its authority, its numbered events and a  *)
(* state its record accounts for, or not at all.                           *)
THEOREM Atomicity == Spec => AtomicRoots
<1>1. Init => Atomic!Init
  BY DEF Init, Atomic!Init
<1>2. /\ TypeOK /\ CallDiscipline /\ TypeOK' /\ RootServed /\ OnlyAuthorizedAct
      /\ OnlyAuthorizedAct' /\ EventsNumbered' /\ StateIsReplay /\ FailureDiagnosed
      /\ [Next]_vars
      => [Atomic!Next]_(Atomic!avars)
  BY AtomicStep
<1>. QED
  BY <1>1, <1>2, TypesAndCalls, AuthorizedRoots, Numbering, Replaying, Diagnosis, PTL
     DEF Spec, AtomicRoots, Atomic!Spec

=============================================================================
