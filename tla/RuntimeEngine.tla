--------------------------- MODULE RuntimeEngine ---------------------------
(***************************************************************************)
(* RuntimeEngine.execute of apexforge/runtime/engine.py: the execution of  *)
(* verified AIR.  The engine runs the entry directives one after the       *)
(* other.  A directive checks its authority, selects one path of each of   *)
(* its causal decisions and performs the path's ordered actions, which may *)
(* assign state, emit events, branch and invoke further directives.  Every *)
(* directive and every action stream is a transaction: its changes go to a *)
(* candidate buffer that its caller merges on success and drops on         *)
(* failure.                                                                *)
(*                                                                         *)
(* The recursion of the code is the variable stack: one frame per active   *)
(* call of _execute_directive ("directive") or _execute_ordered_actions    *)
(* ("actions").  The two ways a call ends early are the variable signal:   *)
(* "failed" is a returned result with ok=False, "raised" a                 *)
(* RuntimeExpressionError on its way to the nearest enclosing directive.   *)
(***************************************************************************)
EXTENDS Integers, Sequences

CONSTANTS
  Directive,             \* directive ids
  Principal, Capability, Resource, \* the vocabulary of authority checks
  AnyName, NoResource,   \* the wildcard "*" and the empty resource ""
  StateKey,              \* state ids
  KeyType,               \* the declared type of each state
  Expr, Eval(_, _),      \* expressions, and their value in a state
  Fault,                 \* what Eval gives for an expression that raises
  Event, Effect, PathId, \* event ids, host effect intents, path ids
  Action,                \* the ordered actions programs are built from
  Reference, Resolve,    \* directive references and what they resolve to
  Undefined,             \* a reference that resolves to no directive
  None,                  \* Python's None
  Programs,              \* the verified programs considered
  GrantSets,             \* the authority policies considered
  Entries,               \* the entry_directives arguments considered
  MAX_INVOCATION_DEPTH, MAX_CONDITIONAL_DEPTH

-----------------------------------------------------------------------------
(* Values, assignments and snapshots.                                      *)

IntValue  == [type : {"int"}, val : Int]
BoolValue == [type : {"bool"}, val : BOOLEAN]
Value     == IntValue \cup BoolValue

ValueOf(type) == IF type = "int" THEN IntValue ELSE BoolValue

OpType == [set_int |-> "int", add_int |-> "int", set_bool |-> "bool"]

Snapshot == {s \in [StateKey -> Value] : \A k \in StateKey : s[k] \in ValueOf(KeyType[k])}

Assignment == {a \in [key : StateKey, op : DOMAIN OpType, value : Value] :
                 /\ KeyType[a.key] = OpType[a.op]
                 /\ a.value \in ValueOf(OpType[a.op])}

\* StateSnapshot.apply for one assignment: a new snapshot, the old one is
\* immutable.
Apply(snapshot, a) ==
  [snapshot EXCEPT ![a.key] =
     IF a.op = "add_int" THEN [type |-> "int", val |-> @.val + a.value.val]
                         ELSE a.value]

-----------------------------------------------------------------------------
(* Programs.                                                               *)

AssignAction == [kind : {"assign"}, key : StateKey, op : DOMAIN OpType, expr : Expr]
EmitAction   == [kind : {"emit"}, event : Event, fact : Expr]
InvokeAction == [kind : {"invoke"}, target : Reference]
WhenAction   == [kind : {"when"}, cond : Expr, actions : Seq(Action),
                 otherwise : Seq(Action)]

Path == [id : PathId, weight : Int, actions : Seq(Action),
         assignments : Seq(Action), emits : Seq(Action),
         invocations : Seq(Action), effects : Seq(Effect)]

\* The order in which CausalEngine.select_path sorts paths: the greatest
\* weight first, ties by id.
Preferred(p, q) == p.weight > q.weight \/ (p.weight = q.weight /\ p.id <= q.id)

\* A verified causal decision has paths, whose ids differ, so one of them
\* sorts first.
Decision == {d \in SUBSET Path :
               /\ \A p, q \in d : p.id = q.id => p = q
               /\ \E p \in d : \A q \in d : Preferred(p, q)}

Check == [principal : Principal, capability : Capability, resource : Resource]
Grant == [principal : Principal, capability : Capability \cup {AnyName},
          resource : Resource \cup {AnyName, NoResource}]

\* The directives are in program order; no two of a verified program share an
\* id (_index_by_id).
Program == [directives : {s \in Seq(Directive) : \A i, j \in DOMAIN s : s[i] = s[j] => i = j},
            checks : [Directive -> SUBSET Check],
            decisions : [Directive -> Seq(Decision)],
            initials : Snapshot]

ASSUME EngineConstants ==
  /\ KeyType \in [StateKey -> {"int", "bool"}]
  /\ Resolve \in [Reference -> Directive \cup {Undefined}]
  /\ Undefined \notin Directive /\ None \notin Path
  /\ PathId \subseteq Nat
  /\ MAX_INVOCATION_DEPTH \in Nat /\ MAX_CONDITIONAL_DEPTH \in Nat

\* The validator admits assignments whose operation has the state's declared
\* type and invocations whose target exists (_validate_state_assignment,
\* _validate_directive_invocation).
ASSUME VerifiedActions ==
  /\ Action \subseteq AssignAction \cup EmitAction \cup InvokeAction \cup WhenAction
  /\ \A a \in Action : a.kind = "assign" => KeyType[a.key] = OpType[a.op]
  /\ \A a \in Action : a.kind = "invoke" => Resolve[a.target] \in Directive

ASSUME VerifiedPrograms ==
  /\ Programs \subseteq Program
  /\ GrantSets \subseteq SUBSET Grant
  /\ Entries \subseteq Seq(Reference) \cup {None}

-----------------------------------------------------------------------------
(* The state of one execution.                                             *)

VARIABLES
  prog, grants, entry, \* the arguments of execute
  phase,       \* "resolving", "running", "finished", or "escaped" on an exception
  roots,       \* entry directives still to be executed, the running one first
  stack,       \* active calls, innermost last
  signal,      \* "none", "failed" or "raised"
  committed,   \* what execute has accumulated from the roots that succeeded
  diagnostics, \* the shared diagnostics list, as a bag
  done         \* history: the roots that have ended, with their outcome

vars == <<prog, grants, entry, phase, roots, stack, signal, committed, diagnostics, done>>

EventRecord == [directive : Directive, path : PathId, index : Nat,
                event : Event, fact : Value]

\* What every transactional level accumulates.
Buffer == [state : Snapshot, next : Nat, assignments : Seq(Assignment),
           events : Seq(EventRecord), effects : Seq(Effect)]

Opened(buf) == [state |-> buf.state, next |-> buf.next, assignments |-> <<>>,
                events |-> <<>>, effects |-> <<>>]

\* Faulty variants of Merged: the callee's assignments, its index forgotten.
MergedWithoutRecord(buf, inner) ==
  [buf EXCEPT !.state = inner.state, !.next = inner.next,
              !.events = @ \o inner.events, !.effects = @ \o inner.effects]
MergedWithoutIndex(buf, inner) ==
  [inner EXCEPT !.next = buf.next, !.assignments = buf.assignments \o @,
                !.events = buf.events \o @, !.effects = buf.effects \o @]

\* The caller takes over the callee's state and index and appends its records.
Merged(buf, inner) == [state |-> inner.state, next |-> inner.next,
                       assignments |-> buf.assignments \o inner.assignments,
                       events |-> buf.events \o inner.events,
                       effects |-> buf.effects \o inner.effects]

\* chain is the invocation_stack argument, the frame's own directive last;
\* todo is what the enclosing for loop has left; path is the selected path.
Chain == Seq(Directive) \ {<<>>}
Frame == [kind : {"directive"}, chain : Chain, todo : Seq(Decision),
          path : Path \cup {None}, depth : {0}, buf : Buffer]
         \cup
         [kind : {"actions"}, chain : Chain, todo : Seq(Action),
          path : Path, depth : Nat, buf : Buffer]

Diagnostic == [code : {"RUN001"}, node : Directive, check : Check]
              \cup [code : {"RUN003", "RUN004"}, node : Directive]
              \cup [code : {"RUN002"}, node : PathId]

\* Faulty variant of Reported: a new list instead of the shared one.
ReportedAfresh(ds) == [d \in ds |-> 1]

Reported(ds) == [d \in Diagnostic |-> diagnostics[d] + IF d \in ds THEN 1 ELSE 0]

Top    == stack[Len(stack)]
Caller == stack[Len(stack) - 1]
Below  == SubSeq(stack, 1, Len(stack) - 1)

TopBecomes(frame) == [stack EXCEPT ![Len(stack)] = frame]
Pushed(frame)     == Append(stack, frame)
\* Pop the innermost frame and let its caller continue as frame.
Returned(frame)   == [Below EXCEPT ![Len(stack) - 1] = frame]

Running   == phase = "running" /\ signal = "none"
InActions == Running /\ stack # <<>> /\ Top.kind = "actions"
Doing(kind) == InActions /\ Top.todo # <<>> /\ Head(Top.todo).kind = kind


-----------------------------------------------------------------------------
(* AuthorityEngine.check: some grant names the principal, the capability   *)
(* or "*", and the resource, "*" or no resource at all.                    *)
Allows(c) ==
  \E g \in grants : /\ g.principal = c.principal
                    /\ g.capability \in {c.capability, AnyName}
                    /\ g.resource \in {NoResource, AnyName, c.resource}

DeniedChecks(d) == {c \in prog.checks[d] : ~Allows(c)}

\* CausalEngine.select_path: the path that sorts first.
SelectPath(decision) == CHOOSE p \in decision : \A q \in decision : Preferred(p, q)

\* Paths written before ordered actions existed list their actions by kind.
OrderedActions(p) ==
  IF p.actions # <<>> THEN p.actions ELSE p.assignments \o p.emits \o p.invocations

-----------------------------------------------------------------------------
(* execute: resolving the entry directives, and the loop over the roots.   *)

Init ==
  /\ prog \in Programs /\ grants \in GrantSets /\ entry \in Entries
  /\ phase = "resolving"
  /\ roots = <<>> /\ stack = <<>> /\ signal = "none"
  /\ committed = [state |-> prog.initials, next |-> 0, assignments |-> <<>>,
                  events |-> <<>>, effects |-> <<>>]
  /\ diagnostics = [d \in Diagnostic |-> 0]
  /\ done = <<>>

\* An undefined reference raises RuntimeExpressionError and two references to
\* one directive raise ValueError, both out of execute.
ResolvedEntries == [i \in DOMAIN entry |-> Resolve[entry[i]]]
\* Faulty variant of BadEntries: duplicates sought among the references.
DuplicateReferences ==
  \/ \E i \in DOMAIN entry : ResolvedEntries[i] = Undefined
  \/ \E i, j \in DOMAIN entry : i # j /\ entry[i] = entry[j]

BadEntries ==
  \/ \E i \in DOMAIN entry : ResolvedEntries[i] = Undefined
  \/ \E i, j \in DOMAIN entry : i # j /\ ResolvedEntries[i] = ResolvedEntries[j]

ResolveEntries ==
  /\ phase = "resolving"
  /\ \/ entry = None /\ phase' = "running" /\ roots' = prog.directives
     \/ /\ entry # None
        /\ ~BadEntries
        /\ phase' = "running" /\ roots' = ResolvedEntries
     \/ /\ entry # None
        /\ BadEntries
        /\ phase' = "escaped" /\ roots' = roots
  /\ UNCHANGED <<prog, grants, entry, stack, signal, committed, diagnostics, done>>

\* outcome.ok is False: nothing of the root is taken over.
AbortRoot ==
  /\ phase = "running" /\ signal = "failed" /\ stack = <<>>
  /\ roots' = Tail(roots)
  /\ done' = Append(done, [root |-> Head(roots), ok |-> FALSE])
  /\ signal' = "none"
  /\ UNCHANGED <<prog, grants, entry, phase, stack, committed, diagnostics>>

Finish ==
  /\ Running /\ stack = <<>> /\ roots = <<>>
  /\ phase' = "finished"
  /\ UNCHANGED <<prog, grants, entry, roots, stack, signal, committed, diagnostics, done>>

-----------------------------------------------------------------------------
(* _execute_directive.                                                     *)

InvocationStack == IF stack = <<>> THEN <<>> ELSE Top.chain
\* Faulty variant of OnStack: only direct recursion is a cycle.
CallsItself(d) == InvocationStack # <<>> /\ d = InvocationStack[Len(InvocationStack)]
OnStack(d) == \E i \in DOMAIN InvocationStack : InvocationStack[i] = d
CallerBuffer == IF stack = <<>> THEN committed ELSE Top.buf

\* Control is about to enter _execute_directive for d, from the root loop or
\* from an invocation action.
Calling(d) ==
  \/ Running /\ stack = <<>> /\ roots # <<>> /\ d = Head(roots)
  \/ Doing("invoke") /\ d = Resolve[Head(Top.todo).target]

\* Returning ok=False before anything was executed.
Reject(ds) ==
  /\ signal' = "failed"
  /\ diagnostics' = Reported(ds)
  /\ UNCHANGED <<prog, grants, entry, phase, roots, stack, committed, done>>

RejectCycle(d) ==
  /\ Calling(d) /\ OnStack(d)
  /\ Reject({[code |-> "RUN003", node |-> d]})

RejectDepth(d) ==
  /\ Calling(d) /\ ~OnStack(d)
  /\ Len(InvocationStack) >= MAX_INVOCATION_DEPTH
  /\ Reject({[code |-> "RUN004", node |-> d]})

\* Every check is evaluated, and every denial reported, before skipping.
Deny(d) ==
  /\ Calling(d) /\ ~OnStack(d)
  /\ Len(InvocationStack) < MAX_INVOCATION_DEPTH
  /\ DeniedChecks(d) # {}
  /\ Reject({[code |-> "RUN001", node |-> d, check |-> c] : c \in DeniedChecks(d)})

\* Faulty variant of EnterDirective: an invoked directive acts under the
\* authority of its caller.
EnterInvoked(d) ==
  /\ Calling(d) /\ ~OnStack(d)
  /\ Len(InvocationStack) < MAX_INVOCATION_DEPTH
  /\ DeniedChecks(d) = {} \/ InvocationStack # <<>>
  /\ stack' = Pushed([kind |-> "directive", chain |-> Append(InvocationStack, d),
                      todo |-> prog.decisions[d], path |-> None, depth |-> 0,
                      buf |-> Opened(CallerBuffer)])
  /\ UNCHANGED <<prog, grants, entry, phase, roots, signal, committed, diagnostics, done>>

EnterDirective(d) ==
  /\ Calling(d) /\ ~OnStack(d)
  /\ Len(InvocationStack) < MAX_INVOCATION_DEPTH
  /\ DeniedChecks(d) = {}
  /\ stack' = Pushed([kind |-> "directive", chain |-> Append(InvocationStack, d),
                      todo |-> prog.decisions[d], path |-> None, depth |-> 0,
                      buf |-> Opened(CallerBuffer)])
  /\ UNCHANGED <<prog, grants, entry, phase, roots, signal, committed, diagnostics, done>>

InDirective == Running /\ stack # <<>> /\ Top.kind = "directive"

\* The next causal decision: select its path and start the path's actions.
BeginPath ==
  /\ InDirective /\ Top.todo # <<>>
  /\ LET p == SelectPath(Head(Top.todo)) IN
     stack' = Append(TopBecomes([Top EXCEPT !.path = p]),
                     [kind |-> "actions", chain |-> Top.chain,
                      todo |-> OrderedActions(p), path |-> p, depth |-> 0,
                      buf |-> Opened(Top.buf)])
  /\ UNCHANGED <<prog, grants, entry, phase, roots, signal, committed, diagnostics, done>>

\* The path's actions are through: take them over, then queue its effects.
FinishPath ==
  /\ InActions /\ Top.todo = <<>> /\ Caller.kind = "directive"
  /\ stack' = Returned([Caller EXCEPT
                !.todo = Tail(@),
                !.buf = [Merged(Caller.buf, Top.buf) EXCEPT
                           !.effects = @ \o Caller.path.effects]])
  /\ UNCHANGED <<prog, grants, entry, phase, roots, signal, committed, diagnostics, done>>

\* A nested directive returns to the action that invoked it.
ReturnDirective ==
  /\ InDirective /\ Top.todo = <<>> /\ Len(stack) > 1
  /\ stack' = Returned([Caller EXCEPT !.todo = Tail(@),
                                      !.buf = Merged(Caller.buf, Top.buf)])
  /\ UNCHANGED <<prog, grants, entry, phase, roots, signal, committed, diagnostics, done>>

\* A root returns ok=True: execute takes over its state, index and records.
CommitRoot ==
  /\ InDirective /\ Top.todo = <<>> /\ Len(stack) = 1
  /\ committed' = Merged(committed, Top.buf)
  /\ stack' = <<>>
  /\ roots' = Tail(roots)
  /\ done' = Append(done, [root |-> Head(roots), ok |-> TRUE])
  /\ UNCHANGED <<prog, grants, entry, phase, signal, diagnostics>>

\* Faulty variant of CatchError: the directive returns ok=True.
SwallowError ==
  /\ phase = "running" /\ signal = "raised" /\ Top.kind = "directive"
  /\ diagnostics' = Reported({[code |-> "RUN002", node |-> Top.path.id]})
  /\ stack' = TopBecomes([Top EXCEPT !.todo = Tail(@)]) /\ signal' = "none"
  /\ UNCHANGED <<prog, grants, entry, phase, roots, committed, done>>

\* The except clause around a path's actions.
CatchError ==
  /\ phase = "running" /\ signal = "raised" /\ Top.kind = "directive"
  /\ diagnostics' = Reported({[code |-> "RUN002", node |-> Top.path.id]})
  /\ stack' = Below /\ signal' = "failed"
  /\ UNCHANGED <<prog, grants, entry, phase, roots, committed, done>>

\* Faulty variants of AbortCall: a failed root keeps what it has done so far,
\* and an invoking action does not look at the result.
AbortWithoutRollback ==
  /\ phase = "running" /\ stack # <<>>
  /\ \/ signal = "failed"
     \/ signal = "raised" /\ Top.kind = "actions"
  /\ stack' = Below
  /\ committed' = IF Len(stack) = 1 THEN Merged(committed, Top.buf) ELSE committed
  /\ UNCHANGED <<prog, grants, entry, phase, roots, signal, diagnostics, done>>

AbortOfDirectivesOnly ==
  /\ phase = "running" /\ stack # <<>>
  /\ \/ signal = "failed" /\ Top.kind = "directive"
     \/ signal = "raised" /\ Top.kind = "actions"
  /\ stack' = Below
  /\ UNCHANGED <<prog, grants, entry, phase, roots, signal, committed, diagnostics, done>>

\* A call that sees a failed callee, or an actions call an error passes
\* through, ends with its candidate buffer dropped.
AbortCall ==
  /\ phase = "running" /\ stack # <<>>
  /\ \/ signal = "failed"
     \/ signal = "raised" /\ Top.kind = "actions"
  /\ stack' = Below
  /\ UNCHANGED <<prog, grants, entry, phase, roots, signal, committed, diagnostics, done>>

-----------------------------------------------------------------------------
(* _execute_ordered_actions.                                               *)

Evaluated(expr) == Eval(expr, Top.buf.state)

\* Continue with the next action, the candidate buffer now being buf.
Continue(buf) == TopBecomes([Top EXCEPT !.todo = Tail(@), !.buf = buf])

\* _evaluate_assignment demands a value of exactly the operation's type.
Assign ==
  /\ Doing("assign")
  /\ LET a == Head(Top.todo)
         evaluated == [key |-> a.key, op |-> a.op, value |-> Evaluated(a.expr)]
     IN  /\ evaluated.value \in ValueOf(OpType[a.op])
         /\ stack' = Continue([Top.buf EXCEPT
                       !.state = Apply(@, evaluated),
                       !.assignments = Append(@, evaluated)])
  /\ UNCHANGED <<prog, grants, entry, phase, roots, signal, committed, diagnostics, done>>

Emit ==
  /\ Doing("emit")
  /\ LET a == Head(Top.todo)
         event == [directive |-> Top.chain[Len(Top.chain)], path |-> Top.path.id,
                   index |-> Top.buf.next, event |-> a.event,
                   fact |-> Evaluated(a.fact)]
     IN  /\ event.fact \in Value
         /\ stack' = Continue([Top.buf EXCEPT !.next = @ + 1,
                                              !.events = Append(@, event)])
  /\ UNCHANGED <<prog, grants, entry, phase, roots, signal, committed, diagnostics, done>>

Branch == LET a == Head(Top.todo) IN
          IF Evaluated(a.cond).val THEN a.actions ELSE a.otherwise

BeginBranch ==
  /\ Doing("when")
  /\ Evaluated(Head(Top.todo).cond) \in BoolValue
  /\ Top.depth < MAX_CONDITIONAL_DEPTH
  /\ stack' = Pushed([Top EXCEPT !.todo = Branch, !.depth = @ + 1,
                                 !.buf = Opened(Top.buf)])
  /\ UNCHANGED <<prog, grants, entry, phase, roots, signal, committed, diagnostics, done>>

FinishBranch ==
  /\ InActions /\ Top.todo = <<>> /\ Caller.kind = "actions"
  /\ stack' = Returned([Caller EXCEPT !.todo = Tail(@),
                                      !.buf = Merged(Caller.buf, Top.buf)])
  /\ UNCHANGED <<prog, grants, entry, phase, roots, signal, committed, diagnostics, done>>

\* The ways an action raises RuntimeExpressionError.
Raises(a) ==
  \/ a.kind = "assign" /\ Evaluated(a.expr) \notin ValueOf(OpType[a.op])
  \/ a.kind = "emit"   /\ Evaluated(a.fact) \notin Value
  \/ a.kind = "when"   /\ \/ Evaluated(a.cond) \notin BoolValue
                          \/ Top.depth >= MAX_CONDITIONAL_DEPTH

\* Faulty variant of RaiseError: the error is reported where it is raised and
\* again where it is caught.
RaiseReported ==
  /\ InActions /\ Top.todo # <<>> /\ Raises(Head(Top.todo))
  /\ signal' = "raised"
  /\ diagnostics' = Reported({[code |-> "RUN002", node |-> Top.path.id]})
  /\ UNCHANGED <<prog, grants, entry, phase, roots, stack, committed, done>>

RaiseError ==
  /\ InActions /\ Top.todo # <<>> /\ Raises(Head(Top.todo))
  /\ signal' = "raised"
  /\ UNCHANGED <<prog, grants, entry, phase, roots, stack, committed, diagnostics, done>>

-----------------------------------------------------------------------------

Next ==
  \/ ResolveEntries \/ AbortRoot \/ Finish
  \/ \E d \in Directive : RejectCycle(d) \/ RejectDepth(d) \/ Deny(d) \/ EnterDirective(d)
  \/ BeginPath \/ FinishPath \/ ReturnDirective \/ CommitRoot
  \/ CatchError \/ AbortCall
  \/ Assign \/ Emit \/ BeginBranch \/ FinishBranch \/ RaiseError

Spec == Init /\ [][Next]_vars

\* execute is one synchronous call: the interpreter keeps running it.
FairSpec == Spec /\ WF_vars(Next)

-----------------------------------------------------------------------------
(* Properties.                                                             *)

TypeOK ==
  /\ prog \in Programs /\ grants \in GrantSets /\ entry \in Entries
  /\ phase \in {"resolving", "running", "finished", "escaped"}
  /\ roots \in Seq(Directive)
  /\ stack \in Seq(Frame)
  /\ signal \in {"none", "failed", "raised"}
  /\ committed \in Buffer
  /\ diagnostics \in [Diagnostic -> Nat]
  /\ done \in Seq([root : Directive, ok : BOOLEAN])

(* The call stack is well formed: a root directive at the bottom, a caller *)
(* stops at the action or decision its callee serves, and an error finds a *)
(* directive with a selected path to be reported against.                  *)
CallDiscipline ==
  /\ stack # <<>> => stack[1].kind = "directive"
  /\ stack # <<>> \/ signal # "none" => phase = "running" /\ roots # <<>>
  /\ signal = "raised" => stack # <<>> /\ (Top.kind = "directive" => Top.path # None)
  /\ \A i \in 1..Len(stack) - 1 :
       /\ stack[i].todo # <<>>
       /\ stack[i].kind = "directive" => stack[i].path # None

\* The buffer a call started from: it is untouched while the call is active.
Base(i) == IF i = 1 THEN committed ELSE stack[i - 1].buf

\* The snapshot that a sequence of assignments makes of another.
Replay(snapshot, assignments) ==
  LET after[n \in 0..Len(assignments)] ==
        IF n = 0 THEN snapshot ELSE Apply(after[n - 1], assignments[n])
  IN  after[Len(assignments)]

(* At every level of the execution the state and the record of assignments *)
(* agree: replaying the assignments of the delta on the initial snapshot   *)
(* gives final_state, also after nested commits and rollbacks.             *)
StateIsReplay ==
  /\ committed.state = Replay(prog.initials, committed.assignments)
  /\ \A i \in DOMAIN stack :
       stack[i].buf.state = Replay(Base(i).state, stack[i].buf.assignments)

(* Event indices are handed out without gap or repetition, although a      *)
(* failed transaction gives its indices back: the k-th event of a level    *)
(* has the k-th index from where the level started.  Event record ids      *)
(* contain the index, so they are unique in the result.                    *)
Numbered(buf, first) ==
  /\ buf.next = first + Len(buf.events)
  /\ \A k \in DOMAIN buf.events : buf.events[k].index = first + k - 1

EventsNumbered ==
  /\ Numbered(committed, 0)
  /\ \A i \in DOMAIN stack : Numbered(stack[i].buf, Base(i).next)

(* Deny by default reaches every effect: whoever is active, whoever has an *)
(* event queued or committed, and every root that succeeded passed all of  *)
(* its authority checks, no matter who invoked it.                         *)
Allowed(d) == DeniedChecks(d) = {}

OnlyAuthorizedAct ==
  /\ \A k \in DOMAIN committed.events : Allowed(committed.events[k].directive)
  /\ \A i \in DOMAIN stack :
       /\ \A j \in DOMAIN stack[i].chain : Allowed(stack[i].chain[j])
       /\ \A k \in DOMAIN stack[i].buf.events : Allowed(stack[i].buf.events[k].directive)
  /\ \A i \in DOMAIN done : done[i].ok => Allowed(done[i].root)

(* The invocation stack never holds a directive twice and never exceeds    *)
(* the limit, whatever cycles the program's invocations have: nothing in   *)
(* the validator excludes them.                                            *)
InvocationsBounded ==
  \A i \in DOMAIN stack :
    /\ Len(stack[i].chain) <= MAX_INVOCATION_DEPTH
    /\ \A j, k \in DOMAIN stack[i].chain : stack[i].chain[j] = stack[i].chain[k] => j = k
    /\ stack[i].depth <= MAX_CONDITIONAL_DEPTH

(* No failure is swallowed and none is invented: an error is on record if  *)
(* and only if a root has failed or is failing.  At the end this is        *)
(* ExecutionResult.ok = "every root was committed".                        *)
Erroneous == \E d \in Diagnostic : diagnostics[d] > 0

FailureDiagnosed ==
  Erroneous <=> signal = "failed" \/ \E i \in DOMAIN done : ~done[i].ok

(* An entry directive is executed at most once, also when two references   *)
(* name it differently.                                                    *)
EachRootOnce == \A i, j \in DOMAIN done : done[i].root = done[j].root => i = j

(* Diagnostics are reported at the moment a failure starts and at no other *)
(* time: the callers a failure passes through add none of their own.       *)
OneCausePerAbort ==
  [][ diagnostics' # diagnostics <=> signal # "failed" /\ signal' = "failed" ]_vars

(* Every execution ends, for cyclic programs too.                          *)
Termination == <>(phase \in {"finished", "escaped"})

(* What execute promises its caller: roots are atomic (AtomicExecution).   *)
Atomic == INSTANCE AtomicExecution WITH
            allowed <- {d \in Directive : Allowed(d)},
            result  <- IF phase # "finished" THEN "none"
                       ELSE IF Erroneous THEN "errors" ELSE "ok"

AtomicRoots == Atomic!Spec

=============================================================================
