-------------------------- MODULE AtomicExecution --------------------------
(***************************************************************************)
(* What RuntimeEngine.execute promises, with no call stack: the entry      *)
(* directives take effect one at a time and in order, each completely or   *)
(* not at all, and the result is "ok" exactly when all of them did.        *)
(***************************************************************************)
EXTENDS Integers, Sequences

CONSTANTS Replay(_, _)  \* the snapshot a sequence of assignments makes of another

VARIABLES
  phase,      \* "resolving", "running", "finished" or "escaped"
  roots,      \* the entry directives that have not yet taken effect
  allowed,    \* the directives whose authority checks all pass
  committed,  \* the state, event count and records of the roots so far
  done,       \* the roots that have ended, with their outcome
  result      \* "none" until the end, then "ok" or "errors"

avars == <<phase, roots, allowed, committed, done, result>>

Init ==
  /\ phase = "resolving" /\ roots = <<>> /\ done = <<>> /\ result = "none"
  /\ committed.next = 0
  /\ committed.assignments = <<>> /\ committed.events = <<>> /\ committed.effects = <<>>

Distinct(s) == \A i, j \in DOMAIN s : s[i] = s[j] => i = j

Begin ==
  /\ phase = "resolving"
  /\ \/ phase' = "running" /\ Distinct(roots')
     \/ phase' = "escaped" /\ roots' = roots
  /\ UNCHANGED <<allowed, committed, done, result>>

\* new is old followed by further records.
Extends(new, old) == Len(new) >= Len(old) /\ SubSeq(new, 1, Len(old)) = old
Added(new, old)   == SubSeq(new, Len(old) + 1, Len(new))

\* One root takes effect as a whole: its assignments give the new state, its
\* events carry the next indices and come from authorised directives only.
Commit ==
  /\ phase = "running" /\ roots # <<>> /\ Head(roots) \in allowed
  /\ roots' = Tail(roots)
  /\ done' = Append(done, [root |-> Head(roots), ok |-> TRUE])
  /\ Extends(committed'.assignments, committed.assignments)
  /\ Extends(committed'.events, committed.events)
  /\ Extends(committed'.effects, committed.effects)
  /\ committed'.state = Replay(committed.state,
                               Added(committed'.assignments, committed.assignments))
  /\ committed'.next = Len(committed'.events)
  /\ \A k \in Len(committed.events) + 1 .. Len(committed'.events) :
       /\ committed'.events[k].index = k - 1
       /\ committed'.events[k].directive \in allowed
  /\ UNCHANGED <<phase, allowed, result>>

\* One root has no effect at all.
Abort ==
  /\ phase = "running" /\ roots # <<>>
  /\ roots' = Tail(roots)
  /\ done' = Append(done, [root |-> Head(roots), ok |-> FALSE])
  /\ UNCHANGED <<phase, allowed, committed, result>>

Finish ==
  /\ phase = "running" /\ roots = <<>>
  /\ phase' = "finished"
  /\ result' = IF \A i \in DOMAIN done : done[i].ok THEN "ok" ELSE "errors"
  /\ UNCHANGED <<roots, allowed, committed, done>>

Next == Begin \/ Commit \/ Abort \/ Finish

Spec == Init /\ [][Next]_avars

=============================================================================
