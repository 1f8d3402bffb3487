----------------------- MODULE VsLanguageClientProofs -----------------------
(***************************************************************************)
(* Proofs about VsLanguageClient, for every number of restart commands and *)
(* of server processes: a running server stays within reach, and a restart *)
(* that concludes "ready" has seen an initialization succeed.              *)
(***************************************************************************)
EXTENDS VsLanguageClient, SequenceTheorems, TLAPS

-----------------------------------------------------------------------------
(* The inductive invariant.                                                *)

\* A process that anyone can name has been activated.
OnlyActivated ==
  \A p \in Process :
    \/ activeProcess = p
    \/ \E q \in Process : activation[q].previous = p \/ callback[q].taken = p
    \/ \E r \in Restarter : restart[r].taken = p
    => activation[p].at # "idle"

\* The generation written as successful, or about to be, was recorded so, and
\* a verdict is about a later generation than the baseline.
SuccessRecorded ==
  /\ successfulInitializationGeneration > 0 => recorded[successfulInitializationGeneration]
  /\ \A p \in Process : callback[p].at = "write" =>
       callback[p].generation > 0 /\ recorded[callback[p].generation]
  /\ \A r \in Restarter : restart[r].at = "compare" =>
       restart[r].observed > restart[r].baseline

ClientInv == TypeOK /\ Serialized /\ SuccessRecorded /\ ReadyIsTrue /\ OnlyActivated /\ ActiveIsNotDoomed

-----------------------------------------------------------------------------
(* Types.                                                                  *)

ActivationRecord ==
  [at : ActivationState, by : Restarter \cup {Load, None}, previous : Process \cup {None}]

CallbackRecord(generations) ==
  [at : CallbackState, generation : 0..generations, taken : Process \cup {None}]

RestartRecord(generations) ==
  [at : RestartState, taken : Process \cup {None}, baseline : 0..generations,
   observed : 0..generations, result : BOOLEAN \cup {None}]

\* What an action leaves alone, said once: the parts of the type invariant.
ThreadTypes ==
  /\ activation \in [Process -> ActivationRecord]
  /\ callback \in [Process -> CallbackRecord(initializationGeneration)]
  /\ restart \in [Restarter -> RestartRecord(initializationGeneration)]

SharedTypes ==
  /\ activeProcess \in Process \cup {None}
  /\ initializationGeneration \in Nat
  /\ successfulInitializationGeneration \in 0..initializationGeneration
  /\ restartGate \in Restarter \cup {None}
  /\ starts \in Seq(Restarter \cup {Load})
  /\ process \in [Process -> {"new", "alive", "dead"}]
  /\ recorded \in Seq(BOOLEAN) /\ Len(recorded) = initializationGeneration

LEMMA TypeParts == TypeOK <=> ThreadTypes /\ SharedTypes
BY DEF TypeOK, ThreadTypes, SharedTypes, ActivationRecord, CallbackRecord, RestartRecord

LEMMA TypePartsNext == TypeOK' <=> ThreadTypes' /\ SharedTypes'
BY DEF TypeOK, ThreadTypes, SharedTypes, ActivationRecord, CallbackRecord, RestartRecord

LEMMA TerminatedType ==
  ASSUME SharedTypes, NEW p
  PROVE  /\ Terminated(p) \in [Process -> {"new", "alive", "dead"}]
         /\ \A q \in Process : Terminated(p)[q] = IF q = p /\ p # None /\ process[q] = "alive"
                                                  THEN "dead" ELSE process[q]
<1>1. CASE p # None /\ process[p] = "alive"
  BY <1>1 DEF Terminated, SharedTypes
<1>2. CASE ~(p # None /\ process[p] = "alive")
  BY <1>2 DEF Terminated, SharedTypes
<1>. QED
  BY <1>1, <1>2

LEMMA ClearedType ==
  ASSUME SharedTypes, NEW p
  PROVE  Cleared(p) \in Process \cup {None}
BY DEF Cleared, SharedTypes

LEMMA InitTypes == Init => TypeOK
<1>. SUFFICES ASSUME Init PROVE ThreadTypes /\ SharedTypes
  BY TypeParts
<1>1. ThreadTypes
  BY DEF Init, ThreadTypes, ActivationRecord, CallbackRecord, RestartRecord, ActivationState,
         CallbackState, RestartState
<1>2. SharedTypes
  BY DEF Init, SharedTypes, Process
<1>. QED
  BY <1>1, <1>2

\* A thread moves on to its next step.
LEMMA ActivationMoves ==
  ASSUME ThreadTypes, NEW p \in Process, NEW at \in ActivationState, ActivationAt(p, at)
  PROVE  /\ activation' \in [Process -> ActivationRecord]
         /\ \A q \in Process : /\ activation'[q].at = (IF q = p THEN at ELSE activation[q].at)
                               /\ activation'[q].previous = activation[q].previous
BY DEF ActivationAt, ThreadTypes, ActivationRecord

LEMMA RestartMoves ==
  ASSUME ThreadTypes, NEW r \in Restarter, NEW at \in RestartState, RestartAt(r, at)
  PROVE  /\ restart' \in [Restarter -> RestartRecord(initializationGeneration)]
         /\ \A s \in Restarter : /\ restart'[s].at = (IF s = r THEN at ELSE restart[s].at)
                                 /\ restart'[s].taken = restart[s].taken
                                 /\ restart'[s].baseline = restart[s].baseline
                                 /\ restart'[s].observed = restart[s].observed
BY DEF RestartAt, ThreadTypes, RestartRecord

LEMMA ActivationTypes ==
  ASSUME TypeOK, NEW p \in Process, ActivateStep(p) \/ Exit(p) \/ OnProcessExited(p)
  PROVE  TypeOK'
<1>. SUFFICES ThreadTypes' /\ SharedTypes'
  BY TypePartsNext
<1>0. ThreadTypes /\ SharedTypes
  BY TypeParts
<1>1. CASE Activate(p)
  <2>1. activation' \in [Process -> ActivationRecord]
    <3>1. Head(starts) \in Restarter \cup {Load}
      BY <1>0, <1>1 DEF Activate, SharedTypes
    <3>. QED
      BY <1>0, <1>1, <3>1 DEF Activate, ThreadTypes, SharedTypes, ActivationRecord, ActivationState
  <2>2. starts' \in Seq(Restarter \cup {Load})
    BY <1>0, <1>1 DEF Activate, SharedTypes
  <2>. QED
    BY <1>0, <1>1, <2>1, <2>2 DEF Activate, ThreadTypes, SharedTypes, Generations
<1>2. CASE TerminatePrevious(p)
  <2>1. activation' \in [Process -> ActivationRecord]
    <3>1. activation \in [Process -> ActivationRecord]
      BY <1>0 DEF ThreadTypes
    <3>2. [activation[p] EXCEPT !.at = "ready", !.previous = None] \in ActivationRecord
      BY <3>1 DEF ActivationRecord, ActivationState
    <3>. QED
      BY <1>2, <3>1, <3>2 DEF TerminatePrevious
  <2>. QED
    BY <1>0, <1>2, <2>1, TerminatedType DEF TerminatePrevious, ThreadTypes, SharedTypes, Generations
<1>3. CASE StartProcess(p)
  <2>1. activation' \in [Process -> ActivationRecord]
    BY <1>0, <1>3, ActivationMoves DEF StartProcess, ActivationState
  <2>. QED
    BY <1>0, <1>3, <2>1 DEF StartProcess, ThreadTypes, SharedTypes, Generations
<1>4. CASE ReturnConnection(p)
  <2>1. activation' \in [Process -> ActivationRecord]
    BY <1>0, <1>4, ActivationMoves DEF ReturnConnection, ActivationState
  <2>. QED
    BY <1>0, <1>4, <2>1 DEF ReturnConnection, ThreadTypes, SharedTypes, Generations
<1>5. CASE FailActivation(p)
  <2>1. activation' \in [Process -> ActivationRecord]
    BY <1>0, <1>5, ActivationMoves DEF FailActivation, ActivationState
  <2>. QED
    BY <1>0, <1>5, <2>1, ClearedType DEF FailActivation, ThreadTypes, SharedTypes, Generations
<1>6. CASE TerminateFailed(p)
  <2>1. activation' \in [Process -> ActivationRecord]
    BY <1>0, <1>6, ActivationMoves DEF TerminateFailed, ActivationState
  <2>. QED
    BY <1>0, <1>6, <2>1, TerminatedType DEF TerminateFailed, ThreadTypes, SharedTypes, Generations
<1>7. CASE Exit(p)
  BY <1>0, <1>7 DEF Exit, ThreadTypes, SharedTypes, Generations
<1>8. CASE OnProcessExited(p)
  BY <1>0, <1>8, ClearedType DEF OnProcessExited, ThreadTypes, SharedTypes, Generations
<1>. QED
  BY <1>1, <1>2, <1>3, <1>4, <1>5, <1>6, <1>7, <1>8 DEF ActivateStep

\* Two fields of a callback changed at once.
LEMMA CallbackChanged ==
  ASSUME NEW A, NEW G, NEW H, NEW T, NEW c \in [at : A, generation : G, taken : T],
         NEW a \in A, NEW h \in H, NEW t \in T
  PROVE  /\ [c EXCEPT !.at = a, !.generation = h] \in [at : A, generation : H, taken : T]
         /\ [c EXCEPT !.at = a, !.taken = t] \in [at : A, generation : G, taken : T]
OBVIOUS

LEMMA CallbackTypes ==
  ASSUME TypeOK, NEW p \in Process, CallbackStep(p)
  PROVE  TypeOK'
<1>. SUFFICES ThreadTypes' /\ SharedTypes'
  BY TypePartsNext
<1>0. ThreadTypes /\ SharedTypes
  BY TypeParts
<1>1. ASSUME NEW succeeded \in BOOLEAN, Handshake(p, succeeded)
      PROVE  ThreadTypes' /\ SharedTypes'
  <2>1. callback' \in [Process -> CallbackRecord(initializationGeneration)]
    BY <1>0, <1>1 DEF Handshake, ThreadTypes, CallbackRecord, CallbackState
  <2>. QED
    BY <1>0, <1>1, <2>1 DEF Handshake, ThreadTypes, SharedTypes, Generations
<1>2. CASE CountInitialization(p)
  <2>. DEFINE n == initializationGeneration
  <2>1. n \in Nat /\ n' = n + 1
    BY <1>0, <1>2 DEF CountInitialization, SharedTypes
  <2>2. callback' \in [Process -> CallbackRecord(n + 1)]
    <3>. DEFINE changed == [callback[p] EXCEPT !.at = AfterIncrement(@), !.generation = n + 1]
    <3>1. \A q \in Process : callback[q] \in CallbackRecord(n) /\ callback[q] \in CallbackRecord(n + 1)
      BY <1>0, <2>1 DEF ThreadTypes, CallbackRecord
    <3>2. changed \in CallbackRecord(n + 1)
      <4>1. AfterIncrement(callback[p].at) \in CallbackState /\ n + 1 \in 0..n + 1
        BY <2>1 DEF CallbackState, AfterIncrement
      <4>2. callback[p] \in [at : CallbackState, generation : 0..n, taken : Process \cup {None}]
        BY <3>1 DEF CallbackRecord
      <4>. QED
        BY <4>1, <4>2, CallbackChanged DEF CallbackRecord
    <3>4. callback' = [callback EXCEPT ![p] = changed]
      BY <1>0, <1>2 DEF CountInitialization, ThreadTypes
    <3>. HIDE DEF changed
    <3>. QED
      BY <1>0, <3>1, <3>2, <3>4 DEF ThreadTypes
  <2>3. restart' \in [Restarter -> RestartRecord(n + 1)]
    BY <1>0, <1>2, <2>1 DEF CountInitialization, ThreadTypes, RestartRecord
  <2>4. recorded' \in Seq(BOOLEAN) /\ Len(recorded') = n + 1
    BY <1>0, <1>2, <2>1 DEF CountInitialization, SharedTypes
  <2>. QED
    BY <1>0, <1>2, <2>1, <2>2, <2>3, <2>4 DEF CountInitialization, ThreadTypes, SharedTypes
<1>3. CASE WriteSuccess(p)
  <2>1. callback' \in [Process -> CallbackRecord(initializationGeneration)]
    BY <1>0, <1>3 DEF WriteSuccess, ThreadTypes, SharedTypes, CallbackRecord, CallbackState
  <2>2. callback[p].generation \in 0..initializationGeneration
    BY <1>0 DEF ThreadTypes, CallbackRecord
  <2>. QED
    BY <1>0, <1>3, <2>1, <2>2 DEF WriteSuccess, ThreadTypes, SharedTypes
<1>4. CASE StopAfterFailure(p)
  <2>1. callback' \in [Process -> CallbackRecord(initializationGeneration)]
    <3>. DEFINE changed == [callback[p] EXCEPT !.at = "terminate", !.taken = activeProcess]
    <3>1. changed \in CallbackRecord(initializationGeneration)
      <4>1. "terminate" \in CallbackState
        BY DEF CallbackState
      <4>2. /\ callback[p] \in [at : CallbackState, generation : 0..initializationGeneration,
                                taken : Process \cup {None}]
            /\ activeProcess \in Process \cup {None}
        BY <1>0 DEF ThreadTypes, SharedTypes, CallbackRecord
      <4>. QED
        BY <4>1, <4>2, CallbackChanged DEF CallbackRecord
    <3>2. callback' = [callback EXCEPT ![p] = changed]
      BY <1>0, <1>4 DEF StopAfterFailure, ThreadTypes
    <3>. HIDE DEF changed
    <3>. QED
      BY <1>0, <3>1, <3>2 DEF ThreadTypes
  <2>. QED
    BY <1>0, <1>4, <2>1 DEF StopAfterFailure, ThreadTypes, SharedTypes, Generations
<1>5. CASE TerminateAfterFailure(p)
  <2>1. callback' \in [Process -> CallbackRecord(initializationGeneration)]
    BY <1>0, <1>5 DEF TerminateAfterFailure, ThreadTypes, SharedTypes, CallbackRecord, CallbackState
  <2>. QED
    BY <1>0, <1>5, <2>1, TerminatedType DEF TerminateAfterFailure, ThreadTypes, SharedTypes, Generations
<1>. QED
  BY <1>1, <1>2, <1>3, <1>4, <1>5 DEF CallbackStep

LEMMA RestartTypes ==
  ASSUME TypeOK, NEW r \in Restarter, RequestRestart(r) \/ RestartStep(r)
  PROVE  TypeOK'
<1>. SUFFICES ThreadTypes' /\ SharedTypes'
  BY TypePartsNext
<1>0. ThreadTypes /\ SharedTypes
  BY TypeParts
<1>. DEFINE Typed == restart' \in [Restarter -> RestartRecord(initializationGeneration)]
<1>1. CASE RequestRestart(r)
  <2>1. Typed
    BY <1>0, <1>1, RestartMoves DEF RequestRestart, RestartState
  <2>. QED
    BY <1>0, <1>1, <2>1 DEF RequestRestart, ThreadTypes, SharedTypes, Generations
<1>2. CASE EnterGate(r)
  <2>1. Typed
    BY <1>0, <1>2, RestartMoves DEF EnterGate, RestartState
  <2>. QED
    BY <1>0, <1>2, <2>1 DEF EnterGate, ThreadTypes, SharedTypes, Generations
<1>3. CASE StopActive(r)
  <2>1. Typed
    <3>. DEFINE changed == [restart[r] EXCEPT !.at = IF @ = "stop" THEN "terminate" ELSE "abandon",
                                       !.taken = activeProcess]
    <3>0. /\ restart[r] \in RestartRecord(initializationGeneration)
          /\ initializationGeneration \in Nat /\ activeProcess \in Process \cup {None}
      BY <1>0 DEF ThreadTypes, SharedTypes
    <3>1. changed \in RestartRecord(initializationGeneration)
      BY <3>0 DEF RestartRecord, RestartState
    <3>2. /\ restart' = [restart EXCEPT ![r] = changed]
          /\ initializationGeneration' = initializationGeneration
      BY <1>0, <1>3 DEF StopActive, Generations, ThreadTypes
    <3>. HIDE DEF changed
    <3>. QED
      BY <1>0, <3>1, <3>2 DEF ThreadTypes
  <2>. QED
    BY <1>0, <1>3, <2>1 DEF StopActive, ThreadTypes, SharedTypes, Generations
<1>4. CASE TerminateTaken(r)
  <2>1. Typed
    <3>. DEFINE changed == [restart[r] EXCEPT !.at = "baseline", !.taken = None]
    <3>0. /\ restart[r] \in RestartRecord(initializationGeneration)
          /\ initializationGeneration \in Nat /\ activeProcess \in Process \cup {None}
      BY <1>0 DEF ThreadTypes, SharedTypes
    <3>1. changed \in RestartRecord(initializationGeneration)
      BY <3>0 DEF RestartRecord, RestartState
    <3>2. /\ restart' = [restart EXCEPT ![r] = changed]
          /\ initializationGeneration' = initializationGeneration
      BY <1>0, <1>4 DEF TerminateTaken, Generations, ThreadTypes
    <3>. HIDE DEF changed
    <3>. QED
      BY <1>0, <3>1, <3>2 DEF ThreadTypes
  <2>. QED
    BY <1>0, <1>4, <2>1, TerminatedType DEF TerminateTaken, ThreadTypes, SharedTypes, Generations
<1>5. CASE ReadBaseline(r)
  <2>1. Typed
    <3>. DEFINE moved == [restart[r] EXCEPT !.at = "start"]
                changed == [moved EXCEPT !.baseline = initializationGeneration]
    <3>0. /\ restart[r] \in RestartRecord(initializationGeneration)
          /\ initializationGeneration \in Nat
      BY <1>0 DEF ThreadTypes, SharedTypes
    <3>1. changed \in RestartRecord(initializationGeneration)
      <4>1. moved \in RestartRecord(initializationGeneration)
        BY <3>0 DEF RestartRecord, RestartState
      <4>. HIDE DEF moved
      <4>. QED
        BY <3>0, <4>1 DEF RestartRecord
    <3>2. /\ restart' = [restart EXCEPT ![r] = changed]
          /\ initializationGeneration' = initializationGeneration
      BY <1>0, <1>5 DEF ReadBaseline, Generations, ThreadTypes
    <3>. HIDE DEF changed
    <3>. QED
      BY <1>0, <3>1, <3>2 DEF ThreadTypes
  <2>. QED
    BY <1>0, <1>5, <2>1 DEF ReadBaseline, ThreadTypes, SharedTypes, Generations
<1>6. CASE RaiseStart(r)
  <2>1. Typed
    BY <1>0, <1>6, RestartMoves DEF RaiseStart, RestartState
  <2>. QED
    BY <1>0, <1>6, <2>1 DEF RaiseStart, ThreadTypes, SharedTypes, Generations
<1>7. CASE Poll(r)
  <2>1. Typed
    <3>. DEFINE moved == [restart[r] EXCEPT !.at = "compare"]
                changed == [moved EXCEPT !.observed = initializationGeneration]
    <3>0. /\ restart[r] \in RestartRecord(initializationGeneration)
          /\ initializationGeneration \in Nat
      BY <1>0 DEF ThreadTypes, SharedTypes
    <3>1. changed \in RestartRecord(initializationGeneration)
      <4>1. moved \in RestartRecord(initializationGeneration)
        BY <3>0 DEF RestartRecord, RestartState
      <4>. HIDE DEF moved
      <4>. QED
        BY <3>0, <4>1 DEF RestartRecord
    <3>2. /\ restart' = [restart EXCEPT ![r] = changed]
          /\ initializationGeneration' = initializationGeneration
      BY <1>0, <1>7 DEF Poll, Generations, ThreadTypes
    <3>. HIDE DEF changed
    <3>. QED
      BY <1>0, <3>1, <3>2 DEF ThreadTypes
  <2>. QED
    BY <1>0, <1>7, <2>1 DEF Poll, ThreadTypes, SharedTypes, Generations
<1>8. CASE Compare(r)
  <2>1. Typed
    BY <1>0, <1>8, RestartMoves DEF Compare, RestartState
  <2>. QED
    BY <1>0, <1>8, <2>1 DEF Compare, ThreadTypes, SharedTypes, Generations
<1>9. CASE GiveUp(r)
  <2>1. Typed
    <3>. DEFINE moved == [restart[r] EXCEPT !.at = "give up"]
                reset == [moved EXCEPT !.baseline = 0]
                changed == [reset EXCEPT !.observed = 0]
    <3>0. /\ restart[r] \in RestartRecord(initializationGeneration)
          /\ initializationGeneration \in Nat
      BY <1>0 DEF ThreadTypes, SharedTypes
    <3>1. changed \in RestartRecord(initializationGeneration)
      <4>1. moved \in RestartRecord(initializationGeneration)
        BY <3>0 DEF RestartRecord, RestartState
      <4>. HIDE DEF moved
      <4>2. reset \in RestartRecord(initializationGeneration)
        BY <3>0, <4>1 DEF RestartRecord
      <4>. HIDE DEF reset
      <4>. QED
        BY <3>0, <4>2 DEF RestartRecord
    <3>2. /\ restart' = [restart EXCEPT ![r] = changed]
          /\ initializationGeneration' = initializationGeneration
      BY <1>0, <1>9 DEF GiveUp, Generations, ThreadTypes
    <3>. HIDE DEF changed
    <3>. QED
      BY <1>0, <3>1, <3>2 DEF ThreadTypes
  <2>. QED
    BY <1>0, <1>9, <2>1 DEF GiveUp, ThreadTypes, SharedTypes, Generations
<1>10. CASE LeaveGate(r)
  <2>1. Typed
    <3>. DEFINE changed == [at |-> "done", taken |-> None, baseline |-> 0, observed |-> 0,
                         result |-> restart[r].at = "ready"]
    <3>0. /\ restart[r] \in RestartRecord(initializationGeneration)
          /\ initializationGeneration \in Nat /\ activeProcess \in Process \cup {None}
      BY <1>0 DEF ThreadTypes, SharedTypes
    <3>1. changed \in RestartRecord(initializationGeneration)
      <4>1. /\ "done" \in RestartState /\ 0 \in 0..initializationGeneration
            /\ (restart[r].at = "ready") \in BOOLEAN
        BY <3>0 DEF RestartState
      <4>. QED
        BY <4>1, Zenon DEF RestartRecord
    <3>2. /\ restart' = [restart EXCEPT ![r] = changed]
          /\ initializationGeneration' = initializationGeneration
      BY <1>0, <1>10 DEF LeaveGate, Generations, ThreadTypes
    <3>. HIDE DEF changed
    <3>. QED
      BY <1>0, <3>1, <3>2 DEF ThreadTypes
  <2>. QED
    BY <1>0, <1>10, <2>1, TerminatedType DEF LeaveGate, ThreadTypes, SharedTypes, Generations
<1>. QED
  BY <1>1, <1>2, <1>3, <1>4, <1>5, <1>6, <1>7, <1>8, <1>9, <1>10 DEF RestartStep

LEMMA StepTypes == TypeOK /\ [Next]_vars => TypeOK'
<1>. SUFFICES ASSUME TypeOK, [Next]_vars PROVE TypeOK'
  OBVIOUS
<1>1. CASE UNCHANGED vars
  BY <1>1 DEF vars, TypeOK
<1>. QED
  BY <1>1, ActivationTypes, CallbackTypes, RestartTypes DEF Next

-----------------------------------------------------------------------------
(* The gate.                                                               *)

\* The steps of the host and of the servers leave the restarts alone.
LEMMA HostLeavesRestarts ==
  ASSUME NEW p \in Process, ActivateStep(p) \/ Exit(p) \/ OnProcessExited(p) \/ CallbackStep(p)
  PROVE  restart' = restart /\ restartGate' = restartGate
BY DEF ActivateStep, Activate, TerminatePrevious, StartProcess, ReturnConnection,
       FailActivation, TerminateFailed, Exit, OnProcessExited, CallbackStep, Handshake,
       CountInitialization, WriteSuccess, StopAfterFailure, TerminateAfterFailure

\* Where each step of a restart leads.
LEMMA RestartSteps ==
  ASSUME TypeOK, NEW r \in Restarter, RequestRestart(r) \/ RestartStep(r)
  PROVE  /\ \A s \in Restarter \ {r} : restart'[s] = restart[s]
         /\ \/ restart[r].at = "idle" /\ restart'[r].at = "waiting" /\ restartGate' = restartGate
            \/ restart[r].at = "waiting" /\ restart'[r].at = "stop"
               /\ restartGate = None /\ restartGate' = r
            \/ /\ restart[r].at \notin {"idle", "waiting", "done"}
               /\ restart'[r].at \notin {"idle", "waiting", "done"}
               /\ restartGate' = restartGate
            \/ /\ restart[r].at \in {"ready", "abandon"} /\ restart'[r].at = "done"
               /\ restartGate' = None
<1>0. ThreadTypes /\ SharedTypes
  BY TypeParts
<1>1. CASE RequestRestart(r)
  BY <1>0, <1>1 DEF RequestRestart, RestartAt, ThreadTypes, RestartRecord, RestartState
<1>2. CASE EnterGate(r)
  BY <1>0, <1>2 DEF EnterGate, RestartAt, ThreadTypes, RestartRecord, RestartState
<1>3. CASE StopActive(r)
  BY <1>0, <1>3 DEF StopActive, RestartAt, ThreadTypes, RestartRecord, RestartState
<1>4. CASE TerminateTaken(r)
  BY <1>0, <1>4 DEF TerminateTaken, RestartAt, ThreadTypes, RestartRecord, RestartState
<1>5. CASE ReadBaseline(r)
  BY <1>0, <1>5 DEF ReadBaseline, RestartAt, ThreadTypes, RestartRecord, RestartState
<1>6. CASE RaiseStart(r)
  BY <1>0, <1>6 DEF RaiseStart, RestartAt, ThreadTypes, RestartRecord, RestartState
<1>7. CASE Poll(r)
  BY <1>0, <1>7 DEF Poll, RestartAt, ThreadTypes, RestartRecord, RestartState
<1>8. CASE Compare(r)
  BY <1>0, <1>8 DEF Compare, RestartAt, ThreadTypes, RestartRecord, RestartState
<1>9. CASE GiveUp(r)
  BY <1>0, <1>9 DEF GiveUp, RestartAt, ThreadTypes, RestartRecord, RestartState
<1>10. CASE LeaveGate(r)
  BY <1>0, <1>10 DEF LeaveGate, RestartAt, ThreadTypes, RestartRecord, RestartState
<1>. QED
  BY <1>1, <1>2, <1>3, <1>4, <1>5, <1>6, <1>7, <1>8, <1>9, <1>10 DEF RestartStep

LEMMA StepSerialized ==
  ASSUME TypeOK, Serialized, [Next]_vars
  PROVE  Serialized'
<1>1. CASE UNCHANGED vars
  BY <1>1 DEF vars, Serialized
<1>2. ASSUME NEW p \in Process, ActivateStep(p) \/ Exit(p) \/ OnProcessExited(p) \/ CallbackStep(p)
      PROVE  Serialized'
  BY <1>2, HostLeavesRestarts DEF Serialized
<1>3. ASSUME NEW r \in Restarter, RequestRestart(r) \/ RestartStep(r)
      PROVE  Serialized'
  BY <1>3, RestartSteps, ClientConstants DEF Serialized
<1>. QED
  BY <1>1, <1>2, <1>3 DEF Next

-----------------------------------------------------------------------------
(* What is recorded of the initializations.                                *)

\* The rest of the client leaves the generations and the callbacks alone.
LEMMA OthersLeaveGenerations ==
  /\ \A p \in Process : ActivateStep(p) \/ Exit(p) \/ OnProcessExited(p) =>
       UNCHANGED <<Generations, callback, restart>>
  /\ \A r \in Restarter : RequestRestart(r) \/ RestartStep(r) => UNCHANGED <<Generations, callback>>
<1>1. ASSUME NEW p \in Process, ActivateStep(p) \/ Exit(p) \/ OnProcessExited(p)
      PROVE  UNCHANGED <<Generations, callback, restart>>
  BY <1>1 DEF Generations, ActivateStep, Activate, TerminatePrevious, StartProcess,
       ReturnConnection, FailActivation, TerminateFailed, Exit, OnProcessExited
<1>2. ASSUME NEW r \in Restarter, RequestRestart(r) \/ RestartStep(r)
      PROVE  UNCHANGED <<Generations, callback>>
  BY <1>2 DEF Generations, RequestRestart, RestartStep, EnterGate, StopActive, TerminateTaken,
       ReadBaseline, RaiseStart, Poll, Compare, GiveUp, LeaveGate
<1>. QED
  BY <1>1, <1>2

\* What the verdict of a restart rests on.
LEMMA VerdictSteps ==
  ASSUME TypeOK, NEW r \in Restarter, RequestRestart(r) \/ RestartStep(r)
  PROVE  /\ restart'[r].at = "compare" => restart'[r].observed > restart'[r].baseline
         /\ restart'[r].at = "ready" =>
              /\ restart[r].at = "compare"
              /\ restart'[r].observed = restart[r].observed
              /\ restart'[r].baseline = restart[r].baseline
              /\ successfulInitializationGeneration = restart[r].observed
<1>0. ThreadTypes /\ SharedTypes
  BY TypeParts
<1>1. CASE RequestRestart(r)
  BY <1>0, <1>1 DEF RequestRestart, RestartAt, ThreadTypes, SharedTypes, RestartRecord, RestartState
<1>2. CASE EnterGate(r)
  BY <1>0, <1>2 DEF EnterGate, RestartAt, ThreadTypes, SharedTypes, RestartRecord, RestartState
<1>3. CASE StopActive(r)
  BY <1>0, <1>3 DEF StopActive, RestartAt, ThreadTypes, SharedTypes, RestartRecord, RestartState
<1>4. CASE TerminateTaken(r)
  BY <1>0, <1>4 DEF TerminateTaken, RestartAt, ThreadTypes, SharedTypes, RestartRecord, RestartState
<1>5. CASE ReadBaseline(r)
  BY <1>0, <1>5 DEF ReadBaseline, RestartAt, ThreadTypes, SharedTypes, RestartRecord, RestartState
<1>6. CASE RaiseStart(r)
  BY <1>0, <1>6 DEF RaiseStart, RestartAt, ThreadTypes, SharedTypes, RestartRecord, RestartState
<1>7. CASE Poll(r)
  BY <1>0, <1>7 DEF Poll, RestartAt, ThreadTypes, SharedTypes, RestartRecord, RestartState
<1>8. CASE Compare(r)
  BY <1>0, <1>8 DEF Compare, RestartAt, ThreadTypes, SharedTypes, RestartRecord, RestartState
<1>9. CASE GiveUp(r)
  BY <1>0, <1>9 DEF GiveUp, RestartAt, ThreadTypes, SharedTypes, RestartRecord, RestartState
<1>10. CASE LeaveGate(r)
  BY <1>0, <1>10 DEF LeaveGate, RestartAt, ThreadTypes, SharedTypes, RestartRecord, RestartState
<1>. QED
  BY <1>1, <1>2, <1>3, <1>4, <1>5, <1>6, <1>7, <1>8, <1>9, <1>10 DEF RestartStep

\* The callbacks: what was recorded stays recorded.
LEMMA CallbackRecords ==
  ASSUME TypeOK, SuccessRecorded, NEW p \in Process, CallbackStep(p)
  PROVE  /\ \A g \in 1..initializationGeneration : recorded'[g] = recorded[g]
         /\ successfulInitializationGeneration' > 0 =>
              recorded'[successfulInitializationGeneration']
         /\ \A q \in Process : callback'[q].at = "write" =>
              callback'[q].generation > 0 /\ recorded'[callback'[q].generation]
<1>0. ThreadTypes /\ SharedTypes
  BY TypeParts
<1>. DEFINE n == initializationGeneration
<1>1. CASE CountInitialization(p)
  <2>1. /\ n \in Nat /\ recorded' = Append(recorded, callback[p].at = "initialized")
        /\ recorded \in Seq(BOOLEAN) /\ Len(recorded) = n
    BY <1>0, <1>1 DEF CountInitialization, SharedTypes
  <2>2. \A g \in 1..n : recorded'[g] = recorded[g]
    BY <2>1
  <2>3. callback[p].at = "initialized" => recorded'[n + 1]
    <3>1. SUFFICES ASSUME callback[p].at = "initialized" PROVE recorded'[n + 1]
      OBVIOUS
    <3>2. recorded' = Append(recorded, TRUE)
      BY <1>1, <3>1 DEF CountInitialization
    <3>3. recorded'[n + 1] = TRUE
      <4>1. recorded \in Seq(BOOLEAN) /\ TRUE \in BOOLEAN
        BY <2>1
      <4>2. Append(recorded, TRUE)[Len(recorded) + 1] = TRUE
        BY <4>1, AppendProperties, Zenon
      <4>3. Len(recorded) + 1 = n + 1
        BY <2>1
      <4>. QED
        BY <3>2, <4>2, <4>3, Zenon
    <3>. QED
      BY <3>3, Zenon
  <2>4. \A q \in Process \ {p} : callback'[q] = callback[q]
    BY <1>0, <1>1 DEF CountInitialization, ThreadTypes
  <2>5. callback'[p].generation = n + 1
        /\ callback'[p].at = IF callback[p].at = "initialized" THEN "write" ELSE "stop"
    BY <1>0, <1>1 DEF CountInitialization, AfterIncrement, ThreadTypes, CallbackRecord
  <2>6. \A q \in Process : callback[q].generation \in 0..n
    BY <1>0 DEF ThreadTypes, CallbackRecord
  <2>7. /\ successfulInitializationGeneration' = successfulInitializationGeneration
        /\ successfulInitializationGeneration \in 0..n
    BY <1>0, <1>1 DEF CountInitialization, SharedTypes
  <2>8. ASSUME NEW q \in Process, callback'[q].at = "write"
        PROVE  callback'[q].generation > 0 /\ recorded'[callback'[q].generation]
    <3>1. CASE q = p
      <4>1. callback[p].at = "initialized"
        BY <2>5, <2>8, <3>1
      <4>. QED
        BY <2>1, <2>3, <2>5, <3>1, <4>1
    <3>2. CASE q # p
      BY <2>1, <2>2, <2>4, <2>6, <2>8, <3>2 DEF SuccessRecorded
    <3>. QED
      BY <3>1, <3>2
  <2>9. ASSUME successfulInitializationGeneration > 0
        PROVE  recorded'[successfulInitializationGeneration]
    <3>1. successfulInitializationGeneration \in 1..n
      BY <2>1, <2>7, <2>9
    <3>. QED
      BY <2>2, <2>9, <3>1 DEF SuccessRecorded
  <2>. QED
    BY <2>2, <2>7, <2>8, <2>9
<1>2. CASE WriteSuccess(p)
  BY <1>0, <1>2 DEF WriteSuccess, SuccessRecorded, ThreadTypes
<1>3. ASSUME NEW succeeded \in BOOLEAN, Handshake(p, succeeded)
      PROVE  /\ UNCHANGED Generations
             /\ \A q \in Process : callback'[q].at = "write" => callback'[q] = callback[q]
  BY <1>0, <1>3 DEF Handshake, ThreadTypes, CallbackRecord
<1>4. CASE StopAfterFailure(p)
  <2>1. \A q \in Process : callback'[q].at = "write" => callback'[q] = callback[q]
    BY <1>0, <1>4 DEF StopAfterFailure, ThreadTypes, CallbackRecord
  <2>. QED
    BY <1>4, <2>1 DEF StopAfterFailure, SuccessRecorded, Generations
<1>5. CASE TerminateAfterFailure(p)
  <2>1. \A q \in Process : callback'[q].at = "write" => callback'[q] = callback[q]
    BY <1>0, <1>5 DEF TerminateAfterFailure, ThreadTypes, CallbackRecord
  <2>. QED
    BY <1>5, <2>1 DEF TerminateAfterFailure, SuccessRecorded, Generations
<1>. QED
  BY <1>1, <1>2, <1>3, <1>4, <1>5 DEF CallbackStep, SuccessRecorded, Generations

LEMMA StepRecorded ==
  ASSUME TypeOK, SuccessRecorded, ReadyIsTrue, [Next]_vars
  PROVE  SuccessRecorded' /\ ReadyIsTrue'
<1>0. ThreadTypes /\ SharedTypes
  BY TypeParts
<1>1. CASE UNCHANGED vars
  BY <1>1 DEF vars, SuccessRecorded, ReadyIsTrue
<1>2. ASSUME NEW p \in Process, ActivateStep(p) \/ Exit(p) \/ OnProcessExited(p)
      PROVE  SuccessRecorded' /\ ReadyIsTrue'
  BY <1>2, OthersLeaveGenerations DEF SuccessRecorded, ReadyIsTrue, Generations
<1>3. ASSUME NEW p \in Process, CallbackStep(p)
      PROVE  SuccessRecorded' /\ ReadyIsTrue'
  <2>1. restart' = restart
    BY <1>3, HostLeavesRestarts
  <2>2. SuccessRecorded'
    BY <1>3, <2>1, CallbackRecords DEF SuccessRecorded
  <2>3. ASSUME NEW r \in Restarter, restart[r].at = "ready"
        PROVE  recorded'[restart[r].observed]
    <3>1. restart[r].observed \in 1..initializationGeneration
      BY <1>0, <2>3 DEF ReadyIsTrue, ThreadTypes, SharedTypes, RestartRecord
    <3>. QED
      BY <1>3, <2>3, <3>1, CallbackRecords DEF ReadyIsTrue
  <2>. QED
    BY <2>1, <2>2, <2>3 DEF ReadyIsTrue
<1>4. ASSUME NEW r \in Restarter, RequestRestart(r) \/ RestartStep(r)
      PROVE  SuccessRecorded' /\ ReadyIsTrue'
  <2>1. UNCHANGED <<Generations, callback>>
    BY <1>4, OthersLeaveGenerations
  <2>2. \A s \in Restarter \ {r} : restart'[s] = restart[s]
    BY <1>4, RestartSteps
  <2>3. SuccessRecorded'
    BY <1>4, <2>1, <2>2, VerdictSteps DEF SuccessRecorded, Generations
  <2>4. ASSUME restart'[r].at = "ready"
        PROVE  restart'[r].observed > restart'[r].baseline /\ recorded'[restart'[r].observed]
    <3>1. /\ restart[r].at = "compare" /\ restart'[r].observed = restart[r].observed
          /\ restart'[r].baseline = restart[r].baseline
          /\ successfulInitializationGeneration = restart[r].observed
      BY <1>4, <2>4, VerdictSteps
    <3>2. restart[r].observed > restart[r].baseline /\ restart[r].baseline \in Nat
          /\ restart[r].observed \in Nat
      BY <1>0, <3>1 DEF SuccessRecorded, ThreadTypes, SharedTypes, RestartRecord
    <3>. QED
      BY <2>1, <3>1, <3>2 DEF SuccessRecorded, Generations
  <2>. QED
    BY <2>1, <2>2, <2>3, <2>4 DEF ReadyIsTrue, Generations
<1>. QED
  BY <1>1, <1>2, <1>3, <1>4 DEF Next

-----------------------------------------------------------------------------
(* The duty to terminate.                                                  *)

\* Who is named by the pointer, or by a thread that took it from there.
Named(p) ==
  \/ activeProcess = p
  \/ \E q \in Process : activation[q].previous = p \/ callback[q].taken = p
  \/ \E r \in Restarter : restart[r].taken = p

\* What a step does to the pointer and to the duties, for every process: a
\* duty comes from the pointer or from the process's own failed activation,
\* the pointer moves to a process just activated only, and a process that is
\* running is not let go of.
HandsOver(p) ==
  /\ Doomed(p)' => \/ Doomed(p)
                   \/ activeProcess = p /\ activeProcess' # p
                   \/ activation[p].at # "idle" /\ activeProcess' # p
  /\ activeProcess' = p => activeProcess = p \/ activation[p].at = "idle"
  /\ process[p] = "alive" /\ WithinReach(p) => WithinReach(p)' \/ process'[p] = "dead"
  /\ activation'[p].at = "idle" => activation[p].at = "idle"
  /\ Named(p)' => Named(p) \/ activation'[p].at # "idle"

LEMMA NoneIsNoProcess == None \notin Process
<1>1. Process \subseteq Nat /\ None \notin Nat
  BY ClientConstants DEF Process
<1>. QED
  BY <1>1

LEMMA ActivationHandsOver ==
  ASSUME TypeOK, OnlyActivated, NEW p \in Process,
         ActivateStep(p) \/ Exit(p) \/ OnProcessExited(p), NEW q \in Process
  PROVE  HandsOver(q)
<1>0. ThreadTypes /\ SharedTypes /\ callback' = callback /\ restart' = restart
  BY TypeParts, OthersLeaveGenerations
<1>1. CASE Activate(p)
  <2>1. /\ \A s \in Process \ {p} : /\ activation'[s].at = activation[s].at
                                    /\ activation'[s].previous = activation[s].previous
        /\ activation'[p].at = "registered" /\ activation'[p].previous = activeProcess
        /\ activation[p].at = "idle" /\ activeProcess' = p /\ process' = process
    BY <1>0, <1>1, NoneIsNoProcess
       DEF Activate, ThreadTypes, SharedTypes, ActivationRecord
  <2>2. Doomed(q)' => \/ Doomed(q)
                      \/ activeProcess = q /\ activeProcess' # q
                      \/ activation[q].at # "idle" /\ activeProcess' # q
    <3>1. activeProcess # p
      BY <2>1 DEF OnlyActivated
    <3>2. ASSUME NEW s \in Process, activation'[s].at = "registered", activation'[s].previous = q
          PROVE  Doomed(q) \/ (activeProcess = q /\ activeProcess' # q)
      <4>1. CASE s = p
        BY <2>1, <3>1, <3>2, <4>1
      <4>2. CASE s # p
        BY <2>1, <3>2, <4>2 DEF Doomed
      <4>. QED
        BY <4>1, <4>2
    <3>3. activation'[q].at = "failing" => Doomed(q)
      BY <2>1 DEF Doomed
    <3>. QED
      BY <1>0, <3>2, <3>3 DEF Doomed
  <2>3. activeProcess' = q => activeProcess = q \/ activation[q].at = "idle"
    BY <1>0, <2>1, NoneIsNoProcess
  <2>4. process[q] = "alive" /\ activeProcess = q => WithinReach(q)' \/ process'[q] = "dead"
    BY <1>0, <2>1, NoneIsNoProcess DEF WithinReach, Doomed
  <2>5. process[q] = "alive" /\ Doomed(q) => WithinReach(q)' \/ process'[q] = "dead"
    BY <1>0, <2>1, NoneIsNoProcess DEF WithinReach, Doomed
  <2>6. activation'[q].at = "idle" => activation[q].at = "idle"
    BY <1>0, <2>1, NoneIsNoProcess
  <2>7. Named(q)' => Named(q) \/ activation'[q].at # "idle"
    BY <1>0, <2>1, NoneIsNoProcess DEF Named
  <2>. QED
    BY <2>2, <2>3, <2>4, <2>5, <2>6, <2>7 DEF HandsOver, WithinReach
<1>2. CASE TerminatePrevious(p)
  <2>1. /\ \A s \in Process \ {p} : /\ activation'[s].at = activation[s].at
                                    /\ activation'[s].previous = activation[s].previous
        /\ activation[p].at = "registered" /\ activation'[p].at = "ready" /\ activation'[p].previous = None
        /\ activeProcess' = activeProcess
        /\ \A s \in Process : process'[s] = IF s = activation[p].previous /\ process[s] = "alive"
                                          THEN "dead" ELSE process[s]
    BY <1>0, <1>2, TerminatedType, NoneIsNoProcess
       DEF TerminatePrevious, ThreadTypes, SharedTypes, ActivationRecord
  <2>. QED
    BY <1>0, <2>1, NoneIsNoProcess DEF HandsOver, Named, WithinReach, Doomed, SharedTypes
<1>3. CASE StartProcess(p)
  <2>1. /\ \A s \in Process \ {p} : /\ activation'[s].at = activation[s].at
                                    /\ activation'[s].previous = activation[s].previous
        /\ activation[p].at = "ready" /\ activation'[p].at = "started"
        /\ activation'[p].previous = activation[p].previous /\ activeProcess' = activeProcess
        /\ \A s \in Process : process[s] = "alive" => process'[s] = "alive"
    BY <1>0, <1>3, ActivationMoves, NoneIsNoProcess
       DEF StartProcess, ThreadTypes, SharedTypes, ActivationRecord, ActivationState
  <2>. QED
    BY <1>0, <2>1, NoneIsNoProcess DEF HandsOver, Named, WithinReach, Doomed, SharedTypes
<1>4. CASE ReturnConnection(p)
  <2>1. /\ \A s \in Process \ {p} : /\ activation'[s].at = activation[s].at
                                    /\ activation'[s].previous = activation[s].previous
        /\ activation[p].at = "started" /\ activation'[p].at = "connected"
        /\ activation'[p].previous = activation[p].previous /\ activeProcess' = activeProcess
        /\ process' = process
    BY <1>0, <1>4, ActivationMoves, NoneIsNoProcess
       DEF ReturnConnection, ThreadTypes, SharedTypes, ActivationRecord, ActivationState
  <2>. QED
    BY <1>0, <2>1, NoneIsNoProcess DEF HandsOver, Named, WithinReach, Doomed, SharedTypes
<1>5. CASE FailActivation(p)
  <2>1. /\ \A s \in Process \ {p} : /\ activation'[s].at = activation[s].at
                                    /\ activation'[s].previous = activation[s].previous
        /\ activation[p].at \in {"ready", "started"} /\ activation'[p].at = "failing"
        /\ activation'[p].previous = activation[p].previous /\ process' = process
        /\ activeProcess' = IF activeProcess = p THEN None ELSE activeProcess
    BY <1>0, <1>5, ActivationMoves, NoneIsNoProcess
       DEF FailActivation, ThreadTypes, SharedTypes, ActivationRecord, ActivationState, Cleared
  <2>. QED
    BY <1>0, <2>1, NoneIsNoProcess DEF HandsOver, Named, WithinReach, Doomed, SharedTypes
<1>6. CASE TerminateFailed(p)
  <2>1. /\ \A s \in Process \ {p} : /\ activation'[s].at = activation[s].at
                                    /\ activation'[s].previous = activation[s].previous
        /\ activation[p].at = "failing" /\ activation'[p].at = "failed"
        /\ activation'[p].previous = activation[p].previous /\ activeProcess' = activeProcess
        /\ \A s \in Process : process'[s] = IF s = p /\ process[s] = "alive"
                                          THEN "dead" ELSE process[s]
    BY <1>0, <1>6, TerminatedType, ActivationMoves, NoneIsNoProcess
       DEF TerminateFailed, ThreadTypes, SharedTypes, ActivationRecord, ActivationState
  <2>. QED
    BY <1>0, <2>1, NoneIsNoProcess DEF HandsOver, Named, WithinReach, Doomed, SharedTypes
<1>7. CASE Exit(p)
  <2>1. /\ activation' = activation /\ activeProcess' = activeProcess
        /\ \A s \in Process : process'[s] = process[s] \/ process'[s] = "dead"
    BY <1>0, <1>7 DEF Exit, SharedTypes
  <2>. QED
    BY <1>0, <2>1 DEF HandsOver, Named, WithinReach, Doomed
<1>8. CASE OnProcessExited(p)
  <2>1. /\ activation' = activation /\ process' = process /\ process[p] = "dead"
        /\ activeProcess' = IF activeProcess = p THEN None ELSE activeProcess
    BY <1>0, <1>8 DEF OnProcessExited, Cleared
  <2>. QED
    BY <1>0, <2>1, NoneIsNoProcess DEF HandsOver, Named, WithinReach, Doomed
<1>. QED
  BY <1>1, <1>2, <1>3, <1>4, <1>5, <1>6, <1>7, <1>8 DEF ActivateStep

LEMMA CallbackHandsOver ==
  ASSUME TypeOK, NEW p \in Process, CallbackStep(p), NEW q \in Process
  PROVE  HandsOver(q)
<1>0. ThreadTypes /\ SharedTypes /\ restart' = restart
  BY TypeParts, HostLeavesRestarts
<1>. DEFINE OthersStay == \A s \in Process \ {p} : callback'[s] = callback[s]
<1>1. ASSUME Handshake(p, TRUE) \/ Handshake(p, FALSE) \/ CountInitialization(p) \/ WriteSuccess(p)
      PROVE  /\ OthersStay /\ activation' = activation /\ activeProcess' = activeProcess
             /\ process' = process /\ callback[p].at # "terminate" /\ callback'[p].at # "terminate"
             /\ callback'[p].taken \in {callback[p].taken, None}
  BY <1>0, <1>1 DEF Handshake, CountInitialization, AfterIncrement, WriteSuccess, ThreadTypes,
                    CallbackRecord
<1>2. CASE Handshake(p, TRUE) \/ Handshake(p, FALSE) \/ CountInitialization(p) \/ WriteSuccess(p)
  BY <1>0, <1>1, <1>2, NoneIsNoProcess DEF HandsOver, Named, WithinReach, Doomed
<1>3. CASE StopAfterFailure(p)
  <2>1. /\ OthersStay /\ activation' = activation /\ activeProcess' = None /\ process' = process
        /\ callback[p].at = "stop" /\ callback'[p].at = "terminate"
        /\ callback'[p].taken = activeProcess
    BY <1>0, <1>3 DEF StopAfterFailure, ThreadTypes, CallbackRecord
  <2>. QED
    BY <1>0, <2>1, NoneIsNoProcess DEF HandsOver, Named, WithinReach, Doomed
<1>4. CASE TerminateAfterFailure(p)
  <2>1. /\ OthersStay /\ activation' = activation /\ activeProcess' = activeProcess
        /\ callback[p].at = "terminate" /\ callback'[p].at = "done" /\ callback'[p].taken = None
        /\ \A s \in Process : process'[s] = IF s = callback[p].taken /\ process[s] = "alive"
                                            THEN "dead" ELSE process[s]
    BY <1>0, <1>4, TerminatedType, NoneIsNoProcess
       DEF TerminateAfterFailure, ThreadTypes, CallbackRecord
  <2>. QED
    BY <1>0, <2>1, NoneIsNoProcess DEF HandsOver, Named, WithinReach, Doomed
<1>. QED
  BY <1>2, <1>3, <1>4 DEF CallbackStep

LEMMA RestartHandsOver ==
  ASSUME TypeOK, NEW r \in Restarter, RequestRestart(r) \/ RestartStep(r), NEW q \in Process
  PROVE  HandsOver(q)
<1>0. ThreadTypes /\ SharedTypes /\ callback' = callback
      /\ \A s \in Restarter \ {r} : restart'[s] = restart[s]
  BY TypeParts, OthersLeaveGenerations, RestartSteps
<1>1. ASSUME \/ RequestRestart(r) \/ EnterGate(r) \/ ReadBaseline(r) \/ RaiseStart(r)
             \/ Poll(r) \/ Compare(r) \/ GiveUp(r)
      PROVE  /\ activation' = activation /\ activeProcess' = activeProcess /\ process' = process
             /\ restart[r].at \notin {"terminate", "abandon"}
             /\ restart'[r].at \notin {"terminate", "abandon"}
             /\ restart'[r].taken = restart[r].taken
  <2>1. CASE RequestRestart(r)
    BY <1>0, <2>1 DEF RequestRestart, RestartAt, ThreadTypes, RestartRecord
  <2>2. CASE EnterGate(r)
    BY <1>0, <2>2 DEF EnterGate, RestartAt, ThreadTypes, RestartRecord
  <2>3. CASE ReadBaseline(r)
    BY <1>0, <2>3 DEF ReadBaseline, RestartAt, ThreadTypes, RestartRecord
  <2>4. CASE RaiseStart(r)
    BY <1>0, <2>4 DEF RaiseStart, RestartAt, ThreadTypes, RestartRecord
  <2>5. CASE Poll(r)
    BY <1>0, <2>5 DEF Poll, RestartAt, ThreadTypes, RestartRecord
  <2>6. CASE Compare(r)
    BY <1>0, <2>6 DEF Compare, RestartAt, ThreadTypes, RestartRecord
  <2>7. CASE GiveUp(r)
    <3>1. restart[r] \in RestartRecord(initializationGeneration)
      BY <1>0 DEF ThreadTypes
    <3>2. restart'[r] = [restart[r] EXCEPT !.at = "give up", !.baseline = 0, !.observed = 0]
      BY <1>0, <2>7 DEF GiveUp, ThreadTypes
    <3>3. restart'[r].at = "give up" /\ restart'[r].taken = restart[r].taken
      BY <3>1, <3>2 DEF RestartRecord
    <3>. QED
      BY <2>7, <3>3 DEF GiveUp
  <2>. QED
    BY <1>1, <2>1, <2>2, <2>3, <2>4, <2>5, <2>6, <2>7
<1>2. CASE \/ RequestRestart(r) \/ EnterGate(r) \/ ReadBaseline(r) \/ RaiseStart(r)
           \/ Poll(r) \/ Compare(r) \/ GiveUp(r)
  BY <1>0, <1>1, <1>2 DEF HandsOver, Named, WithinReach, Doomed
<1>3. CASE StopActive(r)
  <2>1. /\ activation' = activation /\ activeProcess' = None /\ process' = process
        /\ restart[r].at \in {"stop", "give up"} /\ restart'[r].at \in {"terminate", "abandon"}
        /\ restart'[r].taken = activeProcess
    <3>1. restart[r] \in RestartRecord(initializationGeneration)
      BY <1>0 DEF ThreadTypes
    <3>. DEFINE at == IF restart[r].at = "stop" THEN "terminate" ELSE "abandon"
    <3>2. restart'[r] = [restart[r] EXCEPT !.at = at, !.taken = activeProcess]
      BY <1>0, <1>3 DEF StopActive, ThreadTypes
    <3>3. at \in {"terminate", "abandon"}
      OBVIOUS
    <3>. HIDE DEF at
    <3>4. restart'[r].at = at /\ restart'[r].taken = activeProcess
      BY <3>1, <3>2 DEF RestartRecord
    <3>. QED
      BY <1>3, <3>3, <3>4 DEF StopActive
  <2>. QED
    BY <1>0, <2>1, NoneIsNoProcess DEF HandsOver, Named, WithinReach, Doomed
<1>4. ASSUME TerminateTaken(r) \/ LeaveGate(r)
      PROVE  /\ activation' = activation /\ activeProcess' = activeProcess
             /\ restart[r].at \in {"terminate", "abandon", "ready"}
             /\ restart'[r].at \in {"baseline", "done"} /\ restart'[r].taken = None
             /\ \A s \in Process :
                  process'[s] = IF /\ restart[r].at \in {"terminate", "abandon"}
                                   /\ s = restart[r].taken /\ process[s] = "alive"
                                THEN "dead" ELSE process[s]
  <2>1. CASE TerminateTaken(r)
    BY <1>0, <2>1, TerminatedType, NoneIsNoProcess
       DEF TerminateTaken, ThreadTypes, RestartRecord
  <2>2. CASE LeaveGate(r)
    BY <1>0, <2>2, TerminatedType, NoneIsNoProcess
       DEF LeaveGate, ThreadTypes, RestartRecord
  <2>. QED
    BY <1>4, <2>1, <2>2
<1>5. CASE TerminateTaken(r) \/ LeaveGate(r)
  BY <1>0, <1>4, <1>5, NoneIsNoProcess DEF HandsOver, Named, WithinReach, Doomed
<1>. QED
  BY <1>2, <1>3, <1>5 DEF RestartStep

LEMMA StepHandsOver ==
  ASSUME TypeOK, OnlyActivated, [Next]_vars, NEW q \in Process
  PROVE  HandsOver(q)
<1>1. CASE UNCHANGED vars
  BY <1>1 DEF vars, HandsOver, Named, WithinReach, Doomed
<1>. QED
  BY <1>1, ActivationHandsOver, CallbackHandsOver, RestartHandsOver DEF Next

LEMMA StepOwned ==
  ASSUME TypeOK, OnlyActivated, ActiveIsNotDoomed, [Next]_vars
  PROVE  OnlyActivated' /\ ActiveIsNotDoomed'
<1>1. ASSUME NEW p \in Process, Named(p)'
      PROVE  activation'[p].at # "idle"
  BY <1>1, StepHandsOver DEF HandsOver, OnlyActivated, Named
<1>2. OnlyActivated'
  BY <1>1 DEF OnlyActivated, Named
<1>3. ASSUME NEW p \in Process, activeProcess' = p, Doomed(p)'
      PROVE  FALSE
  <2>1. HandsOver(p)
    BY StepHandsOver
  <2>2. CASE activeProcess = p
    BY <1>3, <2>1, <2>2 DEF HandsOver, ActiveIsNotDoomed
  <2>3. CASE activation[p].at = "idle"
    <3>1. ~Doomed(p)
      BY <2>3 DEF OnlyActivated, Doomed
    <3>. QED
      BY <1>3, <2>1, <2>3, <3>1 DEF HandsOver
  <2>. QED
    BY <1>3, <2>1, <2>2, <2>3 DEF HandsOver
<1>. QED
  BY <1>2, <1>3 DEF ActiveIsNotDoomed

-----------------------------------------------------------------------------
(* The theorems.                                                           *)

LEMMA InitInv == Init => ClientInv
<1>. SUFFICES ASSUME Init PROVE ClientInv
  OBVIOUS
<1>1. TypeOK
  BY InitTypes
<1>2. Serialized /\ SuccessRecorded /\ ReadyIsTrue
  BY ClientConstants DEF Init, Serialized, SuccessRecorded, ReadyIsTrue
<1>3. OnlyActivated /\ ActiveIsNotDoomed
  BY ClientConstants DEF Init, OnlyActivated, ActiveIsNotDoomed, Process
<1>. QED
  BY <1>1, <1>2, <1>3 DEF ClientInv

LEMMA StepInv == ClientInv /\ [Next]_vars => ClientInv'
BY StepTypes, StepSerialized, StepRecorded, StepOwned DEF ClientInv

LEMMA AlwaysInv == Spec => []ClientInv
<1>. QED
  BY InitInv, StepInv, PTL DEF Spec

(* The client, its threads and what was recorded keep their shape; no      *)
(* generation in use is above the counter.                                 *)
THEOREM ClientTypes == Spec => []TypeOK
<1>. QED
  BY AlwaysInv, PTL DEF ClientInv

(* A restart concludes "ready" only from an initialization that succeeded  *)
(* after its baseline, in spite of the two-step writes and reads.          *)
THEOREM ReadyMeansReady == Spec => []ReadyIsTrue
<1>. QED
  BY AlwaysInv, PTL DEF ClientInv

(* Inside restartGate there is one restart at a time, from stopping the    *)
(* old server to the verdict.                                              *)
THEOREM OneRestart == Spec => []Serialized
<1>. QED
  BY AlwaysInv, PTL DEF ClientInv

(* The pointer and the duty to terminate change hands together: nobody is  *)
(* about to terminate the active process.                                  *)
THEOREM ActiveSpared == Spec => []ActiveIsNotDoomed
<1>. QED
  BY AlwaysInv, PTL DEF ClientInv

(* A running server that is the active one, or about to be terminated,     *)
(* stays so until it is dead.                                              *)
THEOREM StaysWithinReach == Spec => NeverDropped
<1>1. ClientInv /\ [Next]_vars =>
        [ \A p \in Process :
            process[p] = "alive" /\ WithinReach(p) => WithinReach(p)' \/ process'[p] = "dead" ]_vars
  BY StepHandsOver DEF ClientInv, HandsOver
<1>. QED
  BY <1>1, AlwaysInv, PTL DEF Spec, NeverDropped

=============================================================================
