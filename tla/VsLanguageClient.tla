-------------------------- MODULE VsLanguageClient --------------------------
(***************************************************************************)
(* ApexForgeLanguageClient.cs of the Visual Studio extension: which server *)
(* process is the active one, and how a restart finds out whether the      *)
(* replacement came up.  Three kinds of threads share the client:          *)
(*   - ActivateAsync, called by the host once per StartAsync event; the    *)
(*     call is named by the process it creates;                            *)
(*   - the callbacks OnServerInitializedAsync and                          *)
(*     OnServerInitializeFailedAsync, which the host makes when the        *)
(*     handshake with an activated server has ended;                       *)
(*   - RestartAsync, run by the restart command.                           *)
(* What a thread does under processGate, each Interlocked or Volatile      *)
(* access and each call that starts or kills a process is one step.        *)
(* The host is external: it may be slow, and a server may exit any time.   *)
(***************************************************************************)
EXTENDS Integers, Sequences

CONSTANTS
  Restarter,  \* the executions of the restart command
  MaxProcess, \* bound: processes ever created
  None, Load  \* Load: the host's own request when the client is loaded

ASSUME ClientConstants ==
  /\ MaxProcess \in Nat
  /\ None \notin Restarter \cup Nat \cup BOOLEAN /\ Load \notin Restarter

Process == 1..MaxProcess

VARIABLES
  activeProcess,
  initializationGeneration, successfulInitializationGeneration,
  restartGate,  \* who is inside the semaphore, or None
  starts,       \* StartAsync events the host has not served, by who raised them
  process,      \* each process: "new", "alive" or "dead"
  activation,   \* each process: its ActivateAsync call
  callback,     \* each process: the host's callback about its handshake
  restart,      \* each restarter: RestartAsync
  recorded      \* history: the outcome each generation was recorded for

vars == <<activeProcess, initializationGeneration, successfulInitializationGeneration,
          restartGate, starts, process, activation, callback, restart, recorded>>

Init ==
  /\ activeProcess = None
  /\ initializationGeneration = 0 /\ successfulInitializationGeneration = 0
  /\ restartGate = None
  /\ starts = <<Load>>
  /\ process = [p \in Process |-> "new"]
  /\ activation = [p \in Process |-> [at |-> "idle", by |-> None, previous |-> None]]
  /\ callback = [p \in Process |-> [at |-> "idle", generation |-> 0, taken |-> None]]
  /\ restart = [r \in Restarter |-> [at |-> "idle", taken |-> None, baseline |-> 0,
                                     observed |-> 0, result |-> None]]
  /\ recorded = <<>>

-----------------------------------------------------------------------------
(* Helpers.                                                                *)

\* TryTerminate: a process that has not been started yet raises
\* InvalidOperationException at HasExited, which is caught.
Terminated(p) ==
  IF p # None /\ process[p] = "alive" THEN [process EXCEPT ![p] = "dead"] ELSE process

\* Faulty variant of Cleared: without the comparison.
ClearedAlways(p) == None

\* ClearActiveProcess.
Cleared(p) == IF activeProcess = p THEN None ELSE activeProcess

ActivationAt(p, at) == activation' = [activation EXCEPT ![p].at = at]
RestartAt(r, at)    == restart' = [restart EXCEPT ![r].at = at]

Generations == <<initializationGeneration, successfulInitializationGeneration, recorded>>

-----------------------------------------------------------------------------
(* ActivateAsync.                                                          *)

\* The host serves a StartAsync event: under the lock the new process becomes
\* the active one.
Activate(p) ==
  /\ starts # <<>>
  /\ activation[p].at = "idle" /\ \A q \in 1..p - 1 : activation[q].at # "idle"
  /\ activation' = [activation EXCEPT ![p] =
                      [at |-> "registered", by |-> Head(starts), previous |-> activeProcess]]
  /\ activeProcess' = p
  /\ starts' = Tail(starts)
  /\ UNCHANGED <<restartGate, process, callback, restart>> /\ UNCHANGED Generations

TerminatePrevious(p) ==
  /\ activation[p].at = "registered"
  /\ process' = Terminated(activation[p].previous)
  /\ activation' = [activation EXCEPT ![p].at = "ready", ![p].previous = None]
  /\ UNCHANGED <<activeProcess, restartGate, starts, callback, restart>>
  /\ UNCHANGED Generations

StartProcess(p) ==
  /\ activation[p].at = "ready"
  /\ process' = [process EXCEPT ![p] = "alive"]
  /\ ActivationAt(p, "started")
  /\ UNCHANGED <<activeProcess, restartGate, starts, callback, restart>>
  /\ UNCHANGED Generations

\* process.Start fails, or the token is cancelled after it: the catch clause
\* clears the pointer, then terminates the process.
FailActivation(p) ==
  /\ activation[p].at \in {"ready", "started"}
  /\ activeProcess' = Cleared(p)
  /\ ActivationAt(p, "failing")
  /\ UNCHANGED <<restartGate, starts, process, callback, restart>>
  /\ UNCHANGED Generations

TerminateFailed(p) ==
  /\ activation[p].at = "failing"
  /\ process' = Terminated(p)
  /\ ActivationAt(p, "failed")
  /\ UNCHANGED <<activeProcess, restartGate, starts, callback, restart>>
  /\ UNCHANGED Generations

ReturnConnection(p) ==
  /\ activation[p].at = "started"
  /\ ActivationAt(p, "connected")
  /\ UNCHANGED <<activeProcess, restartGate, starts, process, callback, restart>>
  /\ UNCHANGED Generations

\* A server exits by itself, for instance because the host has sent exit.
Exit(p) ==
  /\ process[p] = "alive"
  /\ process' = [process EXCEPT ![p] = "dead"]
  /\ UNCHANGED <<activeProcess, restartGate, starts, activation, callback, restart>>
  /\ UNCHANGED Generations

\* The Exited event.  Handling it twice would change nothing: a process that
\* is not the active one any more never becomes it again.
OnProcessExited(p) ==
  /\ process[p] = "dead"
  /\ activeProcess' = Cleared(p)
  /\ UNCHANGED <<restartGate, starts, process, activation, callback, restart>>
  /\ UNCHANGED Generations

-----------------------------------------------------------------------------
(* The callbacks about the handshake.                                      *)

\* The host ends the handshake: it can only have succeeded with a live server.
Handshake(p, succeeded) ==
  /\ activation[p].at \in {"connected", "failed"} /\ callback[p].at = "idle"
  /\ succeeded => activation[p].at = "connected" /\ process[p] = "alive"
  /\ callback' = [callback EXCEPT ![p].at = IF succeeded THEN "initialized" ELSE "failed"]
  /\ UNCHANGED <<activeProcess, restartGate, starts, process, activation, restart>>
  /\ UNCHANGED Generations

\* Faulty variant of AfterIncrement: the flag is not looked at.
AlwaysWrite(at) == "write"

AfterIncrement(at) == IF at = "initialized" THEN "write" ELSE "stop"

\* RecordServerInitialization, first half: Interlocked.Increment.
CountInitialization(p) ==
  /\ callback[p].at \in {"initialized", "failed"}
  /\ initializationGeneration' = initializationGeneration + 1
  /\ recorded' = Append(recorded, callback[p].at = "initialized")
  /\ callback' = [callback EXCEPT ![p].at = AfterIncrement(@),
                                  ![p].generation = initializationGeneration + 1]
  /\ UNCHANGED <<activeProcess, successfulInitializationGeneration, restartGate, starts,
                 process, activation, restart>>

\* Faulty variant of WriteSuccess: it counts once more.
WriteNext(p) ==
  /\ callback[p].at = "write"
  /\ successfulInitializationGeneration' = callback[p].generation + 1
  /\ callback' = [callback EXCEPT ![p] = [at |-> "done", generation |-> 0, taken |-> None]]
  /\ UNCHANGED <<activeProcess, initializationGeneration, restartGate, starts, process,
                 activation, restart, recorded>>

\* RecordServerInitialization, second half: Volatile.Write.
WriteSuccess(p) ==
  /\ callback[p].at = "write"
  /\ successfulInitializationGeneration' = callback[p].generation
  /\ callback' = [callback EXCEPT ![p] = [at |-> "done", generation |-> 0, taken |-> None]]
  /\ UNCHANGED <<activeProcess, initializationGeneration, restartGate, starts, process,
                 activation, restart, recorded>>

\* StopActiveProcess after a failure: whichever process is active is taken.
StopAfterFailure(p) ==
  /\ callback[p].at = "stop"
  /\ callback' = [callback EXCEPT ![p].at = "terminate", ![p].taken = activeProcess]
  /\ activeProcess' = None
  /\ UNCHANGED <<restartGate, starts, process, activation, restart>>
  /\ UNCHANGED Generations

TerminateAfterFailure(p) ==
  /\ callback[p].at = "terminate"
  /\ process' = Terminated(callback[p].taken)
  /\ callback' = [callback EXCEPT ![p] = [at |-> "done", generation |-> 0, taken |-> None]]
  /\ UNCHANGED <<activeProcess, restartGate, starts, activation, restart>>
  /\ UNCHANGED Generations

-----------------------------------------------------------------------------
(* RestartAsync.                                                           *)

RequestRestart(r) ==
  /\ restart[r].at = "idle"
  /\ RestartAt(r, "waiting")
  /\ UNCHANGED <<activeProcess, restartGate, starts, process, activation, callback>>
  /\ UNCHANGED Generations

\* The gate is entered and the host's StopAsync handler awaited.
EnterGate(r) ==
  /\ restart[r].at = "waiting" /\ restartGate = None
  /\ restartGate' = r
  /\ RestartAt(r, "stop")
  /\ UNCHANGED <<activeProcess, starts, process, activation, callback>>
  /\ UNCHANGED Generations

\* StopActiveProcess, under the lock.
StopActive(r) ==
  /\ restart[r].at \in {"stop", "give up"}
  /\ restart' = [restart EXCEPT ![r].at = IF @ = "stop" THEN "terminate" ELSE "abandon",
                                ![r].taken = activeProcess]
  /\ activeProcess' = None
  /\ UNCHANGED <<restartGate, starts, process, activation, callback>>
  /\ UNCHANGED Generations

TerminateTaken(r) ==
  /\ restart[r].at = "terminate"
  /\ process' = Terminated(restart[r].taken)
  /\ restart' = [restart EXCEPT ![r].at = "baseline", ![r].taken = None]
  /\ UNCHANGED <<activeProcess, restartGate, starts, activation, callback>>
  /\ UNCHANGED Generations

ReadBaseline(r) ==
  /\ restart[r].at = "baseline"
  /\ restart' = [restart EXCEPT ![r].at = "start", ![r].baseline = initializationGeneration]
  /\ UNCHANGED <<activeProcess, restartGate, starts, process, activation, callback>>
  /\ UNCHANGED Generations

\* The StartAsync event is raised.
RaiseStart(r) ==
  /\ restart[r].at = "start"
  /\ starts' = Append(starts, r)
  /\ RestartAt(r, "poll")
  /\ UNCHANGED <<activeProcess, restartGate, process, activation, callback>>
  /\ UNCHANGED Generations

\* WaitForServerInitializationAsync: the generation is read first ...
Poll(r) ==
  /\ restart[r].at = "poll" /\ initializationGeneration > restart[r].baseline
  /\ restart' = [restart EXCEPT ![r].at = "compare", ![r].observed = initializationGeneration]
  /\ UNCHANGED <<activeProcess, restartGate, starts, process, activation, callback>>
  /\ UNCHANGED Generations

\* ... and the successful one afterwards.
Compare(r) ==
  /\ restart[r].at = "compare"
  /\ RestartAt(r, IF successfulInitializationGeneration = restart[r].observed
                  THEN "ready" ELSE "not ready")
  /\ UNCHANGED <<activeProcess, restartGate, starts, process, activation, callback>>
  /\ UNCHANGED Generations

\* The host's StopAsync or StartAsync handler throws, RestartInitializationTimeout
\* elapses, or the comparison failed.
GiveUp(r) ==
  /\ restart[r].at \in {"stop", "poll", "not ready"}
  /\ restart' = [restart EXCEPT ![r].at = "give up", ![r].baseline = 0, ![r].observed = 0]
  /\ UNCHANGED <<activeProcess, restartGate, starts, process, activation, callback>>
  /\ UNCHANGED Generations

\* Faulty variant of LeaveGate: the gate is released on success only.
LeaveGateWhenReady(r) ==
  /\ restart[r].at \in {"ready", "abandon"}
  /\ process' = IF restart[r].at = "abandon" THEN Terminated(restart[r].taken) ELSE process
  /\ restart' = [restart EXCEPT ![r] = [at |-> "done", taken |-> None, baseline |-> 0,
                                        observed |-> 0, result |-> restart[r].at = "ready"]]
  /\ restartGate' = IF restart[r].at = "ready" THEN None ELSE restartGate
  /\ UNCHANGED <<activeProcess, starts, activation, callback>>
  /\ UNCHANGED Generations

\* After the resynchronization delay, or after terminating what was active;
\* the finally clause releases the gate.
LeaveGate(r) ==
  /\ restart[r].at \in {"ready", "abandon"}
  /\ process' = IF restart[r].at = "abandon" THEN Terminated(restart[r].taken) ELSE process
  /\ restart' = [restart EXCEPT ![r] = [at |-> "done", taken |-> None, baseline |-> 0,
                                        observed |-> 0, result |-> restart[r].at = "ready"]]
  /\ restartGate' = None
  /\ UNCHANGED <<activeProcess, starts, activation, callback>>
  /\ UNCHANGED Generations

-----------------------------------------------------------------------------

ActivateStep(p) ==
  \/ Activate(p) \/ TerminatePrevious(p) \/ StartProcess(p) \/ ReturnConnection(p)
  \/ FailActivation(p) \/ TerminateFailed(p)

CallbackStep(p) ==
  \/ Handshake(p, TRUE) \/ Handshake(p, FALSE)
  \/ CountInitialization(p) \/ WriteSuccess(p) \/ StopAfterFailure(p) \/ TerminateAfterFailure(p)

RestartStep(r) ==
  \/ EnterGate(r) \/ StopActive(r) \/ TerminateTaken(r) \/ ReadBaseline(r) \/ RaiseStart(r)
  \/ Poll(r) \/ Compare(r) \/ GiveUp(r) \/ LeaveGate(r)

Next ==
  \/ \E p \in Process : ActivateStep(p) \/ Exit(p) \/ OnProcessExited(p) \/ CallbackStep(p)
  \/ \E r \in Restarter : RequestRestart(r) \/ RestartStep(r)

Spec == Init /\ [][Next]_vars

\* A restart that has been requested is run by the thread pool, the handlers
\* it awaits return, and its timeout elapses.  Nothing is assumed of the host's
\* activations and callbacks.
FairSpec == Spec /\ \A r \in Restarter : WF_vars(RestartStep(r))

-----------------------------------------------------------------------------
(* Properties.                                                             *)

ActivationState == {"idle", "registered", "ready", "started", "connected", "failing", "failed"}
CallbackState == {"idle", "initialized", "failed", "write", "stop", "terminate", "done"}
RestartState == {"idle", "waiting", "stop", "terminate", "baseline", "start", "poll",
                 "compare", "ready", "not ready", "give up", "abandon", "done"}

TypeOK ==
  /\ activeProcess \in Process \cup {None}
  /\ initializationGeneration \in Nat
  /\ successfulInitializationGeneration \in 0..initializationGeneration
  /\ restartGate \in Restarter \cup {None}
  /\ starts \in Seq(Restarter \cup {Load})
  /\ process \in [Process -> {"new", "alive", "dead"}]
  /\ activation \in [Process -> [at : ActivationState, by : Restarter \cup {Load, None},
                                 previous : Process \cup {None}]]
  /\ callback \in [Process -> [at : CallbackState, generation : 0..initializationGeneration,
                               taken : Process \cup {None}]]
  /\ restart \in [Restarter -> [at : RestartState, taken : Process \cup {None},
                                baseline : 0..initializationGeneration,
                                observed : 0..initializationGeneration,
                                result : BOOLEAN \cup {None}]]
  /\ recorded \in Seq(BOOLEAN) /\ Len(recorded) = initializationGeneration

\* Some thread has taken p from activeProcess and has yet to terminate it.
Doomed(p) ==
  \/ \E q \in Process : activation[q].at = "registered" /\ activation[q].previous = p
  \/ activation[p].at = "failing"
  \/ \E q \in Process : callback[q].at = "terminate" /\ callback[q].taken = p
  \/ \E r \in Restarter : restart[r].at \in {"terminate", "abandon"} /\ restart[r].taken = p

(* A server that runs stays within reach, whatever the other threads do    *)
(* meanwhile: it is the active process, or the thread that took it from    *)
(* there is about to terminate it, until it is dead.  The code loses only  *)
(* a process that was taken before it was started, which TryTerminate      *)
(* cannot stop: such a one is out of reach from its start.                 *)
WithinReach(p) == activeProcess = p \/ Doomed(p)

NeverDropped ==
  [][ \A p \in Process :
        process[p] = "alive" /\ WithinReach(p) => WithinReach(p)' \/ process'[p] = "dead" ]_vars

(* No thread is about to terminate the process that is still, or again,    *)
(* the active one: the pointer and the duty to terminate change hands      *)
(* together, whichever of the three kinds of threads does it.              *)
ActiveIsNotDoomed == \A p \in Process : activeProcess = p => ~Doomed(p)

(* A restart concludes "ready" only from an initialization that succeeded  *)
(* after it stopped the old server, although generation and success are    *)
(* written, and read, in two steps by different threads.                   *)
ReadyIsTrue ==
  \A r \in Restarter :
    restart[r].at = "ready" => restart[r].observed > restart[r].baseline /\ recorded[restart[r].observed]

(* One restart at a time: from stopping the old server to the verdict on   *)
(* the new one nobody else is inside, and every requested restart ends,    *)
(* also when the host never serves its StartAsync event.                   *)
Serialized ==
  \A r \in Restarter :
    restart[r].at \notin {"idle", "waiting", "done"} <=> restartGate = r

RestartsEnd == \A r \in Restarter : restart[r].at = "waiting" ~> restart[r].at = "done"

(* "previous_process_terminated_before_restart": there are never two       *)
(* servers running at once.                                                *)
OneServer == \A p, q \in Process : process[p] = "alive" /\ process[q] = "alive" => p = q

(* "A restart is not reported as successful until OnServerInitializedAsync *)
(* confirms the replacement server completed initialization."              *)
ReplacementConfirmed ==
  \A r \in Restarter :
    restart[r].result = TRUE
      => \E p \in Process : activation[p].by = r /\ callback[p].at \in {"write", "done"}

(* "did not reach initialized state within 15 seconds" is said of servers  *)
(* that did not: a verdict other than the timeout's agrees with what was   *)
(* recorded for the generation it looked at.                               *)
NotReadyIsTrue ==
  \A r \in Restarter : restart[r].at = "not ready" => ~recorded[restart[r].observed]

=============================================================================
