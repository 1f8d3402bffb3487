--------------------------- MODULE ServerProcess ---------------------------
(***************************************************************************)
(* What LspProcessClient (lsp-client.js) promises to the extension about   *)
(* one server process, whatever the server does: start and stop settle,    *)
(* a started client has a process, and stop returns only once the process  *)
(* is gone.                                                                *)
(***************************************************************************)
VARIABLES
  start,  \* the promise of start(): "idle", "pending", "ok" or "failed"
  stop,   \* the promise of stop(): "idle", "pending" or "done"
  up,     \* the client reports the state running
  alive   \* the process lives

contract == <<start, stop, up, alive>>

Init == start = "idle" /\ stop = "idle" /\ up = FALSE /\ alive = FALSE

\* A process that cannot be spawned never lives.
Begin ==
  /\ start # "pending" /\ ~alive /\ ~up
  /\ start' = "pending" /\ stop' = "idle" /\ up' = FALSE
  /\ alive' \in BOOLEAN

Succeed == start = "pending" /\ start' = "ok" /\ up' = TRUE /\ UNCHANGED <<stop, alive>>

Fail == start = "pending" /\ start' = "failed" /\ UNCHANGED <<stop, up, alive>>

\* The process exits, for one reason or another; the client notices later, when
\* its output closes.
Exit == alive /\ alive' = FALSE /\ UNCHANGED <<start, stop, up>>
Down == up /\ ~alive /\ up' = FALSE /\ UNCHANGED <<start, stop, alive>>

Stop ==
  /\ stop # "pending" /\ stop' = "pending"
  /\ up' = FALSE /\ UNCHANGED <<start, alive>>

Return ==
  /\ stop = "pending" /\ stop' = "done"
  /\ ~alive /\ UNCHANGED <<start, up, alive>>

\* stop() without a process has nothing to wait for.
StopNothing ==
  /\ stop # "pending" /\ ~alive /\ ~up
  /\ stop' = "done" /\ UNCHANGED <<start, up, alive>>

Next == Begin \/ Succeed \/ Fail \/ Exit \/ Down \/ Stop \/ Return \/ StopNothing

\* A process whose start failed, or that is to stop, does not stay.
Leave == (start = "failed" \/ stop = "pending") /\ Exit

Spec == Init /\ [][Next]_contract
             /\ WF_contract(Succeed \/ Fail) /\ WF_contract(Leave) /\ WF_contract(Return)

=============================================================================
