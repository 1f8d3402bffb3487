----------------------------- MODULE LspClient -----------------------------
(***************************************************************************)
(* LspProcessClient of lsp-client.js: the table of pending requests, the   *)
(* handshake, cancellation, timeouts and the shutdown of one language      *)
(* server process.                                                         *)
(*                                                                         *)
(* JavaScript runs one task at a time.  An event (output of the process,   *)
(* its end, a timer, a cancellation by the editor) is handled only when no *)
(* continuation of an awaiting function is ready; ready continuations run  *)
(* in the order in which they became ready.  start, stop and sendRequest   *)
(* may be called by other tasks at any time.  The server is external: it   *)
(* may answer, refuse, hang, write garbage or die.                         *)
(***************************************************************************)
EXTENDS Naturals, Sequences

CONSTANTS
  MaxId,       \* bound: requests ever sent
  MaxRequest   \* bound: ids up to this one may be requests of a provider

ASSUME LspClientBounds == MaxId \in Nat /\ MaxRequest \in Nat

Id == 1..MaxId
Method  == {"initialize", "shutdown", "query"}
Outcome == {"unsent", "pending", "ok", "error", "timedOut", "cancelled", "lost"}

VARIABLES
  state, child, stopRequested, nextRequestId, pending,
  closed,       \* whether closePromise is resolved
  starting,     \* the id of the initialize request start() awaits, or 0
  stopping,     \* where _stopCore is: "idle", "shutdown", "closing" or "killing"
  shutdown,     \* the id of the shutdown request it awaits
  ready,        \* the continuations ready to run: "start", "stop"
  request,      \* each request: its method and how its promise was settled
  timers,       \* the requests whose timer runs
  tokens,       \* the requests that listen to the editor's cancellation token
  told,         \* history: how often the server was told to cancel a request
  process,      \* "none", "unspawned", "alive", "dying" (signalled) or "dead"
  toServer, toClient,
  started       \* the last start(): "idle", "pending", "ok" or "failed"

client == <<state, child, stopRequested, nextRequestId, pending, closed, starting,
            stopping, shutdown, ready, request, timers, tokens, told, started>>
server == <<process, toServer, toClient>>
vars   == <<client, server>>

Init ==
  /\ state = "stopped" /\ child = FALSE /\ stopRequested = FALSE
  /\ nextRequestId = 1 /\ pending = {} /\ closed = FALSE
  /\ starting = 0 /\ stopping = "idle" /\ shutdown = 0 /\ ready = <<>>
  /\ request = [i \in Id |-> [method |-> "query", outcome |-> "unsent"]]
  /\ timers = {} /\ tokens = {} /\ told = [i \in Id |-> 0]
  /\ process = "none" /\ toServer = <<>> /\ toClient = <<>> /\ started = "idle"

Idle == ready = <<>>

-----------------------------------------------------------------------------
(* Promises and the request table.                                         *)

\* Promises are settled as outcome[i] says; one that is settled stays so.
Resolved(ids, outcome) ==
  request' = [i \in Id |-> IF i \in ids /\ request[i].outcome = "pending"
                              THEN [method |-> request[i].method, outcome |-> outcome[i]]
                              ELSE request[i]]

\* _cleanupPending.
Cleaned(ids) == timers' = timers \ ids /\ tokens' = tokens \ ids

\* The requests of the set ids leave the table and are settled.
Settled(ids, outcome) ==
  Resolved(ids, outcome) /\ pending' = pending \ ids /\ Cleaned(ids)

\* The continuations that await one of the requests ids.  The table is settled
\* in the order of its insertion and the server answers in order, and stop()
\* asks for the shutdown after start() has sent its initialize request.
Woken(ids) ==
  (IF starting \in ids THEN <<"start">> ELSE <<>>) \o
  (IF stopping = "shutdown" /\ shutdown \in ids THEN <<"stop">> ELSE <<>>)

\* Faulty variant of RejectPending: the table is cleared, nobody is told.
ForgetPending(outcome) ==
  /\ pending' = {} /\ request' = request /\ Cleaned(pending)

\* _rejectPending.
RejectPending(outcome) == Settled(pending, [i \in pending |-> outcome])

\* What the server is sent: nothing arrives at a process that has ended.
Sent(message) ==
  IF process \in {"alive", "dying"} THEN Append(toServer, message) ELSE toServer

\* _write throws without a child, and may throw once its stdin is destroyed.
MayWrite  == child
MustWrite == child /\ process \in {"alive", "dying"}

\* sendRequest with a child: either it is in the table and written, or the
\* write fails and its promise is rejected at once.  A provider passes the
\* token of the editor.
RequestSent(method) ==
  LET id == nextRequestId IN
    /\ nextRequestId <= MaxId
    /\ nextRequestId' = id + 1
    /\ request' = [request EXCEPT ![id] = [method |-> method, outcome |-> "pending"]]
    /\ pending' = pending \cup {id}
    /\ timers' = timers \cup {id}
    /\ tokens' = IF method = "query" THEN tokens \cup {id} ELSE tokens
    /\ toServer' = Sent([kind |-> method, id |-> id])
RequestFailed(method) ==
  /\ nextRequestId <= MaxId
  /\ ~MustWrite
  /\ nextRequestId' = nextRequestId + 1
  /\ request' = [request EXCEPT ![nextRequestId] = [method |-> method, outcome |-> "error"]]
  /\ UNCHANGED <<pending, timers, tokens, toServer>>

-----------------------------------------------------------------------------
(* Calls.                                                                  *)

\* start: refused unless stopped.  A process that cannot be spawned reports
\* its error later.
Start ==
  /\ Idle /\ state = "stopped"
  /\ process' \in {"alive", "unspawned"}
  /\ toServer' = IF process' = "alive"
                   THEN <<[kind |-> "initialize", id |-> nextRequestId]>> ELSE <<>>
  /\ toClient' = <<>>
  /\ nextRequestId <= MaxId
  /\ nextRequestId' = nextRequestId + 1
  /\ request' = [request EXCEPT ![nextRequestId] =
                   [method |-> "initialize", outcome |-> "pending"]]
  /\ pending' = pending \cup {nextRequestId} /\ timers' = timers \cup {nextRequestId}
  /\ starting' = nextRequestId
  /\ state' = "starting" /\ child' = TRUE /\ closed' = FALSE /\ stopRequested' = FALSE
  /\ started' = "pending"
  /\ UNCHANGED <<stopping, shutdown, ready, tokens, told>>

\* sendRequest of a provider.  Without a child it is rejected with no effect.
Query ==
  /\ child /\ nextRequestId <= MaxRequest
  /\ RequestSent("query") \/ RequestFailed("query")
  /\ UNCHANGED <<state, child, stopRequested, closed, starting, stopping, shutdown,
                 ready, told, process, toClient, started>>

\* stop: a second call joins the first.  _stopCore up to its first await.
Stop ==
  /\ stopping = "idle"
  /\ stopRequested' = TRUE
  /\ IF child
       THEN /\ state' = "stopping"
            /\ stopping' = "shutdown" /\ shutdown' = nextRequestId
            /\ \/ RequestSent("shutdown") /\ UNCHANGED ready
               \/ RequestFailed("shutdown") /\ ready' = Append(ready, "stop")
       ELSE /\ state' = "stopped"
            /\ UNCHANGED <<stopping, shutdown, nextRequestId, request, pending, timers,
                           tokens, toServer, ready>>
  /\ UNCHANGED <<child, closed, starting, told, process, toClient, started>>

-----------------------------------------------------------------------------
(* Continuations.                                                          *)

Killed == IF process = "alive" THEN "dying" ELSE process

\* start after its initialize request: the initialized notification may fail.
ContinueStart ==
  /\ ready # <<>> /\ Head(ready) = "start" /\ ready' = Tail(ready)
  /\ starting' = 0
  /\ \/ /\ request[starting].outcome = "ok" /\ MayWrite
        /\ toServer' = Sent([kind |-> "initialized", id |-> 0])
        /\ state' = "running" /\ started' = "ok"
        /\ UNCHANGED process
     \/ /\ request[starting].outcome # "ok" \/ ~MustWrite
        /\ state' = "failed" /\ started' = "failed"
        /\ process' = IF child THEN Killed ELSE process
        /\ UNCHANGED toServer
  /\ UNCHANGED <<child, stopRequested, nextRequestId, pending, closed, stopping,
                 shutdown, request, timers, tokens, told, toClient>>

\* _stopCore after the shutdown request, whatever came of it, and at the end
\* of its race when the process has closed.
ContinueStop ==
  /\ ready # <<>> /\ Head(ready) = "stop" /\ ready' = Tail(ready)
  /\ IF stopping = "shutdown"
       THEN /\ toServer' = IF child THEN Sent([kind |-> "exit", id |-> 0]) ELSE toServer
            /\ stopping' = IF closed THEN "idle" ELSE "closing"
       ELSE stopping' = "idle" /\ UNCHANGED toServer
  /\ UNCHANGED <<state, child, stopRequested, nextRequestId, pending, closed, starting,
                 shutdown, request, timers, tokens, told, process, toClient, started>>

-----------------------------------------------------------------------------
(* Events.                                                                 *)

\* The server is told to cancel a request, if its pipe is still open.
CancelSent(i) ==
  /\ toServer' = Sent([kind |-> "cancel", id |-> i])
  /\ told' = IF process \in {"alive", "dying"} THEN [told EXCEPT ![i] = @ + 1] ELSE told

\* Faulty variant of CancelPending: the entry, and the handle that did not
\* fire, are left until the server answers.
CancelUntilAnswered(i, outcome) ==
  /\ Idle /\ i \in pending
  /\ Resolved({i}, [j \in {i} |-> outcome])
  /\ timers' = IF outcome = "timedOut" THEN timers \ {i} ELSE timers
  /\ tokens' = IF outcome = "cancelled" THEN tokens \ {i} ELSE tokens
  /\ pending' = pending
  /\ ready' = Woken({i})
  /\ CancelSent(i)
  /\ UNCHANGED <<state, child, stopRequested, nextRequestId, closed, starting, stopping,
                 shutdown, process, toClient, started>>

\* _cancelPending, by the timer of a request or the token of the editor.
\* Without an entry it has no effect; with one there is a child.
CancelPending(i, outcome) ==
  /\ Idle /\ i \in pending
  /\ Settled({i}, [j \in {i} |-> outcome])
  /\ ready' = Woken({i})
  /\ CancelSent(i)
  /\ UNCHANGED <<state, child, stopRequested, nextRequestId, closed, starting, stopping,
                 shutdown, process, toClient, started>>

Timeout(i) == i \in timers /\ CancelPending(i, "timedOut")
Cancel(i)  == i \in tokens /\ CancelPending(i, "cancelled")

\* The messages of a chunk that are handled.  It is decoded first, so that
\* none is when one of them cannot be; one that is decoded but does not say
\* that it is JSON-RPC 2.0 only ends the loop.
Handled(chunk, decoded) ==
  {k \in DOMAIN chunk : \A j \in DOMAIN chunk : chunk[j].kind = "garbage" => decoded /\ k < j}

\* Output of the process: a chunk holds one or more messages.  _handleMessage
\* ignores the answer to a request that is no longer pending.  Garbage rejects
\* whatever is still pending, and the process is killed.
Data ==
  /\ Idle
  /\ \E n \in 1..Len(toClient), decoded \in BOOLEAN :
       LET chunk    == SubSeq(toClient, 1, n)
           answered == {i \in pending : \E k \in Handled(chunk, decoded) : chunk[k].id = i}
           AnswerTo(i) == chunk[CHOOSE k \in Handled(chunk, decoded) : chunk[k].id = i].kind
           broken   == \E k \in 1..n : chunk[k].kind = "garbage"
           settled  == IF broken THEN pending ELSE answered
       IN /\ toClient' = SubSeq(toClient, n + 1, Len(toClient))
          /\ Settled(settled, [i \in settled |-> IF i \in answered THEN AnswerTo(i) ELSE "lost"])
          /\ ready' = Woken(settled)
          /\ process' = IF broken THEN Killed ELSE process
  /\ UNCHANGED <<state, child, stopRequested, nextRequestId, closed, starting, stopping,
                 shutdown, told, toServer, started>>

\* Whoever awaits closePromise when it is resolved; it is resolved once.
CloseWakes == IF ~closed /\ stopping \in {"closing", "killing"} THEN <<"stop">> ELSE <<>>

\* The error event of a process that could not be spawned.
SpawnError ==
  /\ Idle /\ process = "unspawned" /\ process' = "dead"
  /\ RejectPending("lost")
  /\ ready' = Woken(pending) \o CloseWakes
  /\ state' = "failed" /\ closed' = TRUE
  /\ UNCHANGED <<child, stopRequested, nextRequestId, starting, stopping, shutdown, told,
                 toServer, toClient, started>>

\* The close event comes when the process has ended and its output is read.
Close ==
  /\ Idle /\ process = "dead" /\ toClient = <<>> /\ process' = "none"
  /\ RejectPending("lost")
  /\ ready' = Woken(pending) \o CloseWakes
  /\ child' = FALSE /\ state' = "stopped" /\ closed' = TRUE
  /\ UNCHANGED <<stopRequested, nextRequestId, starting, stopping, shutdown, told,
                 toServer, toClient, started>>

\* Faulty variant of StopTimeout: the process is not killed.
StopTimeoutOnly ==
  /\ Idle /\ stopping = "closing"
  /\ IF child THEN stopping' = "killing" ELSE stopping' = "idle"
  /\ UNCHANGED <<state, child, stopRequested, nextRequestId, pending, closed, starting,
                 shutdown, ready, request, timers, tokens, told, process, toServer, toClient, started>>

\* Faulty variant of StopTimeout: it does not wait for the close.
StopTimeoutLeaves ==
  /\ Idle /\ stopping = "closing" /\ stopping' = "idle"
  /\ process' = IF child THEN Killed ELSE process
  /\ UNCHANGED <<state, child, stopRequested, nextRequestId, pending, closed, starting,
                 shutdown, ready, request, timers, tokens, told, toServer, toClient, started>>

\* The timer of the race in _stopCore; the continuation that follows at once
\* kills the child and waits for its close.
StopTimeout ==
  /\ Idle /\ stopping = "closing"
  /\ IF child THEN stopping' = "killing" /\ process' = Killed
              ELSE stopping' = "idle" /\ UNCHANGED process
  /\ UNCHANGED <<state, child, stopRequested, nextRequestId, pending, closed, starting,
                 shutdown, ready, request, timers, tokens, told, toServer, toClient, started>>

-----------------------------------------------------------------------------
(* The server.                                                             *)

\* It takes a message and answers a request, with a result or an error.
Serve ==
  /\ process \in {"alive", "dying"} /\ toServer # <<>>
  /\ toServer' = Tail(toServer)
  /\ LET m == Head(toServer) IN
       IF m.kind \in Method
         THEN \E answer \in {"ok", "error"} :
                toClient' = Append(toClient, [kind |-> answer, id |-> m.id])
         ELSE UNCHANGED toClient
  /\ UNCHANGED <<client, process>>

\* It writes what is no message.  Bound: one at a time.
Corrupt ==
  /\ process \in {"alive", "dying"} /\ \A k \in DOMAIN toClient : toClient[k].kind # "garbage"
  /\ toClient' = Append(toClient, [kind |-> "garbage", id |-> 0])
  /\ UNCHANGED <<client, process, toServer>>

\* It ends: asked to, killed, or by a crash.
Exit ==
  /\ process \in {"alive", "dying"} /\ process' = "dead"
  /\ toServer' = <<>>
  /\ UNCHANGED <<client, toClient>>

-----------------------------------------------------------------------------

Next ==
  \/ Start \/ Query \/ Stop
  \/ ContinueStart \/ ContinueStop
  \/ \E i \in Id : Timeout(i) \/ Cancel(i)
  \/ Data \/ SpawnError \/ Close \/ StopTimeout
  \/ Serve \/ Corrupt \/ Exit

\* Continuations run and timers fire; a killed process ends, and its end is
\* noticed.  Nothing is assumed of a server that is not killed.
Fairness ==
  /\ WF_vars(ContinueStart \/ ContinueStop)
  /\ \A i \in Id : WF_vars(Timeout(i))
  /\ WF_vars(Data) /\ WF_vars(SpawnError) /\ WF_vars(Close) /\ WF_vars(StopTimeout)
  /\ WF_vars(process = "dying" /\ Exit)

Spec == Init /\ [][Next]_vars /\ Fairness

-----------------------------------------------------------------------------
(* Properties.                                                             *)

TypeOK ==
  /\ state \in {"stopped", "starting", "running", "stopping", "failed"}
  /\ child \in BOOLEAN /\ stopRequested \in BOOLEAN /\ closed \in BOOLEAN
  /\ nextRequestId \in 1..MaxId + 1 /\ pending \subseteq Id
  /\ starting \in 0..MaxId /\ shutdown \in 0..MaxId
  /\ stopping \in {"idle", "shutdown", "closing", "killing"}
  /\ ready \in {<<>>, <<"start">>, <<"stop">>, <<"start", "stop">>}
  /\ request \in [Id -> [method : Method, outcome : Outcome]]
  /\ timers \subseteq Id /\ tokens \subseteq Id /\ told \in [Id -> Nat]
  /\ process \in {"none", "unspawned", "alive", "dying", "dead"}
  /\ started \in {"idle", "pending", "ok", "failed"}

\* No promise is lost: the requests whose promise is open are exactly those in
\* the table, where the next answer, timer, cancellation or the end of the
\* process finds them.
NoPromiseLost == \A i \in Id : request[i].outcome = "pending" <=> i \in pending

\* A request is given up once and leaves nothing behind: when its entry is
\* gone, however it went, neither its timer nor its subscription to the
\* editor's token is left to fire, and the server is told to cancel it at most
\* once, and never when the caller was given another outcome.
GivenUpOnce ==
  \A i \in Id :
    /\ i \notin pending => i \notin timers \cup tokens
    /\ told[i] \in {0, 1}
    /\ told[i] = 1 => request[i].outcome \in {"timedOut", "cancelled"}

\* What the providers check before they send: a client that reports running
\* has its process attached, even when stop and start overlap.
RunningHasChild == state = "running" => child

\* The calls of start() and stop() end, and so do the requests of providers,
\* although the server may hang for ever.
CallsEnd ==
  /\ started = "pending" ~> started # "pending"
  /\ stopping # "idle" ~> stopping = "idle"
  /\ \A i \in 1..MaxRequest : request[i].outcome = "pending" ~> request[i].outcome # "pending"

\* lsp-client.js keeps the contract the extension relies on.
Contract == INSTANCE ServerProcess WITH
  start <- started,
  stop  <- IF stopping # "idle" THEN "pending" ELSE IF stopRequested THEN "done" ELSE "idle",
  up    <- state = "running",
  alive <- process \in {"alive", "dying"}
KeepsContract == Contract!Spec

=============================================================================
