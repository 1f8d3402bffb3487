-------------------------- MODULE LspClientProofs --------------------------
(***************************************************************************)
(* Proofs about LspClient, for every number of requests: no promise is     *)
(* lost, no request is given up twice or leaves a timer or subscription    *)
(* behind, and every step of the class is a step of the contract           *)
(* ServerProcess, or none.                                                 *)
(***************************************************************************)
EXTENDS LspClient, SequenceTheorems, TLAPS

-----------------------------------------------------------------------------
(* The inductive invariant.                                                *)

\* A request that was never sent has no promise.
UnsentAbove == \A i \in Id : i >= nextRequestId => request[i].outcome = "unsent"

\* What is in the pipes.
ToServer == [kind : Method \cup {"initialized", "exit", "cancel"}, id : 0..MaxId]
ToClient == [kind : {"ok", "error", "garbage"}, id : 0..MaxId]
Messages == toServer \in Seq(ToServer) /\ toClient \in Seq(ToClient)

StartReady == ready \in {<<"start">>, <<"start", "stop">>}
StopReady  == ready \in {<<"stop">>, <<"start", "stop">>}

\* A call of start() waits for the answer to its initialize request or its
\* continuation is ready, and one of stop() waits for the answer to its
\* shutdown request or for the close.
Waits ==
  /\ starting < nextRequestId /\ shutdown < nextRequestId
  /\ started = "pending" <=> starting # 0
  /\ StartReady <=> starting # 0 /\ starting \notin pending
  /\ StopReady <=> \/ stopping = "shutdown" /\ shutdown \notin pending
                   \/ stopping \in {"closing", "killing"} /\ closed

\* How the state of the client, its calls and the process go together.
Phases ==
  /\ ~child => process = "none" /\ pending = {}
  /\ state = "stopped" => ~child
  /\ RunningHasChild
  /\ started = "pending" => state # "running"
  /\ stopping # "idle" => stopRequested
  /\ stopping # "idle" /\ ~child => closed
  /\ closed => process \in {"none", "dead"}

ClientInv ==
  TypeOK /\ NoPromiseLost /\ GivenUpOnce /\ UnsentAbove /\ Messages /\ Waits /\ Phases

-----------------------------------------------------------------------------
(* The queue of continuations.                                             *)

Queues == {<<>>, <<"start">>, <<"stop">>, <<"start", "stop">>}

LEMMA Concatenation ==
  /\ <<"start">> \o <<"stop">> = <<"start", "stop">>
  /\ Append(<<"start">>, "stop") = <<"start", "stop">>
  /\ Append(<<>>, "stop") = <<"stop">>
  /\ <<>> \o <<>> = <<>>
  /\ <<"start">> \o <<>> = <<"start">>
  /\ <<"stop">> \o <<>> = <<"stop">>
  /\ <<"start", "stop">> \o <<>> = <<"start", "stop">>
  /\ <<>> \o <<"stop">> = <<"stop">>
<1> DEFINE S == {"start", "stop"}
           s == <<"start">>
           t == <<"stop">>
           u == <<"start", "stop">>
<1>1. s \in Seq(S) /\ t \in Seq(S) OBVIOUS
<1>2. u \in Seq(S) OBVIOUS
<1>3. /\ Len(s) = 1 /\ Len(t) = 1 /\ Len(u) = 2
      /\ s[1] = "start" /\ t[1] = "stop" /\ u[1] = "start" /\ u[2] = "stop"
  OBVIOUS
<1>4. "stop" \in S OBVIOUS
<1>5. Append(<<>>, "stop") = <<"stop">> OBVIOUS
<1> HIDE DEF s, t, u, S
<1>6. s \o t \in Seq(S) /\ Len(s \o t) = 2 /\ (s \o t)[1] = "start" /\ (s \o t)[2] = "stop"
  BY <1>1, <1>3, ConcatProperties
<1>7. s \o t = u BY <1>1, <1>2, <1>3, <1>6, SeqEqual
<1>8. Append(s, "stop") = s \o t BY <1>1, <1>4, AppendIsConcat DEF t
<1>9. /\ <<>> \o <<>> = <<>> /\ s \o <<>> = s /\ t \o <<>> = t
      /\ u \o <<>> = u /\ <<>> \o t = t
  BY <1>1, <1>2, ConcatEmptySeq, EmptySeq
<1> QED BY <1>5, <1>7, <1>8, <1>9 DEF s, t, u

LEMMA QueuesDiffer ==
  /\ <<"start">> # <<>> /\ <<"stop">> # <<>> /\ <<"start", "stop">> # <<>>
  /\ <<"start">> # <<"stop">> /\ <<"start", "stop">> # <<"start">>
  /\ <<"start", "stop">> # <<"stop">>
OBVIOUS

LEMMA HeadsAndTails ==
  /\ Head(<<"start">>) = "start" /\ Tail(<<"start">>) = <<>>
  /\ Head(<<"stop">>) = "stop" /\ Tail(<<"stop">>) = <<>>
  /\ Head(<<"start", "stop">>) = "start" /\ Tail(<<"start", "stop">>) = <<"stop">>
OBVIOUS

\* Settling wakes exactly those who await one of the requests.
LEMMA WokenReady ==
  ASSUME NEW ids, ready' = Woken(ids)
  PROVE  /\ ready' \in Queues
         /\ StartReady' <=> starting \in ids
         /\ StopReady' <=> stopping = "shutdown" /\ shutdown \in ids
BY Concatenation, QueuesDiffer DEF Woken, Queues, StartReady, StopReady

LEMMA ClosedReady ==
  ASSUME NEW ids, ready' = Woken(ids) \o CloseWakes
  PROVE  /\ ready' \in Queues
         /\ StartReady' <=> starting \in ids
         /\ StopReady' <=> \/ stopping = "shutdown" /\ shutdown \in ids
                           \/ ~closed /\ stopping \in {"closing", "killing"}
<1>1. CASE ~closed /\ stopping \in {"closing", "killing"}
  <2>1. Woken(ids) \in {<<>>, <<"start">>} /\ CloseWakes = <<"stop">>
    BY <1>1, Concatenation DEF Woken, CloseWakes
  <2>2. Woken(ids) = <<"start">> <=> starting \in ids
    BY <1>1, Concatenation, QueuesDiffer DEF Woken
  <2> QED BY <1>1, <2>1, <2>2, Concatenation, QueuesDiffer DEF Queues, StartReady, StopReady
<1>2. CASE ~(~closed /\ stopping \in {"closing", "killing"})
  <2>1. ready' = Woken(ids)
    BY <1>2, Concatenation DEF Woken, CloseWakes
  <2> QED BY <1>2, <2>1, WokenReady
<1> QED BY <1>1, <1>2

LEMMA StopAppended ==
  ASSUME ready \in Queues, ~StopReady, ready' = Append(ready, "stop")
  PROVE  ready' \in Queues /\ (StartReady' <=> StartReady) /\ StopReady'
BY Concatenation, QueuesDiffer DEF Queues, StartReady, StopReady

LEMMA StartTaken ==
  ASSUME ready \in Queues, ready # <<>>, Head(ready) = "start", ready' = Tail(ready)
  PROVE  ready' \in Queues /\ StartReady /\ ~StartReady' /\ (StopReady' <=> StopReady)
BY HeadsAndTails, QueuesDiffer DEF Queues, StartReady, StopReady

LEMMA StopTaken ==
  ASSUME ready \in Queues, ready # <<>>, Head(ready) = "stop", ready' = Tail(ready)
  PROVE  ready' \in Queues /\ StopReady /\ ~StopReady' /\ ~StartReady /\ ~StartReady'
BY HeadsAndTails, QueuesDiffer DEF Queues, StartReady, StopReady

LEMMA IdleReady == ASSUME Idle PROVE ~StartReady /\ ~StopReady
BY QueuesDiffer DEF Idle, StartReady, StopReady

-----------------------------------------------------------------------------
(* The table of requests.                                                  *)

Table ==
  /\ nextRequestId \in 1..MaxId + 1 /\ pending \subseteq Id
  /\ request \in [Id -> [method : Method, outcome : Outcome]]
  /\ timers \subseteq Id /\ tokens \subseteq Id /\ told \in [Id -> Nat]
  /\ NoPromiseLost /\ GivenUpOnce /\ UnsentAbove

\* Settling requests of the table keeps it in order, also when the server is
\* told to cancel one of them.
LEMMA SettlingKeepsTable ==
  ASSUME Table, NEW ids \in SUBSET pending, NEW outcome,
         \A i \in ids : outcome[i] \in Outcome \ {"unsent", "pending"},
         Settled(ids, outcome), nextRequestId' = nextRequestId,
         \/ told' = told
         \/ \E i \in ids : /\ outcome[i] \in {"timedOut", "cancelled"}
                          /\ told' = [told EXCEPT ![i] = @ + 1]
  PROVE  Table'
<1>1. ids \subseteq Id BY DEF Table
<1>2. \A i \in Id : request'[i] = IF i \in ids
                        THEN [method |-> request[i].method, outcome |-> outcome[i]]
                        ELSE request[i]
  BY DEF Settled, Resolved, Table, NoPromiseLost
<1>3. request' \in [Id -> [method : Method, outcome : Outcome]]
  <2>1. \A i \in Id : request'[i] \in [method : Method, outcome : Outcome]
    <3> SUFFICES ASSUME NEW i \in Id PROVE request'[i] \in [method : Method, outcome : Outcome]
      OBVIOUS
    <3>1. request[i] \in [method : Method, outcome : Outcome] BY DEF Table
    <3>2. request[i].method \in Method BY <3>1
    <3>3. CASE i \in ids
      <4> DEFINE o == outcome[i]  m == request[i].method
      <4>1. o \in Outcome /\ m \in Method BY <3>2, <3>3
      <4>2. request'[i] = [method |-> m, outcome |-> o] BY <1>2, <3>3
      <4> HIDE DEF o, m
      <4> QED BY <4>1, <4>2
    <3>4. CASE i \notin ids BY <1>2, <3>1, <3>4
    <3> QED BY <3>3, <3>4
  <2>2. request' = [i \in Id |-> request'[i]] BY DEF Settled, Resolved
  <2> QED BY <2>1, <2>2
<1>4. ASSUME NEW i \in ids PROVE request'[i].outcome = outcome[i]
  <2> DEFINE o == outcome[i]  m == request[i].method
  <2>1. request'[i] = [method |-> m, outcome |-> o] BY <1>1, <1>2
  <2> HIDE DEF o, m
  <2>2. request'[i].outcome = o BY <2>1
  <2> QED BY <2>2 DEF o
<1>5. pending' = pending \ ids /\ timers' = timers \ ids /\ tokens' = tokens \ ids
  BY DEF Settled, Cleaned
<1>6. NoPromiseLost'
  <2> SUFFICES ASSUME NEW i \in Id PROVE request'[i].outcome = "pending" <=> i \in pending'
    BY DEF NoPromiseLost
  <2>1. CASE i \in ids
    <3>1. outcome[i] # "pending" BY <2>1
    <3>2. request'[i].outcome = outcome[i] BY <1>4, <2>1
    <3>3. request'[i].outcome # "pending" BY <3>1, <3>2
    <3> QED BY <1>5, <2>1, <3>3
  <2>2. CASE i \notin ids
    BY <1>2, <1>5, <2>2 DEF Table, NoPromiseLost
  <2> QED BY <2>1, <2>2
<1>7. UnsentAbove'
  BY <1>1, <1>2 DEF Table, UnsentAbove, NoPromiseLost
<1>8. told' \in [Id -> Nat] BY <1>1 DEF Table
<1>9. GivenUpOnce'
  <2> SUFFICES ASSUME NEW i \in Id
               PROVE  /\ i \notin pending' => i \notin timers' \cup tokens'
                      /\ told'[i] \in {0, 1}
                      /\ told'[i] = 1 => request'[i].outcome \in {"timedOut", "cancelled"}
    BY DEF GivenUpOnce
  <2>1. i \notin pending' => i \notin timers' \cup tokens'
    BY <1>5 DEF Table, GivenUpOnce
  <2>2. i \in ids => told[i] = 0
    BY DEF Table, NoPromiseLost, GivenUpOnce
  <2>3. told'[i] = told[i] \/ (/\ i \in ids /\ told'[i] = told[i] + 1
                              /\ outcome[i] \in {"timedOut", "cancelled"})
    <3>1. CASE told' = told BY <3>1
    <3>2. CASE told' # told
      <4>1. PICK j \in ids : /\ outcome[j] \in {"timedOut", "cancelled"}
                            /\ told' = [told EXCEPT ![j] = @ + 1]
        BY <3>2
      <4>2. told'[i] = IF i = j THEN told[i] + 1 ELSE told[i] BY <1>1, <4>1 DEF Table
      <4>3. CASE i = j BY <4>1, <4>2, <4>3
      <4>4. CASE i # j BY <4>2, <4>4
      <4> QED BY <4>3, <4>4
    <3> QED BY <3>1, <3>2
  <2>4. CASE i \in ids
    <3>1. request'[i].outcome = outcome[i] BY <1>4, <2>4
    <3> QED BY <2>1, <2>2, <2>3, <2>4, <3>1
  <2>5. CASE i \notin ids
    <3>1. request'[i] = request[i] /\ told'[i] = told[i] BY <1>2, <2>3, <2>5
    <3> QED BY <2>1, <3>1 DEF Table, GivenUpOnce
  <2> QED BY <2>4, <2>5
<1> QED BY <1>1, <1>3, <1>5, <1>6, <1>7, <1>8, <1>9 DEF Table

LEMMA RejectingKeepsTable ==
  ASSUME Table, RejectPending("lost"), nextRequestId' = nextRequestId, told' = told
  PROVE  Table' /\ pending' = {}
<1> DEFINE outcome == [i \in pending |-> "lost"]
<1>1. \A i \in pending : outcome[i] \in Outcome \ {"unsent", "pending"} BY DEF Outcome
<1>2. Settled(pending, outcome) BY DEF RejectPending
<1> HIDE DEF outcome
<1>3. Table' BY <1>1, <1>2, SettlingKeepsTable
<1> QED BY <1>2, <1>3 DEF Settled

\* A new request takes the next entry, which nobody has used.
LEMMA SendingKeepsTable ==
  ASSUME Table, NEW method \in Method, NEW outcome \in {"pending", "error"},
         nextRequestId <= MaxId, nextRequestId' = nextRequestId + 1,
         request' = [request EXCEPT ![nextRequestId] = [method |-> method, outcome |-> outcome]],
         pending' = IF outcome = "pending" THEN pending \cup {nextRequestId} ELSE pending,
         timers' = IF outcome = "pending" THEN timers \cup {nextRequestId} ELSE timers,
         \/ tokens' = tokens
         \/ outcome = "pending" /\ tokens' = tokens \cup {nextRequestId},
         told' = told
  PROVE  Table'
<1>1. nextRequestId \in Id BY DEF Table, Id
<1>2. \A i \in Id : request'[i] = IF i = nextRequestId THEN [method |-> method, outcome |-> outcome]
                                  ELSE request[i]
  BY <1>1 DEF Table
<1>3. request' \in [Id -> [method : Method, outcome : Outcome]]
  BY <1>1 DEF Table, Outcome
<1>4. request[nextRequestId].outcome = "unsent" BY <1>1 DEF Table, UnsentAbove
<1>5. nextRequestId \notin pending BY <1>1, <1>4 DEF Table, NoPromiseLost
<1>6. NoPromiseLost'
  BY <1>1, <1>2, <1>5 DEF Table, NoPromiseLost
<1>7. UnsentAbove'
  <2> SUFFICES ASSUME NEW i \in Id, i >= nextRequestId + 1 PROVE request'[i].outcome = "unsent"
    BY DEF UnsentAbove
  <2>1. i # nextRequestId /\ i >= nextRequestId BY DEF Table, Id
  <2> QED BY <1>2, <2>1 DEF Table, UnsentAbove
<1>8. GivenUpOnce'
  <2> SUFFICES ASSUME NEW i \in Id
               PROVE  /\ i \notin pending' => i \notin timers' \cup tokens'
                      /\ told'[i] \in {0, 1}
                      /\ told'[i] = 1 => request'[i].outcome \in {"timedOut", "cancelled"}
    BY DEF GivenUpOnce
  <2>1. i \notin pending' => i \notin timers' \cup tokens'
    BY DEF Table, GivenUpOnce
  <2>2. told[i] \in {0, 1} /\ (told[i] = 1 => request[i].outcome \in {"timedOut", "cancelled"})
    BY DEF Table, GivenUpOnce
  <2> QED BY <1>2, <1>4, <2>1, <2>2
<1>9. nextRequestId' \in 1..MaxId + 1 BY LspClientBounds DEF Table
<1>10. timers' \subseteq Id /\ tokens' \subseteq Id /\ told' \in [Id -> Nat] BY <1>1 DEF Table
<1> QED BY <1>1, <1>3, <1>6, <1>7, <1>8, <1>9, <1>10 DEF Table

-----------------------------------------------------------------------------
(* One lemma for each action: the invariant is kept, and the contract      *)
(* takes a step or none.                                                   *)

ContractStep == [Contract!Next]_(Contract!contract)

LEMMA TableOf == ClientInv => Table
BY DEF ClientInv, TypeOK, Table

LEMMA StartStep ==
  ASSUME ClientInv, Start
  PROVE  ClientInv' /\ ContractStep
<1>1. /\ Idle /\ state = "stopped" /\ process' \in {"alive", "unspawned"}
      /\ nextRequestId <= MaxId /\ nextRequestId' = nextRequestId + 1
      /\ starting' = nextRequestId /\ pending' = pending \cup {nextRequestId}
      /\ state' = "starting" /\ child' = TRUE /\ closed' = FALSE /\ stopRequested' = FALSE
      /\ started' = "pending" /\ stopping' = stopping /\ shutdown' = shutdown /\ ready' = ready
  BY DEF Start
<1>2. Table'
  <2>1. request' = [request EXCEPT ![nextRequestId] =
                      [method |-> "initialize", outcome |-> "pending"]]
    BY DEF Start
  <2>2. "initialize" \in Method BY DEF Method
  <2>3. timers' = timers \cup {nextRequestId} /\ tokens' = tokens /\ told' = told BY DEF Start
  <2> QED BY <1>1, <2>1, <2>2, <2>3, TableOf, SendingKeepsTable
<1>3. ~StartReady /\ ~StopReady BY <1>1, IdleReady
<1>4. ~child /\ process = "none" /\ pending = {} /\ starting = 0 /\ started # "pending"
  BY <1>1, <1>3 DEF ClientInv, Phases, Waits
<1>5. stopping = "idle"
  BY <1>1, <1>3, <1>4 DEF ClientInv, Phases, Waits, TypeOK
<1>6. nextRequestId \in Nat \ {0} BY DEF ClientInv, TypeOK
<1>7. Messages'
  <2> DEFINE m == [kind |-> "initialize", id |-> nextRequestId]
  <2>1. m \in ToServer BY <1>1, <1>6, LspClientBounds DEF Method, ToServer
  <2>2. toServer' \in {<<>>, <<m>>} /\ toClient' = <<>> BY DEF Start
  <2> HIDE DEF m
  <2>3. <<>> \in Seq(ToServer) /\ <<>> \in Seq(ToClient) BY EmptySeq
  <2>4. <<m>> \in Seq(ToServer) BY <2>1
  <2> QED BY <2>2, <2>3, <2>4 DEF Messages
<1>8. TypeOK'
  <2>1. starting' \in 0..MaxId /\ shutdown' \in 0..MaxId
    BY <1>1, <1>6, LspClientBounds DEF ClientInv, TypeOK
  <2>2. /\ state' \in {"stopped", "starting", "running", "stopping", "failed"}
        /\ process' \in {"none", "unspawned", "alive", "dying", "dead"}
        /\ started' \in {"idle", "pending", "ok", "failed"}
    BY <1>1
  <2> QED BY <1>1, <1>2, <2>1, <2>2 DEF Table, ClientInv, TypeOK
<1>9. Waits'
  <2>1. ~StartReady' /\ ~StopReady' BY <1>1, <1>3 DEF StartReady, StopReady
  <2>2. shutdown \in Nat /\ shutdown < nextRequestId + 1 /\ nextRequestId < nextRequestId + 1
    BY <1>6, LspClientBounds DEF ClientInv, TypeOK, Waits
  <2> QED BY <1>1, <1>5, <1>6, <2>1, <2>2 DEF Waits
<1>10. Phases' BY <1>1, <1>5 DEF Phases, RunningHasChild
<1>11. Contract!Begin
  BY <1>1, <1>4, <1>5 DEF Contract!Begin
<1> QED BY <1>2, <1>7, <1>8, <1>9, <1>10, <1>11
        DEF ClientInv, Table, ContractStep, Contract!Next

LEMMA SentTyped ==
  ASSUME Messages, NEW m \in ToServer
  PROVE  Sent(m) \in Seq(ToServer)
BY DEF Messages, Sent

\* A provider's request, or the request of stop().
LEMMA RequestStep ==
  ASSUME ClientInv, NEW method \in Method, RequestSent(method) \/ RequestFailed(method),
         toClient' = toClient, told' = told
  PROVE  /\ Table' /\ Messages'
         /\ nextRequestId \in Nat \ {0} /\ nextRequestId <= MaxId
         /\ nextRequestId' = nextRequestId + 1
         /\ \/ RequestSent(method) /\ pending' = pending \cup {nextRequestId}
            \/ RequestFailed(method) /\ pending' = pending
<1>1. nextRequestId \in Nat \ {0} BY DEF ClientInv, TypeOK
<1>2. nextRequestId <= MaxId BY DEF RequestSent, RequestFailed
<1>3. CASE RequestSent(method)
  <2>1. /\ nextRequestId' = nextRequestId + 1 /\ pending' = pending \cup {nextRequestId}
        /\ timers' = timers \cup {nextRequestId}
        /\ tokens' = tokens \/ tokens' = tokens \cup {nextRequestId}
        /\ request' = [request EXCEPT ![nextRequestId] = [method |-> method, outcome |-> "pending"]]
        /\ toServer' = Sent([kind |-> method, id |-> nextRequestId])
    BY <1>3 DEF RequestSent
  <2>2. Table' BY <1>2, <2>1, TableOf, SendingKeepsTable
  <2>3. [kind |-> method, id |-> nextRequestId]
          \in ToServer
    BY <1>1, <1>2, LspClientBounds DEF ToServer
  <2>4. Messages' BY <2>1, <2>3, SentTyped DEF Messages, ClientInv
  <2> QED BY <1>1, <1>2, <1>3, <2>1, <2>2, <2>4
<1>4. CASE RequestFailed(method)
  <2>1. /\ nextRequestId' = nextRequestId + 1 /\ pending' = pending /\ toServer' = toServer
        /\ timers' = timers /\ tokens' = tokens
        /\ request' = [request EXCEPT ![nextRequestId] = [method |-> method, outcome |-> "error"]]
    BY <1>4 DEF RequestFailed
  <2>2. Table' BY <1>2, <2>1, TableOf, SendingKeepsTable
  <2> QED BY <1>1, <1>2, <1>4, <2>1, <2>2 DEF Messages, ClientInv
<1> QED BY <1>3, <1>4

LEMMA QueryStep ==
  ASSUME ClientInv, Query
  PROVE  ClientInv' /\ ContractStep
<1>1. /\ child /\ state' = state /\ child' = child /\ stopRequested' = stopRequested
      /\ closed' = closed /\ starting' = starting /\ stopping' = stopping
      /\ shutdown' = shutdown /\ ready' = ready /\ process' = process /\ toClient' = toClient
      /\ started' = started /\ told' = told
  BY DEF Query
<1>2. /\ Table' /\ Messages' /\ nextRequestId \in Nat \ {0}
      /\ nextRequestId <= MaxId /\ nextRequestId' = nextRequestId + 1
      /\ pending' \in {pending, pending \cup {nextRequestId}}
  <2>1. "query" \in Method BY DEF Method
  <2>2. RequestSent("query") \/ RequestFailed("query") BY DEF Query
  <2> QED BY <1>1, <2>1, <2>2, RequestStep
<1>3. TypeOK' BY <1>1, <1>2 DEF Table, ClientInv, TypeOK
<1>4. Waits'
  <2>1. starting # nextRequestId /\ shutdown # nextRequestId
    BY <1>2 DEF ClientInv, Waits, TypeOK
  <2>2. starting < nextRequestId' /\ shutdown < nextRequestId'
    BY <1>2 DEF ClientInv, Waits, TypeOK
  <2>3. (StartReady' <=> StartReady) /\ (StopReady' <=> StopReady)
    BY <1>1 DEF StartReady, StopReady
  <2> QED BY <1>1, <1>2, <2>1, <2>2, <2>3 DEF ClientInv, Waits
<1>5. Phases' BY <1>1 DEF ClientInv, Phases, RunningHasChild
<1>6. UNCHANGED Contract!contract BY <1>1 DEF Contract!contract
<1> QED BY <1>2, <1>3, <1>4, <1>5, <1>6 DEF ClientInv, Table, ContractStep

LEMMA StopStep ==
  ASSUME ClientInv, Stop
  PROVE  ClientInv' /\ ContractStep
<1>1. /\ stopping = "idle" /\ stopRequested' = TRUE /\ child' = child /\ closed' = closed
      /\ starting' = starting /\ process' = process /\ toClient' = toClient
      /\ started' = started /\ told' = told
  BY DEF Stop
<1>2. ~StopReady BY <1>1 DEF ClientInv, Waits
<1>3. CASE child
  <2>1. /\ state' = "stopping" /\ stopping' = "shutdown" /\ shutdown' = nextRequestId
        /\ \/ RequestSent("shutdown") /\ ready' = ready
           \/ RequestFailed("shutdown") /\ ready' = Append(ready, "stop")
    BY <1>3 DEF Stop
  <2>2. /\ Table' /\ Messages' /\ nextRequestId \in Nat \ {0}
        /\ nextRequestId <= MaxId /\ nextRequestId' = nextRequestId + 1
        /\ \/ ready' = ready /\ pending' = pending \cup {nextRequestId}
           \/ ready' = Append(ready, "stop") /\ pending' = pending
    <3>1. "shutdown" \in Method BY DEF Method
    <3>2. CASE RequestSent("shutdown") /\ ready' = ready
      <4>1. pending' = pending \cup {nextRequestId} BY <3>2 DEF RequestSent
      <4> QED BY <1>1, <3>1, <3>2, <4>1, RequestStep
    <3>3. CASE RequestFailed("shutdown") /\ ready' = Append(ready, "stop")
      <4>1. pending' = pending BY <3>3 DEF RequestFailed
      <4> QED BY <1>1, <3>1, <3>3, <4>1, RequestStep
    <3> QED BY <2>1, <3>2, <3>3
  <2>3. nextRequestId \notin pending
    BY <2>2 DEF ClientInv, UnsentAbove, NoPromiseLost, TypeOK, Id
  <2>4. ready \in Queues BY DEF ClientInv, TypeOK, Queues
  <2>5. /\ ready' \in Queues /\ (StartReady' <=> StartReady)
        /\ StopReady' <=> nextRequestId \notin pending'
    BY <1>2, <2>2, <2>3, <2>4, StopAppended DEF StartReady, StopReady
  <2>6. TypeOK' BY <1>1, <1>3, <2>1, <2>2, <2>5 DEF Table, ClientInv, TypeOK, Queues
  <2>7. starting # nextRequestId /\ starting < nextRequestId' /\ nextRequestId < nextRequestId'
    BY <2>2 DEF ClientInv, Waits, TypeOK
  <2>8. Waits' BY <1>1, <2>1, <2>2, <2>5, <2>7 DEF ClientInv, Waits
  <2>9. Phases' BY <1>1, <1>3, <2>1 DEF ClientInv, Phases, RunningHasChild
  <2>10. Contract!Stop BY <1>1, <2>1 DEF Contract!Stop
  <2> QED BY <2>2, <2>6, <2>8, <2>9, <2>10 DEF ClientInv, Table, ContractStep, Contract!Next
<1>4. CASE ~child
  <2>1. /\ state' = "stopped" /\ stopping' = stopping /\ shutdown' = shutdown /\ ready' = ready
        /\ nextRequestId' = nextRequestId /\ request' = request /\ pending' = pending
        /\ toServer' = toServer /\ timers' = timers /\ tokens' = tokens
    BY <1>4 DEF Stop
  <2>2. Table'
    BY <1>1, <2>1, TableOf DEF Table, NoPromiseLost, GivenUpOnce, UnsentAbove
  <2>3. Messages' BY <1>1, <2>1 DEF ClientInv, Messages
  <2>4. TypeOK' BY <1>1, <1>4, <2>1, <2>2 DEF Table, ClientInv, TypeOK
  <2>5. Waits' BY <1>1, <2>1 DEF ClientInv, Waits, StartReady, StopReady
  <2>6. Phases' BY <1>1, <1>4, <2>1 DEF ClientInv, Phases, RunningHasChild
  <2>7. process = "none" /\ state # "running"
    BY <1>4 DEF ClientInv, Phases, RunningHasChild
  <2>8. Contract!StopNothing
    BY <1>1, <2>1, <2>7 DEF Contract!StopNothing
  <2> QED BY <2>2, <2>3, <2>4, <2>5, <2>6, <2>8
          DEF ClientInv, Table, ContractStep, Contract!Next
<1> QED BY <1>3, <1>4

\* A step that leaves the table alone.
LEMMA TableLeft ==
  ASSUME ClientInv, UNCHANGED <<nextRequestId, pending, request, timers, tokens, told>>
  PROVE  Table'
BY TableOf DEF Table, NoPromiseLost, GivenUpOnce, UnsentAbove

LEMMA ContinueStartStep ==
  ASSUME ClientInv, ContinueStart
  PROVE  ClientInv' /\ ContractStep
<1>1. /\ ready # <<>> /\ Head(ready) = "start" /\ ready' = Tail(ready) /\ starting' = 0
      /\ child' = child /\ stopRequested' = stopRequested /\ nextRequestId' = nextRequestId
      /\ pending' = pending /\ closed' = closed /\ stopping' = stopping /\ shutdown' = shutdown
      /\ request' = request /\ toClient' = toClient /\ UNCHANGED <<timers, tokens, told>>
  BY DEF ContinueStart
<1>2. ready \in Queues BY DEF ClientInv, TypeOK, Queues
<1>3. ready' \in Queues /\ StartReady /\ ~StartReady' /\ (StopReady' <=> StopReady)
  BY <1>1, <1>2, StartTaken
<1>4. started = "pending" /\ state # "running"
  BY <1>3 DEF ClientInv, Waits, Phases
<1>5. Table' BY <1>1, TableLeft
<1>6. nextRequestId \in Nat /\ nextRequestId > 0 BY DEF ClientInv, TypeOK
<1>7. ASSUME started' # "pending" PROVE Waits'
  BY <1>1, <1>3, <1>6, <1>7 DEF ClientInv, Waits
<1>8. CASE /\ child /\ toServer' = Sent([kind |-> "initialized", id |-> 0])
           /\ state' = "running" /\ started' = "ok" /\ process' = process
  <2>1. [kind |-> "initialized", id |-> 0] \in ToServer
    BY LspClientBounds DEF ToServer
  <2>2. Messages' BY <1>1, <1>8, <2>1, SentTyped DEF ClientInv, Messages
  <2>3. TypeOK' BY <1>1, <1>3, <1>5, <1>8, LspClientBounds DEF Table, ClientInv, TypeOK, Queues
  <2>4. Waits' BY <1>7, <1>8
  <2>5. Phases' BY <1>1, <1>8 DEF ClientInv, Phases, RunningHasChild
  <2>6. Contract!Succeed BY <1>1, <1>4, <1>8 DEF Contract!Succeed
  <2> QED BY <1>5, <2>2, <2>3, <2>4, <2>5, <2>6 DEF ClientInv, Table, ContractStep, Contract!Next
<1>9. CASE /\ state' = "failed" /\ started' = "failed"
           /\ process' = IF child THEN Killed ELSE process
           /\ toServer' = toServer
  <2>1. Messages' BY <1>1, <1>9 DEF ClientInv, Messages
  <2>2. /\ process' = process \/ (process = "alive" /\ process' = "dying")
    BY <1>9 DEF Killed
  <2>3. TypeOK' BY <1>1, <1>3, <1>5, <1>9, <2>2, LspClientBounds DEF Table, ClientInv, TypeOK, Queues
  <2>4. Waits' BY <1>7, <1>9
  <2>5. Phases' BY <1>1, <1>9, <2>2 DEF ClientInv, Phases, RunningHasChild
  <2>6. Contract!Fail BY <1>1, <1>4, <1>9, <2>2 DEF Contract!Fail
  <2> QED BY <1>5, <2>1, <2>3, <2>4, <2>5, <2>6 DEF ClientInv, Table, ContractStep, Contract!Next
<1> QED BY <1>8, <1>9 DEF ContinueStart, MayWrite

LEMMA ContinueStopStep ==
  ASSUME ClientInv, ContinueStop
  PROVE  ClientInv' /\ ContractStep
<1>1. /\ ready # <<>> /\ Head(ready) = "stop" /\ ready' = Tail(ready)
      /\ state' = state /\ child' = child /\ stopRequested' = stopRequested
      /\ nextRequestId' = nextRequestId /\ pending' = pending /\ closed' = closed
      /\ starting' = starting /\ shutdown' = shutdown /\ request' = request
      /\ process' = process /\ toClient' = toClient /\ started' = started
      /\ UNCHANGED <<timers, tokens, told>>
  BY DEF ContinueStop
<1>2. ready \in Queues BY DEF ClientInv, TypeOK, Queues
<1>3. /\ ready' \in Queues /\ StopReady /\ ~StopReady' /\ ~StartReady /\ ~StartReady'
  BY <1>1, <1>2, StopTaken
<1>4. stopping # "idle" /\ stopRequested
  BY <1>3 DEF ClientInv, Waits, Phases
<1>5. Table' BY <1>1, TableLeft
<1>6. stopping' = (IF stopping = "shutdown" /\ ~closed THEN "closing" ELSE "idle")
  BY DEF ContinueStop
<1>7. Messages'
  <2>1. [kind |-> "exit", id |-> 0] \in ToServer BY LspClientBounds DEF ToServer
  <2>2. toServer' \in {toServer, Sent([kind |-> "exit", id |-> 0])} BY DEF ContinueStop
  <2> QED BY <1>1, <2>1, <2>2, SentTyped DEF ClientInv, Messages
<1>8. TypeOK' BY <1>1, <1>3, <1>5, <1>6 DEF Table, ClientInv, TypeOK, Queues
<1>9. Waits' BY <1>1, <1>3, <1>6 DEF ClientInv, Waits
<1>10. Phases' BY <1>1, <1>4, <1>6 DEF ClientInv, Phases, RunningHasChild
<1>11. ContractStep
  <2>1. CASE stopping' = "closing"
    <3>1. UNCHANGED Contract!contract BY <1>1, <1>4, <2>1 DEF Contract!contract
    <3> QED BY <3>1 DEF ContractStep
  <2>2. CASE stopping' = "idle"
    <3>1. closed
      BY <1>3, <1>6, <2>2 DEF ClientInv, Waits, TypeOK
    <3>2. process \in {"none", "dead"} BY <3>1 DEF ClientInv, Phases
    <3>3. Contract!Return BY <1>1, <1>4, <2>2, <3>2 DEF Contract!Return
    <3> QED BY <3>3 DEF ContractStep, Contract!Next
  <2> QED BY <1>6, <2>1, <2>2
<1> QED BY <1>5, <1>7, <1>8, <1>9, <1>10, <1>11 DEF ClientInv, Table

\* Requests are settled and those who await them woken, while nothing else
\* of the client changes.
LEMMA SettledWaits ==
  ASSUME ClientInv, Idle, NEW ids \in SUBSET pending, ready' = Woken(ids),
         pending' = pending \ ids,
         UNCHANGED <<nextRequestId, started, starting, stopping, shutdown, closed>>
  PROVE  Waits' /\ ready' \in Queues
<1>1. ~StartReady /\ ~StopReady BY IdleReady
<1>2. /\ ready' \in Queues /\ (StartReady' <=> starting \in ids)
      /\ StopReady' <=> stopping = "shutdown" /\ shutdown \in ids
  BY WokenReady
<1>3. starting \in pending \/ starting = 0 BY <1>1 DEF ClientInv, Waits
<1>4. 0 \notin pending BY DEF ClientInv, TypeOK, Id
<1>5. StartReady' <=> starting' # 0 /\ starting' \notin pending'
  BY <1>2, <1>3, <1>4
<1>6. StopReady' <=> \/ stopping' = "shutdown" /\ shutdown' \notin pending'
                     \/ stopping' \in {"closing", "killing"} /\ closed'
  BY <1>1, <1>2 DEF ClientInv, Waits
<1> QED BY <1>2, <1>5, <1>6 DEF ClientInv, Waits

LEMMA CancelStep ==
  ASSUME ClientInv, NEW i \in Id, NEW outcome \in {"timedOut", "cancelled"},
         CancelPending(i, outcome)
  PROVE  ClientInv' /\ ContractStep
<1>1. /\ Idle /\ i \in pending /\ ready' = Woken({i}) /\ state' = state /\ child' = child
      /\ stopRequested' = stopRequested /\ nextRequestId' = nextRequestId /\ closed' = closed
      /\ starting' = starting /\ stopping' = stopping /\ shutdown' = shutdown
      /\ process' = process /\ toClient' = toClient /\ started' = started
  BY DEF CancelPending
<1> DEFINE settled == [j \in {i} |-> outcome]
<1>2. Settled({i}, settled) BY DEF CancelPending
<1>3. \A j \in {i} : settled[j] \in Outcome \ {"unsent", "pending"} BY DEF Outcome
<1>4. pending' = pending \ {i} BY <1>2 DEF Settled
<1>5. Table'
  <2>1. told' = told \/ told' = [told EXCEPT ![i] = @ + 1] BY DEF CancelPending, CancelSent
  <2>2. settled[i] \in {"timedOut", "cancelled"} OBVIOUS
  <2> HIDE DEF settled
  <2> QED BY <1>1, <1>2, <1>3, <2>1, <2>2, TableOf, SettlingKeepsTable
<1> HIDE DEF settled
<1>6. Messages'
  <2>1. [kind |-> "cancel", id |-> i] \in ToServer BY LspClientBounds DEF ToServer, Id
  <2>2. toServer' = Sent([kind |-> "cancel", id |-> i]) BY DEF CancelPending, CancelSent
  <2> QED BY <1>1, <2>1, <2>2, SentTyped DEF ClientInv, Messages
<1>7. Waits' /\ ready' \in Queues BY <1>1, <1>4, SettledWaits
<1>8. TypeOK' BY <1>1, <1>5, <1>7 DEF Table, ClientInv, TypeOK, Queues
<1>9. Phases' BY <1>1, <1>4 DEF ClientInv, Phases, RunningHasChild
<1>10. UNCHANGED Contract!contract BY <1>1 DEF Contract!contract
<1> QED BY <1>5, <1>6, <1>7, <1>8, <1>9, <1>10 DEF ClientInv, Table, ContractStep

LEMMA DataStep ==
  ASSUME ClientInv, Data
  PROVE  ClientInv' /\ ContractStep
<1>1. /\ Idle /\ state' = state /\ child' = child /\ stopRequested' = stopRequested
      /\ nextRequestId' = nextRequestId /\ closed' = closed /\ starting' = starting
      /\ stopping' = stopping /\ shutdown' = shutdown /\ toServer' = toServer
      /\ started' = started /\ told' = told
  BY DEF Data
<1> DEFINE chunk(n) == SubSeq(toClient, 1, n)
           handled(n, d) == Handled(chunk(n), d)
           answered(n, d) == {i \in pending : \E k \in handled(n, d) : chunk(n)[k].id = i}
           AnswerTo(n, d, i) == chunk(n)[CHOOSE k \in handled(n, d) : chunk(n)[k].id = i].kind
           broken(n) == \E k \in 1..n : chunk(n)[k].kind = "garbage"
           settled(n, d) == IF broken(n) THEN pending ELSE answered(n, d)
           outcome(n, d) == [i \in settled(n, d) |->
                               IF i \in answered(n, d) THEN AnswerTo(n, d, i) ELSE "lost"]
<1>2. PICK n \in 1..Len(toClient), d \in BOOLEAN :
        /\ toClient' = SubSeq(toClient, n + 1, Len(toClient))
        /\ Settled(settled(n, d), outcome(n, d))
        /\ ready' = Woken(settled(n, d))
        /\ process' = IF broken(n) THEN Killed ELSE process
  BY DEF Data
<1>3. toClient \in Seq(ToClient) BY DEF ClientInv, Messages
<1>4. n \in Nat /\ n > 0 /\ n <= Len(toClient) BY <1>2, <1>3
<1>5. chunk(n) \in Seq(ToClient) /\ Len(chunk(n)) = n
  BY <1>3, <1>4, SubSeqProperties
<1>6. Messages'
  <2>1. SubSeq(toClient, n + 1, Len(toClient)) \in Seq(ToClient)
    BY <1>3, <1>4, SubSeqProperties
  <2> QED BY <1>1, <1>2, <2>1 DEF ClientInv, Messages
\* What is handled is an answer; the rest of what is settled is lost.
<1>7. PICK ids \in SUBSET pending :
        Table' /\ pending' = pending \ ids /\ ready' = Woken(ids) /\ process' \in {process, Killed}
  <2>1. settled(n, d) \in SUBSET pending OBVIOUS
  <2>2. ASSUME NEW i \in settled(n, d)
        PROVE  outcome(n, d)[i] \in Outcome \ {"unsent", "pending"}
    <3>1. CASE i \in answered(n, d)
      <4>1. PICK k \in handled(n, d) : outcome(n, d)[i] = chunk(n)[k].kind BY <3>1
      <4>2. k \in 1..n /\ chunk(n)[k].kind # "garbage"
        <5> DEFINE c == chunk(n)
        <5>1. k \in DOMAIN c /\ (c[k].kind = "garbage" => k < k) BY <4>1 DEF Handled
        <5>2. DOMAIN c = 1..n BY <1>5
        <5> HIDE DEF c
        <5>3. k \in 1..n /\ ~(k < k) BY <1>4, <5>1, <5>2
        <5>4. c[k].kind # "garbage" BY <5>1, <5>3
        <5> QED BY <5>3, <5>4 DEF c
      <4>3. chunk(n)[k] \in ToClient BY <1>5, <4>2, ElementOfSeq
      <4>4. chunk(n)[k].kind \in {"ok", "error"} BY <4>2, <4>3 DEF ToClient
      <4> QED BY <4>1, <4>4 DEF Outcome
    <3>2. CASE i \notin answered(n, d)
      <4>1. outcome(n, d)[i] = "lost" BY <3>2
      <4> QED BY <4>1 DEF Outcome
    <3> QED BY <3>1, <3>2
  <2>3. Settled(settled(n, d), outcome(n, d)) /\ ready' = Woken(settled(n, d))
        /\ process' \in {process, Killed}
    BY <1>2
  <2> HIDE DEF settled, outcome
  <2>4. Table' BY <1>1, <2>1, <2>2, <2>3, TableOf, SettlingKeepsTable
  <2> QED BY <2>1, <2>3, <2>4 DEF Settled
<1>8. Waits' /\ ready' \in Queues BY <1>1, <1>7, SettledWaits
<1>9. process' = process \/ (process = "alive" /\ process' = "dying") BY <1>7 DEF Killed
<1>10. TypeOK' BY <1>1, <1>7, <1>8, <1>9 DEF Table, ClientInv, TypeOK, Queues
<1>11. Phases' BY <1>1, <1>7, <1>9 DEF ClientInv, Phases, RunningHasChild
<1>12. UNCHANGED Contract!contract BY <1>1, <1>9 DEF Contract!contract
<1> QED BY <1>6, <1>7, <1>8, <1>10, <1>11, <1>12 DEF ClientInv, Table, ContractStep

\* The end of the process, by the error or the close event.
LEMMA EndedWaits ==
  ASSUME ClientInv, Idle, ready' = Woken(pending) \o CloseWakes, pending' = {}, closed' = TRUE,
         UNCHANGED <<nextRequestId, started, starting, stopping, shutdown>>
  PROVE  Waits' /\ ready' \in Queues
<1>1. ~StartReady /\ ~StopReady BY IdleReady
<1>2. /\ ready' \in Queues /\ (StartReady' <=> starting \in pending)
      /\ StopReady' <=> \/ stopping = "shutdown" /\ shutdown \in pending
                        \/ ~closed /\ stopping \in {"closing", "killing"}
  BY ClosedReady
<1>3. 0 \notin pending BY DEF ClientInv, TypeOK, Id
<1>4. StartReady' <=> starting' # 0 /\ starting' \notin pending'
  BY <1>1, <1>2, <1>3 DEF ClientInv, Waits
<1>5. StopReady' <=> \/ stopping' = "shutdown" /\ shutdown' \notin pending'
                     \/ stopping' \in {"closing", "killing"} /\ closed'
  BY <1>1, <1>2 DEF ClientInv, Waits
<1> QED BY <1>2, <1>4, <1>5 DEF ClientInv, Waits

LEMMA SpawnErrorStep ==
  ASSUME ClientInv, SpawnError
  PROVE  ClientInv' /\ ContractStep
<1>1. /\ Idle /\ process = "unspawned" /\ process' = "dead" /\ RejectPending("lost")
      /\ ready' = Woken(pending) \o CloseWakes /\ state' = "failed" /\ closed' = TRUE
      /\ child' = child /\ stopRequested' = stopRequested /\ nextRequestId' = nextRequestId
      /\ starting' = starting /\ stopping' = stopping /\ shutdown' = shutdown
      /\ toServer' = toServer /\ toClient' = toClient /\ started' = started /\ told' = told
  BY DEF SpawnError
<1>2. Table' /\ pending' = {} BY <1>1, TableOf, RejectingKeepsTable
<1>3. Waits' /\ ready' \in Queues BY <1>1, <1>2, EndedWaits
<1>4. Messages' BY <1>1 DEF ClientInv, Messages
<1>5. TypeOK' BY <1>1, <1>2, <1>3 DEF Table, ClientInv, TypeOK, Queues
<1>6. Phases' BY <1>1, <1>2 DEF ClientInv, Phases, RunningHasChild
<1>7. CASE state = "running"
  <2>1. Contract!Down BY <1>1, <1>7 DEF Contract!Down
  <2> QED BY <1>2, <1>3, <1>4, <1>5, <1>6, <2>1 DEF ClientInv, Table, ContractStep, Contract!Next
<1>8. CASE state # "running"
  <2>1. UNCHANGED Contract!contract BY <1>1, <1>8 DEF Contract!contract
  <2> QED BY <1>2, <1>3, <1>4, <1>5, <1>6, <2>1 DEF ClientInv, Table, ContractStep
<1> QED BY <1>7, <1>8

LEMMA CloseStep ==
  ASSUME ClientInv, Close
  PROVE  ClientInv' /\ ContractStep
<1>1. /\ Idle /\ process = "dead" /\ process' = "none" /\ RejectPending("lost")
      /\ ready' = Woken(pending) \o CloseWakes /\ state' = "stopped" /\ closed' = TRUE
      /\ child' = FALSE /\ stopRequested' = stopRequested /\ nextRequestId' = nextRequestId
      /\ starting' = starting /\ stopping' = stopping /\ shutdown' = shutdown
      /\ toServer' = toServer /\ toClient' = toClient /\ started' = started /\ told' = told
  BY DEF Close
<1>2. Table' /\ pending' = {} BY <1>1, TableOf, RejectingKeepsTable
<1>3. Waits' /\ ready' \in Queues BY <1>1, <1>2, EndedWaits
<1>4. Messages' BY <1>1 DEF ClientInv, Messages
<1>5. TypeOK' BY <1>1, <1>2, <1>3 DEF Table, ClientInv, TypeOK, Queues
<1>6. Phases' BY <1>1, <1>2 DEF ClientInv, Phases, RunningHasChild
<1>7. CASE state = "running"
  <2>1. Contract!Down BY <1>1, <1>7 DEF Contract!Down
  <2> QED BY <1>2, <1>3, <1>4, <1>5, <1>6, <2>1 DEF ClientInv, Table, ContractStep, Contract!Next
<1>8. CASE state # "running"
  <2>1. UNCHANGED Contract!contract BY <1>1, <1>8 DEF Contract!contract
  <2> QED BY <1>2, <1>3, <1>4, <1>5, <1>6, <2>1 DEF ClientInv, Table, ContractStep
<1> QED BY <1>7, <1>8

LEMMA StopTimeoutStep ==
  ASSUME ClientInv, StopTimeout
  PROVE  ClientInv' /\ ContractStep
<1>1. /\ Idle /\ stopping = "closing" /\ state' = state /\ child' = child
      /\ stopRequested' = stopRequested /\ nextRequestId' = nextRequestId /\ pending' = pending
      /\ closed' = closed /\ starting' = starting /\ shutdown' = shutdown /\ ready' = ready
      /\ request' = request /\ toServer' = toServer /\ toClient' = toClient /\ started' = started
      /\ UNCHANGED <<timers, tokens, told>>
  BY DEF StopTimeout
<1>2. ~closed BY <1>1, IdleReady DEF ClientInv, Waits
<1>3. child BY <1>1, <1>2 DEF ClientInv, Phases
<1>4. /\ stopping' = "killing"
      /\ process' = process \/ (process = "alive" /\ process' = "dying")
  BY <1>3 DEF StopTimeout, Killed
<1>5. Table' BY <1>1, TableLeft
<1>6. Messages' BY <1>1 DEF ClientInv, Messages
<1>7. TypeOK' BY <1>1, <1>4, <1>5 DEF Table, ClientInv, TypeOK
<1>8. Waits' BY <1>1, <1>4 DEF ClientInv, Waits, StartReady, StopReady
<1>9. Phases' BY <1>1, <1>2, <1>3, <1>4 DEF ClientInv, Phases, RunningHasChild
<1>10. UNCHANGED Contract!contract BY <1>1, <1>4 DEF Contract!contract
<1> QED BY <1>5, <1>6, <1>7, <1>8, <1>9, <1>10 DEF ClientInv, Table, ContractStep

\* Steps of the server that only touch the pipes.
LEMMA ServerStep ==
  ASSUME ClientInv, UNCHANGED client, Messages',
         \/ process' = process
         \/ process \in {"alive", "dying"} /\ process' = "dead"
  PROVE  ClientInv' /\ ContractStep
<1>1. /\ state' = state /\ child' = child /\ stopRequested' = stopRequested
      /\ nextRequestId' = nextRequestId /\ pending' = pending /\ closed' = closed
      /\ starting' = starting /\ stopping' = stopping /\ shutdown' = shutdown
      /\ ready' = ready /\ request' = request /\ started' = started
      /\ UNCHANGED <<timers, tokens, told>>
  BY DEF client
<1>2. Table' BY <1>1, TableLeft
<1>3. TypeOK' BY <1>1, <1>2 DEF Table, ClientInv, TypeOK
<1>4. Waits' BY <1>1 DEF ClientInv, Waits, StartReady, StopReady
<1>5. Phases' BY <1>1 DEF ClientInv, Phases, RunningHasChild
<1>6. ContractStep
  <2>1. CASE process' = process
    BY <1>1, <2>1 DEF ContractStep, Contract!contract
  <2>2. CASE process \in {"alive", "dying"} /\ process' = "dead"
    <3>1. Contract!Exit BY <1>1, <2>2 DEF Contract!Exit
    <3> QED BY <3>1 DEF ContractStep, Contract!Next
  <2> QED BY <2>1, <2>2
<1> QED BY <1>2, <1>3, <1>4, <1>5, <1>6 DEF ClientInv, Table

LEMMA ServerKeepsMessages ==
  ASSUME ClientInv, Serve \/ Corrupt \/ Exit
  PROVE  Messages'
<1> USE LspClientBounds
<1>1. toServer \in Seq(ToServer) /\ toClient \in Seq(ToClient) BY DEF ClientInv, Messages
<1>2. CASE Serve
  <2>1. toServer # <<>> /\ toServer' = Tail(toServer) BY <1>2 DEF Serve
  <2>2. Head(toServer) \in ToServer /\ toServer' \in Seq(ToServer)
    BY <1>1, <2>1, HeadTailProperties
  <2> DEFINE m == Head(toServer)
  <2>3. m.id \in 0..MaxId BY <2>2 DEF ToServer
  <2> HIDE DEF m
  <2>4. \/ toClient' = toClient
        \/ \E answer \in {"ok", "error"} : toClient' = Append(toClient, [kind |-> answer, id |-> m.id])
    BY <1>2 DEF Serve, m
  <2>5. \A answer \in {"ok", "error"} : [kind |-> answer, id |-> m.id] \in ToClient
    BY <2>3 DEF ToClient
  <2>6. toClient' \in Seq(ToClient)
    <3>1. ASSUME NEW answer \in {"ok", "error"},
                 toClient' = Append(toClient, [kind |-> answer, id |-> m.id])
          PROVE  toClient' \in Seq(ToClient)
      <4>1. [kind |-> answer, id |-> m.id] \in ToClient BY <2>5
      <4> QED BY <1>1, <3>1, <4>1, AppendProperties
    <3> QED BY <1>1, <2>4, <3>1
  <2> QED BY <2>2, <2>6 DEF Messages
<1>3. CASE Corrupt
  <2>1. toClient' = Append(toClient, [kind |-> "garbage", id |-> 0]) /\ toServer' = toServer
    BY <1>3 DEF Corrupt
  <2>2. [kind |-> "garbage", id |-> 0] \in ToClient BY DEF ToClient
  <2> QED BY <1>1, <2>1, <2>2, AppendProperties DEF Messages
<1>4. CASE Exit
  BY <1>1, <1>4, EmptySeq DEF Exit, Messages
<1> QED BY <1>2, <1>3, <1>4

LEMMA Initially == Init => ClientInv /\ Contract!Init
<1> SUFFICES ASSUME Init PROVE ClientInv /\ Contract!Init
  OBVIOUS
<1>1. TypeOK
  <2>1. [method |-> "query", outcome |-> "unsent"] \in [method : Method, outcome : Outcome]
    BY DEF Method, Outcome
  <2>2. request \in [Id -> [method : Method, outcome : Outcome]] BY <2>1 DEF Init
  <2>3. nextRequestId \in 1..MaxId + 1 /\ starting \in 0..MaxId /\ shutdown \in 0..MaxId
    BY LspClientBounds DEF Init
  <2> QED BY <2>2, <2>3 DEF Init, TypeOK
<1>2. NoPromiseLost /\ GivenUpOnce /\ UnsentAbove
  BY DEF Init, NoPromiseLost, GivenUpOnce, UnsentAbove
<1>3. Messages BY EmptySeq DEF Init, Messages
<1>4. Waits BY QueuesDiffer DEF Init, Waits, StartReady, StopReady
<1>5. Phases BY DEF Init, Phases, RunningHasChild
<1>6. Contract!Init BY DEF Init, Contract!Init
<1> QED BY <1>1, <1>2, <1>3, <1>4, <1>5, <1>6 DEF ClientInv

LEMMA EveryStep ==
  ASSUME ClientInv, [Next]_vars
  PROVE  ClientInv' /\ ContractStep
<1>1. CASE Start BY <1>1, StartStep
<1>2. CASE Query BY <1>2, QueryStep
<1>3. CASE Stop BY <1>3, StopStep
<1>4. CASE ContinueStart BY <1>4, ContinueStartStep
<1>5. CASE ContinueStop BY <1>5, ContinueStopStep
<1>6. CASE \E i \in Id : Timeout(i) \/ Cancel(i)
  <2>1. PICK i \in Id, outcome \in {"timedOut", "cancelled"} : CancelPending(i, outcome)
    BY <1>6 DEF Timeout, Cancel
  <2> QED BY <2>1, CancelStep
<1>7. CASE Data BY <1>7, DataStep
<1>8. CASE SpawnError BY <1>8, SpawnErrorStep
<1>9. CASE Close BY <1>9, CloseStep
<1>10. CASE StopTimeout BY <1>10, StopTimeoutStep
<1>11. CASE Serve \/ Corrupt \/ Exit
  <2>1. UNCHANGED client BY <1>11 DEF Serve, Corrupt, Exit
  <2>2. process' = process \/ (process \in {"alive", "dying"} /\ process' = "dead")
    BY <1>11 DEF Serve, Corrupt, Exit
  <2> QED BY <1>11, <2>1, <2>2, ServerKeepsMessages, ServerStep
<1>12. CASE UNCHANGED vars
  <2>1. UNCHANGED client /\ process' = process /\ toServer' = toServer /\ toClient' = toClient
    BY <1>12 DEF vars, server
  <2>2. Messages' BY <2>1 DEF ClientInv, Messages
  <2> QED BY <2>1, <2>2, ServerStep
<1> QED BY <1>1, <1>2, <1>3, <1>4, <1>5, <1>6, <1>7, <1>8, <1>9, <1>10, <1>11, <1>12 DEF Next

-----------------------------------------------------------------------------
(* Theorems.                                                               *)

LEMMA Invariance == Spec => []ClientInv
<1>1. Init => ClientInv BY Initially
<1>2. ClientInv /\ [Next]_vars => ClientInv' BY EveryStep
<1> QED BY <1>1, <1>2, PTL DEF Spec

\* Every variable keeps its type.
THEOREM ClientTypes == Spec => []TypeOK
<1>1. ClientInv => TypeOK BY DEF ClientInv
<1> QED BY <1>1, Invariance, PTL

\* The open promises are exactly the entries of the table, through timeouts,
\* cancellations, garbage, crashes and overlapping start and stop.
THEOREM PromisesKept == Spec => []NoPromiseLost
<1>1. ClientInv => NoPromiseLost BY DEF ClientInv
<1> QED BY <1>1, Invariance, PTL

\* A request that is no longer in the table has no timer or subscription that
\* could fire, and the server was told to cancel it at most once, and only when
\* it timed out or was cancelled.
THEOREM GivenUp == Spec => []GivenUpOnce
<1>1. ClientInv => GivenUpOnce BY DEF ClientInv
<1> QED BY <1>1, Invariance, PTL

\* A client that reports running has its process attached.
THEOREM RunningAttached == Spec => []RunningHasChild
<1>1. ClientInv => RunningHasChild BY DEF ClientInv, Phases
<1> QED BY <1>1, Invariance, PTL

\* Every step of lsp-client.js is a step of the contract the extension relies
\* on, or none: start and stop settle only as it says, and stop returns only
\* once the process has ended.
THEOREM ContractSteps == Spec => Contract!Init /\ [][Contract!Next]_(Contract!contract)
<1>1. Init => Contract!Init BY Initially
<1>2. ClientInv /\ [Next]_vars => [Contract!Next]_(Contract!contract)
  BY EveryStep DEF ContractStep
<1> QED BY <1>1, <1>2, Invariance, PTL DEF Spec

=============================================================================
