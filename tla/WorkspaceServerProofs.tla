----------------------- MODULE WorkspaceServerProofs -----------------------
(***************************************************************************)
(* Proofs about WorkspaceServer, for every number of calls, clients,       *)
(* documents and versions: the extension knows what its current server     *)
(* holds, sends it nothing that it refuses, and keeps no client that has   *)
(* been stopped.                                                           *)
(***************************************************************************)
EXTENDS WorkspaceServer, SequenceTheorems, TLAPS

-----------------------------------------------------------------------------
(* The inductive invariant.                                                *)

\* A client not yet created is as it was at first.
FreshClients ==
  \A c \in Client : core[c].at = "idle" =>
    /\ process[c].is = "none" /\ process[c].start = "idle"
    /\ process[c].stop = "idle" /\ ~process[c].up

\* A server is told nothing before it is initialized.
NotInitialized ==
  \A c \in Client : process[c].start # "ok" =>
    ~process[c].up /\ held[c] = None /\ toServer[c] = <<>>

\* The current client is of the current generation.
CurrentGeneration ==
  client # None => core[client].generation = generation /\ ~disposed

\* Versions are remembered only of a running server whose start has gone on.
KnownOfRunning ==
  ~Running \/ core[client].at = "starting" => openVersion = 0

\* When a server has been initialized nothing else is ready to run before its
\* start goes on.
SucceedsFirst ==
  \A c \in Client : core[c].at = "starting" /\ process[c].start = "ok" =>
    /\ \A b \in Client \ {c} : ~CoreReady(b)
    /\ \A t \in Task : ~TaskReady(t)

OpenExists == open => documents > 0

ServerInv ==
  /\ TypeOK /\ OpenExists /\ FreshClients /\ NotInitialized
  /\ CurrentGeneration /\ CurrentIsKept /\ KnownOfRunning /\ SucceedsFirst
  /\ VersionsAreSent /\ NothingRefused

-----------------------------------------------------------------------------
(* Types.                                                                  *)

CoreRecord == [at : {"idle", "starting", "stopping", "finished", "done"}, generation : Nat]
TaskRecord == [kind : {"open", "query", "restart", "remove"},
               at : {"idle", "stopping", "starting", "again", "done"},
               on : Client \cup {None}, doc : Document, generation : Nat]
ProcessRecord == [is : {"none", "alive", "dying", "dead", "closed"},
                  start : {"idle", "pending", "ok", "failed"},
                  stop : {"idle", "pending", "done"}, up : BOOLEAN]
Message == [kind : {"open", "change", "close"}, text : Text]

ControllerTypes ==
  /\ client \in Client \cup {None} /\ startPromise \in Client \cup {None}
  /\ restartPromise \in Task \cup {None} /\ generation \in Nat /\ disposed \in BOOLEAN
  /\ openVersion \in 0..MaxVersion /\ shown \in Shown

EditorTypes ==
  /\ listening \in BOOLEAN /\ open \in BOOLEAN /\ documents \in 0..MaxDocument
  /\ version \in [Document -> Version]

ChannelTypes ==
  /\ held \in [Client -> Shown] /\ toServer \in [Client -> Seq(Message)]
  /\ toClient \in [Client -> Seq(Shown)]

LEMMA TypeParts ==
  TypeOK <=> /\ ControllerTypes /\ EditorTypes /\ ChannelTypes
             /\ core \in [Client -> CoreRecord] /\ task \in [Task -> TaskRecord]
             /\ process \in [Client -> ProcessRecord]
BY DEF TypeOK, ControllerTypes, EditorTypes, ChannelTypes, CoreRecord, TaskRecord,
       ProcessRecord, Message

LEMMA TypesNext ==
  /\ ControllerTypes' /\ EditorTypes' /\ ChannelTypes'
  /\ core' \in [Client -> CoreRecord] /\ task' \in [Task -> TaskRecord]
  /\ process' \in [Client -> ProcessRecord]
  => TypeOK'
BY DEF TypeOK, ControllerTypes, EditorTypes, ChannelTypes, CoreRecord, TaskRecord,
       ProcessRecord, Message

LEMMA Numbers ==
  /\ MaxTask \in Nat \ {0} /\ MaxClient \in Nat \ {0} /\ MaxDocument \in Nat \ {0}
  /\ MaxVersion \in Nat \ {0}
  /\ 1 \in Client /\ 1 \in Document /\ 1 \in Version
BY WorkspaceConstants DEF Client, Document, Version

LEMMA NoneApart == None \notin Nat /\ None \notin Client /\ None \notin Task /\ None \notin Text
<1>1. None \notin Nat /\ None \notin Nat \X Nat BY WorkspaceConstants
<1>2. Client \subseteq Nat /\ Task \subseteq Nat /\ Document \subseteq Nat /\ Version \subseteq Nat
  BY Numbers DEF Client, Task, Document, Version
<1>3. Text \subseteq Nat \X Nat BY <1>2 DEF Text
<1> QED BY <1>1, <1>2, <1>3

\* One entry of a table of records is replaced.
LEMMA Replaced ==
  ASSUME NEW D, NEW S, NEW f \in [D -> S], NEW d \in D, NEW r, NEW g, g = [f EXCEPT ![d] = r]
  PROVE  /\ g[d] = r /\ \A e \in D : e # d => g[e] = f[e]
         /\ r \in S => g \in [D -> S]
OBVIOUS

LEMMA WaitsTyped ==
  ASSUME task \in [Task -> TaskRecord], NEW t \in Task,
         NEW kind \in {"open", "query", "restart", "remove"},
         NEW at \in {"idle", "stopping", "starting", "again", "done"},
         NEW on \in Client \cup {None}, NEW doc \in Document, Waits(t, kind, at, doc, on)
  PROVE  task' \in [Task -> TaskRecord]
<1>1. PICK number \in Nat : number = task[t].generation BY DEF TaskRecord
<1>2. task' = [task EXCEPT ![t] = [kind |-> kind, at |-> at, on |-> on, doc |-> doc,
                                      generation |-> number]]
  BY <1>1 DEF Waits
<1> DEFINE r == [kind |-> kind, at |-> at, on |-> on, doc |-> doc, generation |-> number]
<1>3. r \in TaskRecord BY DEF TaskRecord
<1>4. task' = [task EXCEPT ![t] = r] BY <1>2
<1> HIDE DEF r
<1> QED BY <1>3, <1>4

LEMMA EndedTyped ==
  ASSUME task \in [Task -> TaskRecord], NEW t \in Task, Ended(t)
  PROVE  task' \in [Task -> TaskRecord]
<1> DEFINE kind == task[t].kind
<1>1. kind \in {"open", "query", "restart", "remove"} BY DEF TaskRecord
<1>2. task' = [task EXCEPT ![t] = [kind |-> kind, at |-> "done", on |-> None, doc |-> 1,
                                   generation |-> 0]]
  BY DEF Ended
<1> HIDE DEF kind
<1> DEFINE r == [kind |-> kind, at |-> "done", on |-> None, doc |-> 1, generation |-> 0]
<1>3. r \in TaskRecord BY <1>1, Numbers DEF TaskRecord
<1>4. task' = [task EXCEPT ![t] = r] BY <1>2
<1> HIDE DEF r
<1> QED BY <1>3, <1>4

\* The fields of a process that does not run, or that does.
LEMMA DownRecord ==
  ASSUME NEW is \in {"none", "alive", "dying", "dead", "closed"},
         NEW start \in {"idle", "pending", "ok", "failed"}, NEW stop \in {"idle", "pending", "done"},
         NEW r, r = [is |-> is, start |-> start, stop |-> stop, up |-> FALSE]
  PROVE  r \in ProcessRecord /\ r.is = is /\ r.start = start /\ r.stop = stop /\ ~r.up
BY DEF ProcessRecord

LEMMA UpRecord ==
  ASSUME NEW is \in {"none", "alive", "dying", "dead", "closed"},
         NEW start \in {"idle", "pending", "ok", "failed"}, NEW stop \in {"idle", "pending", "done"},
         NEW r, r = [is |-> is, start |-> start, stop |-> stop, up |-> TRUE]
  PROVE  r \in ProcessRecord /\ r.is = is /\ r.start = start /\ r.stop = stop /\ r.up
BY DEF ProcessRecord

\* The move of one start.
LEMMA CoreChanged ==
  ASSUME core \in [Client -> CoreRecord], NEW c \in Client,
         NEW at \in {"starting", "stopping", "finished", "done"},
         core' = [core EXCEPT ![c].at = at]
  PROVE  /\ core' \in [Client -> CoreRecord]
         /\ core'[c].at = at /\ core'[c].generation = core[c].generation
         /\ \A b \in Client : b # c => core'[b] = core[b]
BY DEF CoreRecord

LEMMA ProcessFields ==
  ASSUME process \in [Client -> ProcessRecord], NEW c \in Client
  PROVE  /\ process[c].is \in {"none", "alive", "dying", "dead", "closed"}
         /\ process[c].start \in {"idle", "pending", "ok", "failed"}
         /\ process[c].stop \in {"idle", "pending", "done"} /\ process[c].up \in BOOLEAN
BY DEF ProcessRecord

LEMMA StoppedChanges ==
  ASSUME process \in [Client -> ProcessRecord], NEW c \in Client, process' = Stopped(c)
  PROVE  /\ process' \in [Client -> ProcessRecord]
         /\ process'[c].is = process[c].is /\ process'[c].start = process[c].start
         /\ ~process'[c].up
         /\ \A b \in Client : b # c => process'[b] = process[b]
<1>1. PICK is \in {"none", "alive", "dying", "dead", "closed"}, start \in {"idle", "pending", "ok", "failed"},
           stop \in {"idle", "pending", "done"} :
        is = process[c].is /\ start = process[c].start /\ stop = IF Closed(c) THEN "done" ELSE "pending"
  BY ProcessFields
<1>2. PICK r : r = [is |-> is, start |-> start, stop |-> stop, up |-> FALSE] OBVIOUS
<1>3. process' = [process EXCEPT ![c] = r]
  <2>1. r = [is |-> is, start |-> start, up |-> FALSE, stop |-> stop] BY <1>2
  <2> QED BY <1>1, <2>1 DEF Stopped
<1>4. r \in ProcessRecord /\ r.is = is /\ r.start = start /\ ~r.up
  BY <1>2, DownRecord
<1>5. /\ process' \in [Client -> ProcessRecord] /\ process'[c] = r
      /\ \A b \in Client : b # c => process'[b] = process[b]
  BY <1>3, <1>4
<1> QED BY <1>1, <1>4, <1>5

-----------------------------------------------------------------------------
(* Messages to the servers.                                                *)

LEMMA ShownText ==
  ASSUME NEW text \in Shown, text # None
  PROVE  text \in Text /\ text[2] \in Nat \ {0} /\ text[2] <= MaxVersion
<1>1. text \in Document \X Version BY DEF Shown, Text
<1>2. text[2] \in Version BY <1>1
<1> QED BY <1>1, <1>2, Numbers DEF Text, Version

LEMMA AfterShown ==
  ASSUME ChannelTypes, NEW c \in Client, NEW k \in 0..Len(toServer[c])
  PROVE  After(c, k) \in Shown
<1>1. toServer[c] \in Seq(Message) /\ held[c] \in Shown BY DEF ChannelTypes
<1>2. CASE k = 0 BY <1>1, <1>2 DEF After
<1>3. CASE k # 0
  <2>1. k \in 1..Len(toServer[c]) BY <1>1, <1>3
  <2>2. toServer[c][k] \in Message BY <1>1, <2>1, ElementOfSeq
  <2>3. toServer[c][k].text \in Text BY <2>2 DEF Message
  <2> QED BY <1>3, <2>3 DEF After, Shown
<1> QED BY <1>2, <1>3

LEMMA AfterKept ==
  ASSUME NEW c, NEW k, toServer'[c] = toServer[c], held'[c] = held[c]
  PROVE  After(c, k)' = After(c, k)
BY DEF After

LEMMA AfterShifted ==
  ASSUME NEW c, NEW k \in Nat \ {0}, toServer'[c][k] = toServer[c][k + 1]
  PROVE  After(c, k)' = After(c, k + 1)
<1>1. k # 0 /\ k + 1 # 0 OBVIOUS
<1> QED BY <1>1 DEF After

\* What message m leaves if it is accepted.
Left(m) == IF m.kind = "close" THEN None ELSE m.text

\* A message that changes the store leaves what it says.
LEMMA HeldIsLeft ==
  ASSUME NEW text \in Shown, NEW m \in Message, Held(text, m) # text
  PROVE  Held(text, m) = Left(m)
<1>1. m.kind \in {"open", "change", "close"} BY DEF Message
<1>2. CASE m.kind = "open" BY <1>2 DEF Held, Left
<1>3. CASE m.kind = "change" BY <1>3 DEF Held, Left
<1>4. CASE m.kind = "close" BY <1>4 DEF Held, Left
<1> QED BY <1>1, <1>2, <1>3, <1>4

\* One more message to the server of c, which it will not refuse.
LEMMA Appended ==
  ASSUME ChannelTypes, NothingRefused, NEW c \in Client, NEW m \in Message,
         toServer' = [toServer EXCEPT ![c] = Append(@, m)], held' = held, toClient' = toClient,
         Held(After(c, Len(toServer[c])), m) # After(c, Len(toServer[c]))
  PROVE  /\ ChannelTypes' /\ NothingRefused'
         /\ After(c, Len(toServer[c]))' = Left(m)
         /\ \A b \in Client : b # c => toServer'[b] = toServer[b]
<1> DEFINE s == toServer[c]
<1>1. s \in Seq(Message) BY DEF ChannelTypes
<1>0. PICK n \in Nat : n = Len(s) BY <1>1
<1>2. toServer'[c] = Append(s, m) /\ \A b \in Client : b # c => toServer'[b] = toServer[b]
  BY DEF ChannelTypes
<1>3. /\ Append(s, m) \in Seq(Message) /\ Len(Append(s, m)) = n + 1 /\ n \in Nat
      /\ Append(s, m)[n + 1] = m /\ \A k \in 1..n : Append(s, m)[k] = s[k]
  BY <1>0, <1>1, AppendProperties
<1>4. ChannelTypes'
  <2>1. toServer' \in [Client -> Seq(Message)] BY <1>1, <1>3 DEF ChannelTypes
  <2> QED BY <2>1 DEF ChannelTypes
<1> HIDE DEF s
<1>5. \A k \in 0..n : After(c, k)' = After(c, k)
  BY <1>2, <1>3 DEF After, s
<1>6. After(c, n + 1)' = Left(m)
  BY <1>2, <1>3 DEF After, Left
<1>7. NothingRefused'
  <2> SUFFICES ASSUME NEW b \in Client, NEW k \in DOMAIN toServer'[b]
               PROVE  Held(After(b, k - 1)', toServer'[b][k]) # After(b, k - 1)'
    BY DEF NothingRefused
  <2>1. CASE b # c
    <3>1. toServer'[b] = toServer[b] BY <1>2, <2>1
    <3>2. After(b, k - 1)' = After(b, k - 1) BY <3>1 DEF After
    <3> QED BY <3>1, <3>2 DEF NothingRefused
  <2>2. CASE b = c /\ k = n + 1
    <3>1. After(c, n)' = After(c, n) /\ toServer'[c][n + 1] = m BY <1>2, <1>3, <1>5
    <3> QED BY <1>0, <1>3, <2>2, <3>1 DEF s
  <2>3. CASE b = c /\ k # n + 1
    <3>1. k \in 1..n /\ k \in DOMAIN s BY <1>0, <1>1, <1>2, <1>3, <2>3
    <3>2. toServer'[c][k] = s[k] /\ After(c, k - 1)' = After(c, k - 1)
      BY <1>2, <1>3, <1>5, <3>1
    <3>3. Held(After(c, k - 1), s[k]) # After(c, k - 1) BY <3>1 DEF NothingRefused, s
    <3> QED BY <2>3, <3>2, <3>3
  <2> QED BY <2>1, <2>2, <2>3
<1>8. Len(toServer'[c]) = n + 1 BY <1>2, <1>3
<1>9. After(c, Len(toServer[c]))' = Left(m) BY <1>6, <1>8
<1> QED BY <1>2, <1>4, <1>7, <1>9

\* The server of c reads its first message.
LEMMA FirstRead ==
  ASSUME ChannelTypes, NothingRefused, NEW c \in Client, toServer[c] # <<>>,
         toServer' = [toServer EXCEPT ![c] = Tail(@)],
         held' = [held EXCEPT ![c] = Held(held[c], Head(toServer[c]))]
  PROVE  /\ held'[c] \in Shown /\ held' \in [Client -> Shown]
         /\ toServer' \in [Client -> Seq(Message)] /\ NothingRefused'
         /\ After(c, Len(toServer[c]))' = After(c, Len(toServer[c]))
         /\ \A b \in Client : b # c => toServer'[b] = toServer[b] /\ held'[b] = held[b]
<1> DEFINE s == toServer[c]
           h == Held(held[c], Head(s))
<1>1. s \in Seq(Message) /\ held[c] \in Shown BY DEF ChannelTypes
<1>0. PICK n \in Nat : n = Len(s) BY <1>1
<1>2. /\ n \in Nat /\ n > 0 /\ Head(s) = s[1] /\ s[1] \in Message
      /\ Tail(s) \in Seq(Message) /\ Len(Tail(s)) = n - 1
      /\ \A k \in 1..n - 1 : Tail(s)[k] = s[k + 1]
  BY <1>0, <1>1, HeadTailProperties, ElementOfSeq
<1>3. /\ toServer'[c] = Tail(s) /\ held'[c] = h
      /\ \A b \in Client : b # c => toServer'[b] = toServer[b] /\ held'[b] = held[b]
  BY DEF ChannelTypes
<1>4. h = Left(s[1]) /\ Left(s[1]) = After(c, 1)
  <2>1. 1 \in DOMAIN s BY <1>0, <1>1, <1>2
  <2>2. Held(After(c, 0), s[1]) # After(c, 0) BY <2>1 DEF NothingRefused
  <2>3. After(c, 0) = held[c] BY DEF After
  <2>4. h = Left(s[1]) BY <1>1, <1>2, <2>2, <2>3, HeldIsLeft
  <2> QED BY <2>4 DEF After, Left
<1>5. h \in Shown
  <2>1. 1 \in 0..Len(toServer[c]) BY <1>0, <1>2
  <2> QED BY <1>4, <2>1, AfterShown
<1>6. held' \in [Client -> Shown] /\ toServer' \in [Client -> Seq(Message)]
  BY <1>2, <1>5 DEF ChannelTypes
<1> HIDE DEF s, h
<1>7. \A k \in 0..n - 1 : After(c, k)' = After(c, k + 1)
  <2> SUFFICES ASSUME NEW k \in 0..n - 1 PROVE After(c, k)' = After(c, k + 1)
    OBVIOUS
  <2>1. CASE k = 0 BY <1>3, <1>4, <2>1 DEF After
  <2>2. CASE k # 0
    <3>1. k \in 1..n - 1 /\ k + 1 # 0 BY <1>2, <2>2
    <3>2. toServer'[c][k] = toServer[c][k + 1] BY <1>2, <1>3, <3>1 DEF s
    <3>3. k \in Nat \ {0} BY <3>1
    <3> QED BY <3>2, <3>3, AfterShifted
  <2> QED BY <2>1, <2>2
<1>8. After(c, Len(toServer[c]))' = After(c, Len(toServer[c]))
  <2>1. Len(toServer'[c]) = n - 1 /\ n - 1 \in 0..n - 1 /\ n - 1 + 1 = n BY <1>2, <1>3
  <2>2. After(c, n - 1)' = After(c, n) BY <1>7, <2>1
  <2> QED BY <1>0, <2>1, <2>2 DEF s
<1>9. NothingRefused'
  <2> SUFFICES ASSUME NEW b \in Client, NEW k \in DOMAIN toServer'[b]
               PROVE  Held(After(b, k - 1)', toServer'[b][k]) # After(b, k - 1)'
    BY DEF NothingRefused
  <2>1. CASE b # c
    <3>1. toServer'[b] = toServer[b] /\ held'[b] = held[b] BY <1>3, <2>1
    <3>2. After(b, k - 1)' = After(b, k - 1) BY <3>1, AfterKept
    <3> QED BY <3>1, <3>2 DEF NothingRefused
  <2>2. CASE b = c
    <3>1. k \in 1..n - 1 /\ k + 1 \in DOMAIN s /\ k - 1 \in 0..n - 1 /\ k - 1 + 1 = k /\ k + 1 - 1 = k
      BY <1>0, <1>1, <1>2, <1>3, <2>2
    <3>2. After(c, k - 1)' = After(c, k) BY <1>7, <3>1
    <3>3. toServer'[c][k] = s[k + 1] BY <1>2, <1>3, <3>1
    <3>4. Held(After(c, k + 1 - 1), s[k + 1]) # After(c, k + 1 - 1)
      BY <3>1 DEF NothingRefused, s
    <3> QED BY <2>2, <3>1, <3>2, <3>3, <3>4
  <2> QED BY <2>1, <2>2
<1> QED BY <1>3, <1>5, <1>6, <1>8, <1>9

-----------------------------------------------------------------------------
(* What the parts of several actions do.                                   *)

LEMMA InvTypes ==
  ASSUME ServerInv
  PROVE  /\ ControllerTypes /\ EditorTypes /\ ChannelTypes
         /\ core \in [Client -> CoreRecord] /\ task \in [Task -> TaskRecord]
         /\ process \in [Client -> ProcessRecord]
BY TypeParts DEF ServerInv

\* No start waits to go on after a success.
NonePending == \A c \in Client : ~(core[c].at = "starting" /\ process[c].start = "ok")

LEMMA IdleNone == ASSUME Idle PROVE NonePending
BY DEF Idle, CoreReady, NonePending

LEMMA ReadyNone ==
  ASSUME SucceedsFirst,
         \/ \E t \in Task : TaskReady(t)
         \/ \E b \in Client : CoreReady(b) /\ ~(core[b].at = "starting" /\ process[b].start = "ok")
  PROVE  NonePending
BY DEF SucceedsFirst, NonePending

LEMMA NoneFirst == NonePending' => SucceedsFirst'
BY DEF NonePending, SucceedsFirst

\* The pipes are left alone, and the current client runs only if it did before.
LEMMA PipesLeft ==
  ASSUME VersionsAreSent, NothingRefused, held' = held, toServer' = toServer,
         Running' /\ Alive(client)' =>
           Running /\ Alive(client) /\ client' = client /\ openVersion' = openVersion
  PROVE  VersionsAreSent' /\ NothingRefused'
<1>1. \A c, k : After(c, k)' = After(c, k) BY AfterKept
<1>2. NothingRefused' BY <1>1 DEF NothingRefused
<1>3. VersionsAreSent'
  <2> SUFFICES ASSUME Running', Alive(client)'
               PROVE  openVersion' = LET text == After(client, Len(toServer[client]))'
                                     IN IF text = None THEN 0 ELSE text[2]
    BY DEF VersionsAreSent
  <2>1. client' = client /\ openVersion' = openVersion /\ Running /\ Alive(client) OBVIOUS
  <2>2. After(client, Len(toServer[client]))' = After(client, Len(toServer[client]))
    BY <2>1 DEF After
  <2> QED BY <2>1, <2>2 DEF VersionsAreSent
<1> QED BY <1>2, <1>3

\* The parts of the invariant that do not speak of types.
SafetyParts ==
  /\ FreshClients /\ NotInitialized /\ CurrentGeneration /\ CurrentIsKept
  /\ KnownOfRunning /\ SucceedsFirst /\ VersionsAreSent /\ NothingRefused

\* The current client is one that was created.
LEMMA CurrentCreated ==
  ASSUME ServerInv, client # None
  PROVE  client \in Client /\ core[client].at # "idle" /\ process[client].is # "none"
BY InvTypes DEF ServerInv, ControllerTypes, CurrentIsKept, Closed, FreshClients

LEMMA StartServerStep ==
  ASSUME ServerInv, NonePending, NEW t \in Task,
         NEW kind \in {"open", "query", "restart", "remove"},
         NEW at \in {"idle", "stopping", "starting", "again", "done"}, NEW doc \in Document,
         StartServer(t, kind, at, doc),
         UNCHANGED <<generation, disposed, openVersion, held, toServer>>
  PROVE  /\ client' \in Client \cup {None} /\ startPromise' \in Client \cup {None}
         /\ core' \in [Client -> CoreRecord] /\ task' \in [Task -> TaskRecord]
         /\ process' \in [Client -> ProcessRecord] /\ SafetyParts'
<1>1. /\ client \in Client \cup {None} /\ startPromise \in Client \cup {None}
      /\ core \in [Client -> CoreRecord] /\ task \in [Task -> TaskRecord]
      /\ process \in [Client -> ProcessRecord] /\ generation \in Nat
  BY InvTypes DEF ControllerTypes
<1>2. CASE \E on \in Client \cup {None} :
             Waits(t, kind, at, doc, on) /\ UNCHANGED <<client, startPromise, core, process>>
  <2>1. PICK on \in Client \cup {None} : Waits(t, kind, at, doc, on) BY <1>2
  <2>2. task' \in [Task -> TaskRecord] BY <1>1, <2>1, WaitsTyped
  <2>3. client' = client /\ core' = core /\ process' = process /\ startPromise' = startPromise
    BY <1>2
  <2>4. FreshClients' /\ NotInitialized' /\ CurrentGeneration' /\ CurrentIsKept'
    BY <2>3 DEF ServerInv, FreshClients, NotInitialized, CurrentGeneration, CurrentIsKept, Closed
  <2>5. KnownOfRunning' BY <2>3 DEF ServerInv, KnownOfRunning, Running
  <2>6. SucceedsFirst' BY <2>3, NoneFirst DEF NonePending
  <2>7. VersionsAreSent' /\ NothingRefused'
    BY <2>3, PipesLeft DEF ServerInv, Running, Alive
  <2> QED BY <1>1, <2>2, <2>3, <2>4, <2>5, <2>6, <2>7 DEF SafetyParts
<1>3. CASE ~disposed /\ ~Running /\ startPromise = None /\
           \E c \in Fresh :
             /\ client' = c /\ startPromise' = c
             /\ core' = [core EXCEPT ![c] = [at |-> "starting", generation |-> generation]]
             /\ process' = [process EXCEPT ![c] = [is |-> "alive", start |-> "pending",
                                                   stop |-> "idle", up |-> FALSE]]
             /\ Waits(t, kind, at, doc, c)
  <2>1. PICK c \in Fresh :
             /\ client' = c /\ startPromise' = c
             /\ core' = [core EXCEPT ![c] = [at |-> "starting", generation |-> generation]]
             /\ process' = [process EXCEPT ![c] = [is |-> "alive", start |-> "pending",
                                                   stop |-> "idle", up |-> FALSE]]
             /\ Waits(t, kind, at, doc, c)
    BY <1>3
  <2>2. c \in Client /\ core[c].at = "idle" BY DEF Fresh
  <2>3. task' \in [Task -> TaskRecord] BY <1>1, <2>1, <2>2, WaitsTyped
  <2>4. PICK r : r = [is |-> "alive", start |-> "pending", stop |-> "idle", up |-> FALSE] OBVIOUS
  <2>5. /\ r \in ProcessRecord /\ r.is = "alive" /\ r.start = "pending" /\ r.stop = "idle"
        /\ ~r.up
    BY <2>4, DownRecord
  <2>6. /\ process' \in [Client -> ProcessRecord] /\ process'[c] = r
        /\ \A b \in Client : b # c => process'[b] = process[b]
    BY <1>1, <2>1, <2>2, <2>4, <2>5
  <2>7. /\ core' \in [Client -> CoreRecord] /\ core'[c].at = "starting"
        /\ core'[c].generation = generation
        /\ \A b \in Client : b # c => core'[b] = core[b]
    <3> DEFINE s == [at |-> "starting", generation |-> generation]
    <3>1. s \in CoreRecord /\ s.at = "starting" /\ s.generation = generation
      BY <1>1 DEF CoreRecord
    <3>2. core' = [core EXCEPT ![c] = s] BY <2>1
    <3> HIDE DEF s
    <3> QED BY <1>1, <2>2, <3>1, <3>2
  <2>8. openVersion = 0 BY <1>3 DEF ServerInv, KnownOfRunning
  <2>9. FreshClients' BY <2>6, <2>7 DEF ServerInv, FreshClients
  <2>10. NotInitialized'
    <3>1. process[c].start # "ok" BY <2>2 DEF ServerInv, FreshClients
    <3>2. held[c] = None /\ toServer[c] = <<>> BY <2>2, <3>1 DEF ServerInv, NotInitialized
    <3> QED BY <2>5, <2>6, <3>2 DEF ServerInv, NotInitialized
  <2>11. CurrentGeneration' BY <1>3, <2>1, <2>7 DEF CurrentGeneration
  <2>12. CurrentIsKept' BY <2>1, <2>5, <2>6 DEF CurrentIsKept, Closed
  <2>13. KnownOfRunning' BY <2>8 DEF KnownOfRunning
  <2>14. NonePending' BY <2>5, <2>6, <2>7 DEF NonePending
  <2>15. ~Running' BY <2>1, <2>5, <2>6 DEF Running
  <2>16. VersionsAreSent' /\ NothingRefused' BY <2>15, PipesLeft DEF ServerInv
  <2> QED BY <2>1, <2>2, <2>3, <2>6, <2>7, <2>9, <2>10, <2>11, <2>12, <2>13, <2>14, <2>16,
             NoneFirst DEF SafetyParts
<1> QED BY <1>1, <1>2, <1>3 DEF StartServer

LEMMA DidOpenStep ==
  ASSUME ServerInv, NEW text \in Text, DidOpen(text),
         UNCHANGED <<client, process, held, toClient>>
  PROVE  /\ openVersion' \in 0..MaxVersion /\ ChannelTypes'
         /\ NotInitialized' /\ VersionsAreSent' /\ NothingRefused'
         /\ ~Running => openVersion' = openVersion
<1>1. /\ client \in Client \cup {None} /\ openVersion \in 0..MaxVersion /\ ChannelTypes
      /\ process \in [Client -> ProcessRecord]
  BY InvTypes DEF ControllerTypes
<1>2. CASE ~(Running /\ text[2] > openVersion)
  <2>1. toServer' = toServer /\ openVersion' = openVersion BY <1>2 DEF DidOpen
  <2>2. ChannelTypes' /\ NotInitialized'
    BY <1>1, <2>1 DEF ChannelTypes, ServerInv, NotInitialized
  <2>3. VersionsAreSent' /\ NothingRefused'
    BY <2>1, PipesLeft DEF ServerInv, Running, Alive
  <2> QED BY <1>1, <2>1, <2>2, <2>3
<1>3. CASE Running /\ text[2] > openVersion
  <2> DEFINE kind == IF openVersion = 0 THEN "open" ELSE "change"
  <2>1. Notified(kind, text) /\ openVersion' = text[2] BY <1>3 DEF DidOpen
  <2>2. client \in Client /\ process[client].up BY <1>1, <1>3 DEF Running
  <2>3. text \in Shown /\ text # None BY NoneApart DEF Shown
  <2>4. text[2] \in Nat \ {0} /\ text[2] <= MaxVersion BY <2>3, ShownText
  <2>5. openVersion' \in 0..MaxVersion BY <2>1, <2>4, Numbers
  <2>6. process[client].start = "ok" BY <2>2 DEF ServerInv, NotInitialized
  <2>7. CASE ~Alive(client)
    <3>1. toServer' = toServer BY <2>1, <2>7 DEF Notified
    <3>2. ChannelTypes' /\ NotInitialized'
      BY <1>1, <3>1 DEF ChannelTypes, ServerInv, NotInitialized
    <3>3. VersionsAreSent' /\ NothingRefused'
      BY <2>7, <3>1, PipesLeft DEF ServerInv, Running, Alive
    <3> QED BY <1>3, <2>5, <3>2, <3>3
  <2>8. CASE Alive(client)
    <3> DEFINE m == [kind |-> kind, text |-> text]
               before == After(client, Len(toServer[client]))
    <3>1. toServer' = [toServer EXCEPT ![client] = Append(@, m)] BY <2>1, <2>8 DEF Notified
    <3>2. m \in Message /\ m.kind = kind /\ m.text = text BY DEF Message
    <3>3. openVersion = IF before = None THEN 0 ELSE before[2]
      BY <1>3, <2>8 DEF ServerInv, VersionsAreSent
    <3>4. before \in Shown
      <4>1. toServer[client] \in Seq(Message) BY <1>1, <2>2 DEF ChannelTypes
      <4>2. Len(toServer[client]) \in 0..Len(toServer[client]) BY <4>1
      <4> QED BY <1>1, <2>2, <4>2, AfterShown
    <3> HIDE DEF m, before
    <3>5. Held(before, m) # before
      <4>1. CASE openVersion = 0
        <5>1. before = None BY <3>3, <3>4, <4>1, ShownText
        <5>2. m.kind = "open" BY <3>2, <4>1
        <5> QED BY <2>3, <3>2, <5>1, <5>2 DEF Held
      <4>2. CASE openVersion # 0
        <5>1. before # None /\ openVersion = before[2] BY <3>3, <4>2
        <5>2. m.kind = "change" BY <3>2, <4>2
        <5>3. before[2] \in Nat /\ m.text[2] > before[2] BY <1>3, <3>2, <3>4, <5>1, ShownText
        <5>4. Held(before, m) = text BY <3>2, <5>1, <5>2, <5>3 DEF Held
        <5>5. before # text BY <2>4, <3>2, <5>3
        <5> QED BY <5>4, <5>5
      <4> QED BY <4>1, <4>2
    <3>6. /\ ChannelTypes' /\ NothingRefused'
          /\ After(client, Len(toServer[client]))' = Left(m)
          /\ \A b \in Client : b # client => toServer'[b] = toServer[b]
      <4> PICK c \in Client : c = client BY <2>2
      <4>1. toServer' = [toServer EXCEPT ![c] = Append(@, m)] BY <3>1
      <4>2. Held(After(c, Len(toServer[c])), m) # After(c, Len(toServer[c]))
        BY <3>5 DEF before
      <4>3. /\ ChannelTypes' /\ NothingRefused' /\ After(c, Len(toServer[c]))' = Left(m)
            /\ \A b \in Client : b # c => toServer'[b] = toServer[b]
        BY <1>1, <3>2, <4>1, <4>2, Appended DEF ServerInv
      <4>4. client' = c OBVIOUS
      <4> QED BY <4>3, <4>4
    <3>7. Left(m) = text
      <4>1. m.kind # "close" BY <3>2
      <4> QED BY <3>2, <4>1 DEF Left
    <3>8. VersionsAreSent' BY <2>1, <2>3, <3>6, <3>7 DEF VersionsAreSent
    <3>9. NotInitialized' BY <2>6, <3>6 DEF ServerInv, NotInitialized
    <3> QED BY <1>3, <2>5, <3>6, <3>8, <3>9
  <2> QED BY <2>7, <2>8
<1> QED BY <1>2, <1>3

LEMMA StopServerStep ==
  ASSUME ServerInv, NonePending, StopServer, UNCHANGED <<core, held, toServer>>
  PROVE  /\ client' = None /\ generation' \in Nat /\ openVersion' \in 0..MaxVersion
         /\ shown' \in Shown /\ process' \in [Client -> ProcessRecord] /\ SafetyParts'
<1>1. /\ client \in Client \cup {None} /\ generation \in Nat /\ shown \in Shown
      /\ process \in [Client -> ProcessRecord]
  BY InvTypes DEF ControllerTypes
<1>2. /\ client' = None /\ generation' = generation + 1 /\ openVersion' = 0
      /\ shown' \in {None, shown}
      /\ process' = IF client = None THEN process ELSE Stopped(client)
  BY DEF StopServer, Forgotten
<1>3. /\ process' \in [Client -> ProcessRecord]
      /\ \A c \in Client : process'[c] # process[c] => core[c].at # "idle"
      /\ \A c \in Client : process'[c].start = process[c].start /\ (process'[c].up => process[c].up)
  <2>1. CASE client = None BY <1>1, <1>2, <2>1
  <2>2. CASE client # None
    <3>1. PICK c \in Client : c = client BY <1>1, <2>2
    <3>2. core[c].at # "idle" BY <2>2, <3>1, CurrentCreated
    <3>3. process' = Stopped(c) BY <1>2, <2>2, <3>1
    <3>4. /\ process' \in [Client -> ProcessRecord] /\ process'[c].start = process[c].start
          /\ ~process'[c].up /\ \A b \in Client : b # c => process'[b] = process[b]
      BY <1>1, <3>3, StoppedChanges
    <3> QED BY <3>2, <3>4
  <2> QED BY <2>1, <2>2
<1>4. FreshClients' BY <1>3 DEF ServerInv, FreshClients
<1>5. NotInitialized' BY <1>3 DEF ServerInv, NotInitialized
<1>6. CurrentGeneration' /\ CurrentIsKept' /\ ~Running' /\ KnownOfRunning'
  BY <1>2 DEF CurrentGeneration, CurrentIsKept, Running, KnownOfRunning
<1>7. NonePending' BY <1>3 DEF NonePending
<1>8. VersionsAreSent' /\ NothingRefused' BY <1>6, PipesLeft DEF ServerInv
<1>9. 0 \in 0..MaxVersion BY Numbers
<1> QED BY <1>1, <1>2, <1>3, <1>4, <1>5, <1>6, <1>7, <1>8, <1>9, NoneFirst DEF SafetyParts, Shown

-----------------------------------------------------------------------------
(* One lemma for each action.                                              *)

\* Steps that leave the current client, the processes and the pipes alone.
LEMMA QuietStep ==
  ASSUME ServerInv, NonePending, TypeOK',
         UNCHANGED <<client, generation, disposed, openVersion, open, documents, process, held,
                     toServer>>,
         \A c \in Client : /\ core'[c].generation = core[c].generation
                           /\ core'[c].at = "starting" => core[c].at = "starting"
                           /\ core'[c].at = "idle" => core[c].at = "idle"
  PROVE  ServerInv'
<1>1. FreshClients' /\ NotInitialized' /\ OpenExists'
  BY DEF ServerInv, FreshClients, NotInitialized, OpenExists
<1>2. client \in Client \cup {None} BY InvTypes DEF ControllerTypes
<1>3. CurrentGeneration' /\ CurrentIsKept'
  BY <1>2 DEF ServerInv, CurrentGeneration, CurrentIsKept, Closed
<1>4. KnownOfRunning'
  BY <1>2 DEF ServerInv, KnownOfRunning, Running
<1>5. SucceedsFirst' BY NoneFirst DEF NonePending
<1>6. VersionsAreSent' /\ NothingRefused' BY PipesLeft DEF ServerInv, Running, Alive
<1> QED BY <1>1, <1>3, <1>4, <1>5, <1>6 DEF ServerInv

LEMMA StopOfStartStep ==
  ASSUME ServerInv, NEW c \in Client, StopOfStart(c) PROVE ServerInv'
<1>1. /\ core[c].at = "stopping" /\ process[c].stop = "done"
      /\ core' = [core EXCEPT ![c].at = "finished"]
      /\ UNCHANGED <<controller, editor, task, process, channels>>
  BY DEF StopOfStart
<1>2. NonePending BY <1>1, ReadyNone DEF ServerInv, CoreReady
<1>3. /\ core' \in [Client -> CoreRecord]
      /\ core'[c].at = "finished" /\ core'[c].generation = core[c].generation
      /\ \A b \in Client : b # c => core'[b] = core[b]
  BY <1>1, InvTypes, CoreChanged
<1>4. TypeOK'
  BY <1>1, <1>3, InvTypes, TypesNext
  DEF controller, editor, channels, ControllerTypes, EditorTypes, ChannelTypes
<1> QED BY <1>1, <1>2, <1>3, <1>4, QuietStep DEF controller, editor, channels

LEMMA StartEndsStep ==
  ASSUME ServerInv, NEW c \in Client, StartEnds(c) PROVE ServerInv'
<1>1. /\ core[c].at = "finished" /\ startPromise' = None
      /\ core' = [core EXCEPT ![c].at = "done"]
      /\ UNCHANGED <<client, restartPromise, generation, disposed, openVersion, shown,
                     editor, task, process, channels>>
  BY DEF StartEnds
<1>2. NonePending BY <1>1, ReadyNone DEF ServerInv, CoreReady
<1>3. /\ core' \in [Client -> CoreRecord]
      /\ core'[c].at = "done" /\ core'[c].generation = core[c].generation
      /\ \A b \in Client : b # c => core'[b] = core[b]
  BY <1>1, InvTypes, CoreChanged
<1>4. TypeOK'
  BY <1>1, <1>3, InvTypes, TypesNext
  DEF editor, channels, ControllerTypes, EditorTypes, ChannelTypes
<1> QED BY <1>1, <1>2, <1>3, <1>4, QuietStep DEF editor, channels

\* Steps that only end a call.
LEMMA EndedStep ==
  ASSUME ServerInv, NEW t \in Task, TaskReady(t), Ended(t),
         restartPromise' \in Task \cup {None},
         UNCHANGED <<client, startPromise, generation, disposed, openVersion, shown,
                     editor, core, process, channels>>
  PROVE  ServerInv'
<1>1. NonePending BY ReadyNone DEF ServerInv
<1>2. task' \in [Task -> TaskRecord] BY InvTypes, EndedTyped
<1>3. TypeOK'
  BY <1>2, InvTypes, TypesNext
  DEF editor, channels, ControllerTypes, EditorTypes, ChannelTypes
<1> QED BY <1>1, <1>3, QuietStep DEF editor, channels

\* A call of start(), with what it leaves alone.
LEMMA CallsStart ==
  ASSUME ServerInv, NonePending, NEW t \in Task,
         NEW kind \in {"open", "query", "restart", "remove"},
         NEW at \in {"idle", "stopping", "starting", "again", "done"}, NEW doc \in Document,
         StartServer(t, kind, at, doc), EditorTypes', OpenExists',
         UNCHANGED <<restartPromise, generation, disposed, openVersion, shown, channels>>
  PROVE  ServerInv'
<1>1. UNCHANGED <<generation, disposed, openVersion, held, toServer, toClient>> BY DEF channels
<1>2. /\ client' \in Client \cup {None} /\ startPromise' \in Client \cup {None}
      /\ core' \in [Client -> CoreRecord] /\ task' \in [Task -> TaskRecord]
      /\ process' \in [Client -> ProcessRecord] /\ SafetyParts'
  BY <1>1, StartServerStep
<1>3. ControllerTypes' /\ ChannelTypes'
  BY <1>1, <1>2, InvTypes DEF ControllerTypes, ChannelTypes
<1>4. TypeOK' BY <1>2, <1>3, InvTypes, TypesNext
<1> QED BY <1>2, <1>4 DEF SafetyParts, ServerInv

LEMMA DocumentsTyped ==
  ASSUME ServerInv, open PROVE documents \in Document /\ TextOf(documents) \in Text
<1>1. documents \in 0..MaxDocument /\ version \in [Document -> Version]
  BY InvTypes DEF EditorTypes
<1>2. documents > 0 BY DEF ServerInv, OpenExists
<1>3. documents \in Document BY <1>1, <1>2, Numbers DEF Document
<1> QED BY <1>1, <1>3 DEF TextOf, Text

LEMMA RestartStartsStep ==
  ASSUME ServerInv, NEW t \in Task, RestartStarts(t) PROVE ServerInv'
<1>1. /\ TaskReady(t)
      /\ UNCHANGED <<generation, disposed, openVersion, shown, editor, channels>>
  BY DEF RestartStarts
<1>2. CASE disposed
  BY <1>1, <1>2, EndedStep DEF RestartStarts
<1>3. CASE ~disposed
  <2>1. StartServer(t, "restart", "starting", 1) /\ restartPromise' = restartPromise
    BY <1>3 DEF RestartStarts
  <2>2. NonePending BY <1>1, ReadyNone DEF ServerInv
  <2>3. EditorTypes' /\ OpenExists'
    BY <1>1, InvTypes DEF editor, EditorTypes, ServerInv, OpenExists
  <2> QED BY <1>1, <2>1, <2>2, <2>3, CallsStart, Numbers
<1> QED BY <1>2, <1>3

LEMMA QueryStartsStep ==
  ASSUME ServerInv, NEW t \in Task, QueryStarts(t) PROVE ServerInv'
<1>1. /\ TaskReady(t) /\ StartServer(t, "query", "again", task[t].doc)
      /\ UNCHANGED <<restartPromise, generation, disposed, openVersion, shown, editor, channels>>
  BY DEF QueryStarts
<1>2. NonePending BY <1>1, ReadyNone DEF ServerInv
<1>3. EditorTypes' /\ OpenExists'
  BY <1>1, InvTypes DEF editor, EditorTypes, ServerInv, OpenExists
<1>4. PICK doc \in Document : doc = task[t].doc BY InvTypes DEF TaskRecord
<1> QED BY <1>1, <1>2, <1>3, <1>4, CallsStart

LEMMA DocumentSentStep ==
  ASSUME ServerInv, NEW t \in Task, DocumentSent(t) PROVE ServerInv'
<1>1. /\ TaskReady(t) /\ Ended(t)
      /\ UNCHANGED <<client, startPromise, restartPromise, generation, disposed, shown,
                     editor, core, process, held, toClient>>
  BY DEF DocumentSent
<1>2. CASE UNCHANGED <<toServer, openVersion>>
  <2>1. restartPromise' \in Task \cup {None} BY <1>1, InvTypes DEF ControllerTypes
  <2> QED BY <1>1, <1>2, <2>1, EndedStep DEF channels
<1>3. CASE DidOpen(TextOf(task[t].doc))
  <2>1. NonePending BY <1>1, ReadyNone DEF ServerInv
  <2>2. PICK text \in Text : text = TextOf(task[t].doc)
    <3>1. task[t].doc \in Document BY InvTypes DEF TaskRecord
    <3>2. version[task[t].doc] \in Version BY <3>1, InvTypes DEF EditorTypes
    <3> QED BY <3>1, <3>2 DEF TextOf, Text
  <2>3. DidOpen(text) BY <1>3, <2>2
  <2>4. /\ openVersion' \in 0..MaxVersion /\ ChannelTypes'
        /\ NotInitialized' /\ VersionsAreSent' /\ NothingRefused'
        /\ ~Running => openVersion' = openVersion
    BY <1>1, <2>3, DidOpenStep
  <2>5. task' \in [Task -> TaskRecord] BY <1>1, InvTypes, EndedTyped
  <2>6. TypeOK'
    BY <1>1, <2>4, <2>5, InvTypes, TypesNext DEF editor, ControllerTypes, EditorTypes
  <2>7. FreshClients' /\ CurrentGeneration' /\ CurrentIsKept' /\ OpenExists'
    BY <1>1 DEF ServerInv, FreshClients, CurrentGeneration, CurrentIsKept, Closed, OpenExists, editor
  <2>8. KnownOfRunning'
    <3>1. SUFFICES ASSUME ~Running \/ core[client].at = "starting" PROVE openVersion' = 0
      BY <1>1 DEF KnownOfRunning, Running
    <3>2. Running => client \in Client /\ process[client].up /\ process[client].start = "ok"
      BY InvTypes DEF Running, ControllerTypes, ServerInv, NotInitialized
    <3>3. ~Running BY <2>1, <3>1, <3>2 DEF NonePending
    <3> QED BY <2>4, <3>3 DEF ServerInv, KnownOfRunning
  <2>9. SucceedsFirst' BY <1>1, <2>1, NoneFirst DEF NonePending
  <2> QED BY <2>4, <2>6, <2>7, <2>8, <2>9 DEF ServerInv
<1> QED BY <1>2, <1>3 DEF DocumentSent

\* A start goes on to stop its client, which is not the current one any more.
LEMMA StartStops ==
  ASSUME ServerInv, NEW c \in Client, core[c].at = "starting", CoreReady(c),
         core' = [core EXCEPT ![c].at = "stopping"], process' = Stopped(c),
         client' = IF client = c THEN None ELSE client,
         UNCHANGED <<startPromise, restartPromise, generation, disposed, openVersion, shown,
                     editor, task, channels>>
  PROVE  ServerInv'
<1>1. /\ core' \in [Client -> CoreRecord] /\ core'[c].at = "stopping"
      /\ core'[c].generation = core[c].generation
      /\ \A b \in Client : b # c => core'[b] = core[b]
  BY InvTypes, CoreChanged
<1>2. /\ process' \in [Client -> ProcessRecord] /\ process'[c].start = process[c].start
      /\ ~process'[c].up /\ \A b \in Client : b # c => process'[b] = process[b]
  BY InvTypes, StoppedChanges
<1>3. client \in Client \cup {None} /\ client' \in Client \cup {None}
  BY InvTypes DEF ControllerTypes
<1>4. client' # None => client' = client /\ client # c /\ client \in Client BY <1>3
<1>5. TypeOK'
  BY <1>1, <1>2, <1>3, InvTypes, TypesNext
  DEF editor, channels, ControllerTypes, EditorTypes, ChannelTypes
<1>6. FreshClients' /\ OpenExists'
  BY <1>1, <1>2 DEF ServerInv, FreshClients, OpenExists, editor
<1>7. NotInitialized' BY <1>2 DEF ServerInv, NotInitialized, channels
<1>8. CurrentGeneration' BY <1>1, <1>4 DEF ServerInv, CurrentGeneration
<1>9. CurrentIsKept' BY <1>2, <1>4 DEF ServerInv, CurrentIsKept, Closed
<1>10. NonePending'
  <2> SUFFICES ASSUME NEW b \in Client, core'[b].at = "starting", process'[b].start = "ok"
               PROVE  FALSE
    BY DEF NonePending
  <2>1. b # c /\ core[b].at = "starting" /\ process[b].start = "ok" BY <1>1, <1>2
  <2> QED BY <2>1 DEF ServerInv, SucceedsFirst
<1>11. Running' => /\ Running /\ client' = client /\ client # c /\ client \in Client
                   /\ process'[client] = process[client]
  BY <1>2, <1>4 DEF Running
<1>12. KnownOfRunning'
  <2>1. CASE client = c
    BY <2>1 DEF ServerInv, KnownOfRunning
  <2>2. CASE client # c /\ client' = client
    BY <1>1, <1>2, <1>3, <2>2 DEF ServerInv, KnownOfRunning, Running
  <2> QED BY <2>1, <2>2
<1>13. VersionsAreSent' /\ NothingRefused'
  BY <1>11, PipesLeft DEF ServerInv, Alive, channels
<1> QED BY <1>5, <1>6, <1>7, <1>8, <1>9, <1>10, <1>12, <1>13, NoneFirst DEF ServerInv

LEMMA StartSucceedsStep ==
  ASSUME ServerInv, NEW c \in Client, StartSucceeds(c) PROVE ServerInv'
<1>1. /\ core[c].at = "starting" /\ process[c].start = "ok"
      /\ UNCHANGED <<client, startPromise, restartPromise, generation, disposed, shown,
                     editor, task, held, toClient>>
  BY DEF StartSucceeds
<1>2. CoreReady(c) BY <1>1 DEF CoreReady
<1>3. CASE Stale(c)
  <2>1. /\ core' = [core EXCEPT ![c].at = "stopping"] /\ process' = Stopped(c)
        /\ toServer' = toServer /\ openVersion' = openVersion
    BY <1>3 DEF StartSucceeds
  <2>2. client # c
    BY <1>3, NoneApart DEF Stale, ServerInv, CurrentGeneration
  <2> QED BY <1>1, <1>2, <2>1, <2>2, StartStops DEF channels
<1>4. CASE ~Stale(c)
  <2>1. /\ core' = [core EXCEPT ![c].at = "finished"] /\ process' = process /\ client = c
        /\ \/ open /\ DidOpen(TextOf(documents))
           \/ toServer' = toServer /\ openVersion' = openVersion
    BY <1>4 DEF StartSucceeds, Stale
  <2>2. /\ core' \in [Client -> CoreRecord] /\ core'[c].at = "finished"
        /\ core'[c].generation = core[c].generation
        /\ \A b \in Client : b # c => core'[b] = core[b]
    BY <2>1, InvTypes, CoreChanged
  <2>3. /\ openVersion' \in 0..MaxVersion /\ ChannelTypes'
        /\ NotInitialized' /\ VersionsAreSent' /\ NothingRefused'
        /\ ~Running => openVersion' = openVersion
    <3>1. CASE open /\ DidOpen(TextOf(documents))
      <4>1. PICK text \in Text : text = TextOf(documents) BY <3>1, DocumentsTyped
      <4>2. DidOpen(text) BY <3>1, <4>1
      <4> QED BY <1>1, <2>1, <4>2, DidOpenStep
    <3>2. CASE toServer' = toServer /\ openVersion' = openVersion
      <4>1. VersionsAreSent' /\ NothingRefused'
        BY <1>1, <2>1, <3>2, PipesLeft DEF ServerInv, Running, Alive
      <4> QED BY <1>1, <2>1, <3>2, <4>1, InvTypes
              DEF ControllerTypes, ChannelTypes, ServerInv, NotInitialized
    <3> QED BY <2>1, <3>1, <3>2
  <2>4. TypeOK'
    BY <1>1, <2>1, <2>2, <2>3, InvTypes, TypesNext DEF editor, ControllerTypes, EditorTypes
  <2>5. FreshClients' /\ CurrentGeneration' /\ CurrentIsKept' /\ OpenExists'
    BY <1>1, <2>1, <2>2
    DEF ServerInv, FreshClients, CurrentGeneration, CurrentIsKept, Closed, OpenExists, editor
  <2>6. KnownOfRunning'
    BY <1>1, <2>1, <2>2, <2>3 DEF ServerInv, KnownOfRunning, Running
  <2>7. NonePending'
    BY <1>1, <1>2, <2>1, <2>2 DEF NonePending, ServerInv, SucceedsFirst
  <2> QED BY <2>3, <2>4, <2>5, <2>6, <2>7, NoneFirst DEF ServerInv
<1> QED BY <1>3, <1>4

LEMMA StartFailsStep ==
  ASSUME ServerInv, NEW c \in Client, StartFails(c) PROVE ServerInv'
<1>1. /\ core[c].at = "starting" /\ process[c].start \in {"failed", "ok"}
      /\ client' = IF client = c THEN None ELSE client
      /\ core' = [core EXCEPT ![c].at = "stopping"] /\ process' = Stopped(c)
      /\ UNCHANGED <<startPromise, restartPromise, generation, disposed, openVersion, shown,
                     editor, task, channels>>
  BY DEF StartFails
<1>2. CoreReady(c) BY <1>1 DEF CoreReady
<1> QED BY <1>1, <1>2, StartStops

LEMMA ActivatedStep ==
  ASSUME ServerInv, Activated PROVE ServerInv'
<1>1. /\ listening' = TRUE /\ UNCHANGED <<controller, documents, open, version, core, task, process, channels>>
  BY DEF Activated
<1>2. TypeOK'
  BY <1>1, InvTypes, TypesNext DEF controller, channels, ControllerTypes, EditorTypes, ChannelTypes
<1>3. FreshClients' /\ NotInitialized' /\ OpenExists' /\ CurrentGeneration' /\ CurrentIsKept'
  BY <1>1 DEF ServerInv, FreshClients, NotInitialized, OpenExists, CurrentGeneration, CurrentIsKept,
              Closed, controller, channels
<1>4. KnownOfRunning' BY <1>1 DEF ServerInv, KnownOfRunning, Running, controller
<1>5. SucceedsFirst' BY <1>1 DEF ServerInv, SucceedsFirst, CoreReady, TaskReady
<1>6. VersionsAreSent' /\ NothingRefused'
  BY <1>1, PipesLeft DEF ServerInv, Running, Alive, controller, channels
<1> QED BY <1>2, <1>3, <1>4, <1>5, <1>6 DEF ServerInv

LEMMA OpenDocumentStep ==
  ASSUME ServerInv, OpenDocument PROVE ServerInv'
<1>1. /\ Idle /\ documents < MaxDocument /\ open' = TRUE /\ documents' = documents + 1
      /\ UNCHANGED <<restartPromise, generation, disposed, openVersion, shown, listening,
                     version, channels>>
  BY DEF OpenDocument
<1>2. documents \in Nat /\ documents + 1 \in Document /\ EditorTypes' /\ OpenExists'
  BY <1>1, InvTypes, Numbers DEF EditorTypes, Document, OpenExists
<1>3. NonePending BY <1>1, IdleNone
<1>4. CASE \E t \in Task : StartServer(t, "open", "starting", documents + 1)
  <2>1. PICK doc \in Document : doc = documents + 1 BY <1>2
  <2>2. PICK t \in Task : StartServer(t, "open", "starting", doc) BY <1>4, <2>1
  <2> QED BY <1>1, <1>2, <1>3, <2>2, CallsStart
<1>5. CASE UNCHANGED <<client, startPromise, core, process, task>>
  <2>1. TypeOK'
    BY <1>1, <1>2, <1>5, InvTypes, TypesNext DEF channels, ControllerTypes, ChannelTypes
  <2>2. FreshClients' /\ NotInitialized' /\ CurrentGeneration' /\ CurrentIsKept'
    BY <1>1, <1>5 DEF ServerInv, FreshClients, NotInitialized, CurrentGeneration, CurrentIsKept,
                      Closed, channels
  <2>3. KnownOfRunning' BY <1>1, <1>5 DEF ServerInv, KnownOfRunning, Running
  <2>4. SucceedsFirst' BY <1>3, <1>5, NoneFirst DEF NonePending
  <2>5. VersionsAreSent' /\ NothingRefused'
    BY <1>1, <1>5, PipesLeft DEF ServerInv, Running, Alive, channels
  <2> QED BY <1>2, <2>1, <2>2, <2>3, <2>4, <2>5 DEF ServerInv
<1> QED BY <1>4, <1>5 DEF OpenDocument

LEMMA ChangeDocumentStep ==
  ASSUME ServerInv, ChangeDocument PROVE ServerInv'
<1>1. /\ Idle /\ open /\ version[documents] < MaxVersion
      /\ version' = [version EXCEPT ![documents] = @ + 1]
      /\ \/ DidOpen(<<documents, version[documents] + 1>>)
         \/ toServer' = toServer /\ openVersion' = openVersion
      /\ UNCHANGED <<client, startPromise, restartPromise, generation, disposed, shown,
                     listening, documents, open, core, task, process, held, toClient>>
  BY DEF ChangeDocument
<1>2. documents \in Document /\ version \in [Document -> Version]
  BY <1>1, DocumentsTyped, InvTypes DEF EditorTypes
<1>3. version[documents] \in Nat \ {0} /\ version[documents] + 1 \in Version
  BY <1>1, <1>2, Numbers DEF Version
<1>4. NonePending BY <1>1, IdleNone
<1>5. /\ openVersion' \in 0..MaxVersion /\ ChannelTypes'
      /\ NotInitialized' /\ VersionsAreSent' /\ NothingRefused'
      /\ ~Running => openVersion' = openVersion
  <2>1. CASE DidOpen(<<documents, version[documents] + 1>>)
    <3>1. PICK text \in Text : text = <<documents, version[documents] + 1>>
      BY <1>2, <1>3 DEF Text
    <3>2. DidOpen(text) BY <2>1, <3>1
    <3> QED BY <1>1, <3>2, DidOpenStep
  <2>2. CASE toServer' = toServer /\ openVersion' = openVersion
    <3>1. VersionsAreSent' /\ NothingRefused'
      BY <1>1, <2>2, PipesLeft DEF ServerInv, Running, Alive
    <3> QED BY <1>1, <2>2, <3>1, InvTypes
            DEF ControllerTypes, ChannelTypes, ServerInv, NotInitialized
  <2> QED BY <1>1, <2>1, <2>2
<1>6. EditorTypes' /\ OpenExists'
  BY <1>1, <1>2, <1>3, InvTypes DEF EditorTypes, ServerInv, OpenExists
<1>7. TypeOK' BY <1>1, <1>5, <1>6, InvTypes, TypesNext DEF ControllerTypes
<1>8. FreshClients' /\ CurrentGeneration' /\ CurrentIsKept'
  BY <1>1 DEF ServerInv, FreshClients, CurrentGeneration, CurrentIsKept, Closed
<1>9. KnownOfRunning'
  <2> SUFFICES ASSUME ~Running \/ core[client].at = "starting" PROVE openVersion' = 0
    BY <1>1 DEF KnownOfRunning, Running
  <2>1. Running => client \in Client /\ process[client].up /\ process[client].start = "ok"
    BY InvTypes DEF Running, ControllerTypes, ServerInv, NotInitialized
  <2>2. ~Running BY <1>4, <2>1 DEF NonePending
  <2> QED BY <1>5, <2>2 DEF ServerInv, KnownOfRunning
<1>10. SucceedsFirst' BY <1>1, <1>4, NoneFirst DEF NonePending
<1> QED BY <1>5, <1>6, <1>7, <1>8, <1>9, <1>10 DEF ServerInv

LEMMA CloseDocumentStep ==
  ASSUME ServerInv, CloseDocument PROVE ServerInv'
<1>1. /\ Idle /\ open /\ open' = FALSE
      /\ UNCHANGED <<client, startPromise, restartPromise, generation, disposed, listening,
                     documents, version, core, task, process, held, toClient>>
  BY DEF CloseDocument
<1>2. NonePending BY <1>1, IdleNone
<1>3. shown' \in {shown, None} /\ openVersion' \in {openVersion, 0}
  BY DEF CloseDocument
<1>4. /\ client \in Client \cup {None} /\ process \in [Client -> ProcessRecord] /\ ChannelTypes
  BY InvTypes DEF ControllerTypes
<1>5. ChannelTypes' /\ NotInitialized' /\ VersionsAreSent' /\ NothingRefused'
  <2>1. CASE toServer' = toServer /\ (openVersion' = openVersion \/ ~(Running /\ Alive(client)))
    <3>1. VersionsAreSent' /\ NothingRefused'
      BY <1>1, <2>1, PipesLeft DEF ServerInv, Running, Alive
    <3> QED BY <1>1, <1>4, <2>1, <3>1 DEF ChannelTypes, ServerInv, NotInitialized
  <2>2. CASE /\ Running /\ Alive(client) /\ openVersion # 0 /\ openVersion' = 0
             /\ toServer' = [toServer EXCEPT ![client] =
                               Append(@, [kind |-> "close", text |-> TextOf(documents)])]
    <3>1. PICK c \in Client : c = client BY <1>4, <2>2 DEF Running
    <3>2. PICK m \in Message : m = [kind |-> "close", text |-> TextOf(documents)]
      BY <1>1, DocumentsTyped DEF Message
    <3>3. m.kind = "close" BY <3>2
    <3>4. toServer' = [toServer EXCEPT ![c] = Append(@, m)] BY <2>2, <3>1, <3>2
    <3>5. After(c, Len(toServer[c])) # None
      BY <2>2, <3>1 DEF ServerInv, VersionsAreSent
    <3>6. Held(After(c, Len(toServer[c])), m) # After(c, Len(toServer[c]))
      BY <3>3, <3>5 DEF Held
    <3>7. /\ ChannelTypes' /\ NothingRefused' /\ After(c, Len(toServer[c]))' = Left(m)
          /\ \A b \in Client : b # c => toServer'[b] = toServer[b]
      BY <1>1, <1>4, <3>4, <3>6, Appended DEF ServerInv
    <3>8. Left(m) = None BY <3>3 DEF Left
    <3>9. VersionsAreSent' BY <1>1, <2>2, <3>1, <3>7, <3>8 DEF VersionsAreSent
    <3>10. process[c].start = "ok" BY <2>2, <3>1 DEF Running, ServerInv, NotInitialized
    <3>11. NotInitialized' BY <1>1, <3>7, <3>10 DEF ServerInv, NotInitialized
    <3> QED BY <3>7, <3>9, <3>11
  <2> QED BY <2>1, <2>2 DEF CloseDocument, Notified
<1>6. ControllerTypes' /\ EditorTypes' /\ OpenExists'
  <2>1. 0 \in 0..MaxVersion /\ None \in Shown BY Numbers DEF Shown
  <2>2. ControllerTypes' BY <1>1, <1>3, <2>1, InvTypes DEF ControllerTypes
  <2> QED BY <1>1, <2>2, InvTypes DEF EditorTypes, OpenExists
<1>7. TypeOK' BY <1>1, <1>5, <1>6, InvTypes, TypesNext
<1>8. FreshClients' /\ CurrentGeneration' /\ CurrentIsKept'
  BY <1>1 DEF ServerInv, FreshClients, CurrentGeneration, CurrentIsKept, Closed
<1>9. KnownOfRunning' BY <1>1, <1>3 DEF ServerInv, KnownOfRunning, Running
<1>10. SucceedsFirst' BY <1>1, <1>2, NoneFirst DEF NonePending
<1> QED BY <1>5, <1>6, <1>7, <1>8, <1>9, <1>10 DEF ServerInv

LEMMA QueryStep ==
  ASSUME ServerInv, NEW t \in Task, Query(t) PROVE ServerInv'
<1>1. /\ Idle /\ open /\ StartServer(t, "query", "starting", documents)
      /\ UNCHANGED <<restartPromise, generation, disposed, openVersion, shown, editor, channels>>
  BY DEF Query, Callable
<1>2. NonePending BY <1>1, IdleNone
<1>3. EditorTypes' /\ OpenExists'
  BY <1>1, InvTypes DEF editor, EditorTypes, ServerInv, OpenExists
<1>4. PICK doc \in Document : doc = documents BY <1>1, DocumentsTyped
<1> QED BY <1>1, <1>2, <1>3, <1>4, CallsStart

\* A call that stops the current server and waits for its end.
LEMMA CallsStop ==
  ASSUME ServerInv, Idle, NEW t \in Task, NEW kind \in {"restart", "remove"}, StopServer,
         task' = [task EXCEPT ![t] = [kind |-> kind, at |-> "stopping", on |-> client,
                                      doc |-> 1, generation |-> generation + 1]],
         restartPromise' \in Task \cup {None}, disposed' \in BOOLEAN,
         UNCHANGED <<startPromise, editor, core, channels>>
  PROVE  ServerInv'
<1>1. NonePending BY IdleNone
<1>2. UNCHANGED <<core, held, toServer, toClient>> BY DEF channels
<1>3. /\ client' = None /\ generation' \in Nat /\ openVersion' \in 0..MaxVersion
      /\ shown' \in Shown /\ process' \in [Client -> ProcessRecord] /\ SafetyParts'
  BY <1>1, <1>2, StopServerStep
<1>4. task' \in [Task -> TaskRecord]
  <2>1. generation + 1 \in Nat /\ client \in Client \cup {None} /\ 1 \in Document
    BY InvTypes, Numbers DEF ControllerTypes
  <2>2. [kind |-> kind, at |-> "stopping", on |-> client, doc |-> 1,
         generation |-> generation + 1] \in TaskRecord
    BY <2>1 DEF TaskRecord
  <2>3. task \in [Task -> TaskRecord] BY InvTypes
  <2> QED BY <2>2, <2>3
<1>5. TypeOK'
  BY <1>2, <1>3, <1>4, InvTypes, TypesNext DEF ControllerTypes, EditorTypes, ChannelTypes, editor
<1>6. OpenExists' BY DEF ServerInv, OpenExists, editor
<1> QED BY <1>3, <1>5, <1>6 DEF SafetyParts, ServerInv

LEMMA RestartStep ==
  ASSUME ServerInv, NEW t \in Task, Restart(t) PROVE ServerInv'
<1>1. /\ Idle /\ StopServer /\ restartPromise' = t /\ disposed' = disposed
      /\ task' = [task EXCEPT ![t] = [kind |-> "restart", at |-> "stopping", on |-> client,
                                      doc |-> 1, generation |-> generation + 1]]
      /\ UNCHANGED <<startPromise, editor, core, channels>>
  BY DEF Restart, Callable
<1>2. disposed' \in BOOLEAN BY <1>1, InvTypes DEF ControllerTypes
<1> QED BY <1>1, <1>2, CallsStop

LEMMA RemoveFolderStep ==
  ASSUME ServerInv, NEW t \in Task, RemoveFolder(t) PROVE ServerInv'
<1>1. /\ Idle /\ StopServer /\ disposed' = TRUE /\ restartPromise' = restartPromise
      /\ task' = [task EXCEPT ![t] = [kind |-> "remove", at |-> "stopping", on |-> client,
                                      doc |-> 1, generation |-> generation + 1]]
      /\ UNCHANGED <<startPromise, editor, core, channels>>
  BY DEF RemoveFolder, Callable
<1>2. restartPromise' \in Task \cup {None} /\ disposed' \in BOOLEAN
  BY <1>1, InvTypes DEF ControllerTypes
<1> QED BY <1>1, <1>2, CallsStop

\* A step of the process of c alone, after which it runs no more.
LEMMA ProcessStep ==
  ASSUME ServerInv, Idle, NEW c \in Client, NEW r \in ProcessRecord,
         process' = [process EXCEPT ![c] = r], ~r.up, process[c].is # "none",
         (r.start = "ok") <=> (process[c].start = "ok"),
         \/ client' = client /\ openVersion' = openVersion /\ shown' = shown
            /\ (client = c => r.stop = process[c].stop /\ r.is \notin {"none", "closed"}
                              /\ ~process[c].up)
         \/ client = c /\ client' = None /\ Forgotten,
         UNCHANGED <<startPromise, restartPromise, generation, disposed, editor, core, task, channels>>
  PROVE  ServerInv'
<1>1. NonePending BY IdleNone
<1>2. /\ process' \in [Client -> ProcessRecord] /\ process'[c] = r
      /\ \A b \in Client : b # c => process'[b] = process[b]
  BY InvTypes
<1>3. client \in Client \cup {None} BY InvTypes DEF ControllerTypes
<1>4. /\ client' \in Client \cup {None} /\ openVersion' \in 0..MaxVersion /\ shown' \in Shown
  <2>1. 0 \in 0..MaxVersion /\ None \in Shown BY Numbers DEF Shown
  <2> QED BY <1>3, <2>1, InvTypes DEF ControllerTypes, Forgotten
<1>5. TypeOK'
  BY <1>2, <1>4, InvTypes, TypesNext DEF ControllerTypes, EditorTypes, ChannelTypes, editor, channels
<1>6. FreshClients'
  <2>1. core[c].at # "idle" BY DEF ServerInv, FreshClients
  <2> QED BY <1>2, <2>1 DEF ServerInv, FreshClients
<1>7. NotInitialized' BY <1>2 DEF ServerInv, NotInitialized, channels
<1>8. NonePending' BY <1>1, <1>2 DEF NonePending
<1>9. CASE client' = client /\ openVersion' = openVersion
           /\ (client = c => r.stop = process[c].stop /\ r.is \notin {"none", "closed"} /\ ~process[c].up)
  <2>1. CurrentGeneration' BY <1>9 DEF ServerInv, CurrentGeneration
  <2>2. CurrentIsKept' BY <1>2, <1>3, <1>9 DEF ServerInv, CurrentIsKept, Closed
  <2>3. Running' => Running /\ client # c /\ client \in Client /\ process'[client] = process[client]
    BY <1>2, <1>3, <1>9 DEF Running
  <2>4. Running => Running' BY <1>2, <1>3, <1>9 DEF Running
  <2>5. KnownOfRunning' BY <1>9, <2>4 DEF ServerInv, KnownOfRunning
  <2>6. VersionsAreSent' /\ NothingRefused'
    BY <1>9, <2>3, PipesLeft DEF ServerInv, Alive, channels
  <2> QED BY <1>5, <1>6, <1>7, <1>8, <2>1, <2>2, <2>5, <2>6, NoneFirst
          DEF ServerInv, OpenExists, editor
<1>10. CASE client' = None /\ Forgotten
  <2>1. ~Running' /\ CurrentGeneration' /\ CurrentIsKept' BY <1>10 DEF Running, CurrentGeneration, CurrentIsKept
  <2>2. KnownOfRunning' BY <1>10 DEF Forgotten, KnownOfRunning
  <2>3. VersionsAreSent' /\ NothingRefused' BY <2>1, PipesLeft DEF ServerInv, channels
  <2> QED BY <1>5, <1>6, <1>7, <1>8, <2>1, <2>2, <2>3, NoneFirst DEF ServerInv, OpenExists, editor
<1> QED BY <1>9, <1>10

LEMMA InitializeFailsStep ==
  ASSUME ServerInv, NEW c \in Client, InitializeFails(c) PROVE ServerInv'
<1>1. /\ Idle /\ process[c].start = "pending" /\ ~Closed(c)
      /\ process' = [process EXCEPT ![c] = [is |-> IF @.is = "alive" THEN "dying" ELSE @.is,
                                         start |-> "failed", stop |-> @.stop, up |-> @.up]]
      /\ UNCHANGED <<controller, editor, core, task, channels>>
  BY DEF InitializeFails
<1>2. process[c].up = FALSE
  BY <1>1, InvTypes, ProcessFields DEF ServerInv, NotInitialized
<1>3. PICK is \in {"none", "alive", "dying", "dead", "closed"}, stop \in {"idle", "pending", "done"} :
        is = (IF process[c].is = "alive" THEN "dying" ELSE process[c].is) /\ stop = process[c].stop
  BY InvTypes, ProcessFields
<1>4. PICK r : r = [is |-> is, start |-> "failed", stop |-> stop, up |-> FALSE] OBVIOUS
<1>5. r \in ProcessRecord /\ r.is = is /\ r.start = "failed" /\ r.stop = stop /\ ~r.up
  BY <1>4, DownRecord
<1>6. process' = [process EXCEPT ![c] = r] BY <1>1, <1>2, <1>3, <1>4
<1>7. is \notin {"none", "closed"} /\ process[c].is # "none" BY <1>1, <1>3 DEF Closed
<1> QED BY <1>1, <1>2, <1>3, <1>5, <1>6, <1>7, ProcessStep DEF controller

LEMMA ClientExitStep ==
  ASSUME ServerInv, NEW c \in Client, ClientExit(c) PROVE ServerInv'
<1>1. /\ Idle /\ process[c].is = "dead"
      /\ process' = [process EXCEPT ![c] =
           [is |-> "closed", start |-> IF @.start = "pending" THEN "failed" ELSE @.start,
            stop |-> IF @.stop = "pending" THEN "done" ELSE @.stop, up |-> FALSE]]
      /\ \/ client = c /\ client' = None /\ Forgotten
         \/ client # c /\ client' = client /\ openVersion' = openVersion /\ shown' = shown
      /\ UNCHANGED <<startPromise, restartPromise, generation, disposed, editor, core, task, channels>>
  BY DEF ClientExit
<1>2. PICK start \in {"idle", "pending", "ok", "failed"}, stop \in {"idle", "pending", "done"} :
        /\ start = (IF process[c].start = "pending" THEN "failed" ELSE process[c].start)
        /\ stop = (IF process[c].stop = "pending" THEN "done" ELSE process[c].stop)
  BY InvTypes, ProcessFields
<1>3. PICK r : r = [is |-> "closed", start |-> start, stop |-> stop, up |-> FALSE] OBVIOUS
<1>4. r \in ProcessRecord /\ r.start = start /\ ~r.up
  BY <1>3, DownRecord
<1>5. process' = [process EXCEPT ![c] = r] BY <1>1, <1>2, <1>3
<1> QED BY <1>1, <1>2, <1>4, <1>5, ProcessStep

LEMMA InitializedStep ==
  ASSUME ServerInv, NEW c \in Client, Initialized(c) PROVE ServerInv'
<1>1. /\ Idle /\ process[c].start = "pending" /\ Alive(c)
      /\ process' = [process EXCEPT ![c] = [is |-> @.is, start |-> "ok", stop |-> @.stop, up |-> TRUE]]
      /\ UNCHANGED <<controller, editor, core, task, channels>>
  BY DEF Initialized
<1>2. NonePending BY <1>1, IdleNone
<1>3. PICK is \in {"none", "alive", "dying", "dead", "closed"}, stop \in {"idle", "pending", "done"} :
        is = process[c].is /\ stop = process[c].stop
  BY InvTypes, ProcessFields
<1>4. PICK r : r = [is |-> is, start |-> "ok", stop |-> stop, up |-> TRUE] OBVIOUS
<1>5. r \in ProcessRecord /\ r.is = is /\ r.start = "ok" /\ r.stop = stop /\ r.up
  BY <1>4, UpRecord
<1>6. process' = [process EXCEPT ![c] = r] BY <1>1, <1>3, <1>4
<1>7. /\ process' \in [Client -> ProcessRecord] /\ process'[c] = r
      /\ \A b \in Client : b # c => process'[b] = process[b]
      /\ \A b \in Client : process'[b].is = process[b].is /\ process'[b].stop = process[b].stop
  BY <1>3, <1>5, <1>6, InvTypes
<1>8. client \in Client \cup {None} BY InvTypes DEF ControllerTypes
<1>9. TypeOK'
  BY <1>1, <1>7, InvTypes, TypesNext
  DEF ControllerTypes, EditorTypes, ChannelTypes, controller, editor, channels
<1>10. core[c].at # "idle" BY <1>1 DEF ServerInv, FreshClients
<1>11. FreshClients' /\ OpenExists'
  BY <1>1, <1>7, <1>10 DEF ServerInv, FreshClients, OpenExists, editor
<1>12. NotInitialized' BY <1>1, <1>5, <1>7 DEF ServerInv, NotInitialized, channels
<1>13. CurrentGeneration' /\ CurrentIsKept'
  BY <1>1, <1>7, <1>8 DEF ServerInv, CurrentGeneration, CurrentIsKept, Closed, controller
<1>14. ~process[c].up /\ held[c] = None /\ toServer[c] = <<>>
  BY <1>1 DEF ServerInv, NotInitialized
<1>15. client = c => openVersion = 0
  BY <1>14 DEF ServerInv, KnownOfRunning, Running
<1>16. KnownOfRunning'
  BY <1>1, <1>7, <1>8, <1>15 DEF ServerInv, KnownOfRunning, Running, controller
<1>17. SucceedsFirst'
  <2> SUFFICES ASSUME NEW d \in Client, core'[d].at = "starting", process'[d].start = "ok"
               PROVE  /\ \A b \in Client \ {d} : ~CoreReady(b)'
                      /\ \A t \in Task : ~TaskReady(t)'
    BY DEF SucceedsFirst
  <2>1. d = c BY <1>1, <1>2, <1>7 DEF NonePending
  <2>2. \A b \in Client \ {c} : ~CoreReady(b)'
    BY <1>1, <1>7 DEF CoreReady, Idle
  <2>3. \A t \in Task : ~TaskReady(t)'
    <3> SUFFICES ASSUME NEW t \in Task PROVE ~TaskReady(t)'
      OBVIOUS
    <3>1. task[t].on \in Client \cup {None} BY InvTypes DEF TaskRecord
    <3>2. ~TaskReady(t) BY <1>1 DEF Idle
    <3> QED BY <1>1, <1>7, <3>1, <3>2 DEF TaskReady
  <2> QED BY <2>1, <2>2, <2>3
<1>18. NothingRefused'
  BY <1>1, AfterKept DEF ServerInv, NothingRefused, channels
<1>19. VersionsAreSent'
  <2>1. CASE client = c
    <3>1. client' = c /\ toServer'[c] = <<>> /\ held'[c] = None /\ openVersion' = 0
      BY <1>1, <1>14, <1>15, <2>1 DEF controller, channels
    <3>2. After(c, 0)' = None BY <3>1 DEF After
    <3> QED BY <3>1, <3>2 DEF VersionsAreSent
  <2>2. CASE client # c
    <3>1. Running' => Running /\ client \in Client /\ process'[client] = process[client]
      BY <1>1, <1>7, <1>8, <2>2 DEF Running, controller
    <3> QED BY <1>1, <3>1, PipesLeft DEF ServerInv, Alive, controller, channels
  <2> QED BY <2>1, <2>2
<1> QED BY <1>9, <1>11, <1>12, <1>13, <1>16, <1>17, <1>18, <1>19 DEF ServerInv

LEMMA PublishStep ==
  ASSUME ServerInv, NEW c \in Client, PublishDiagnostics(c) PROVE ServerInv'
<1>1. /\ Idle /\ toClient[c] # <<>> /\ toClient' = [toClient EXCEPT ![c] = Tail(@)]
      /\ shown' \in {shown, Head(toClient[c])}
      /\ UNCHANGED <<client, startPromise, restartPromise, generation, disposed, openVersion,
                     editor, core, task, process, held, toServer>>
  BY DEF PublishDiagnostics
<1>2. NonePending BY <1>1, IdleNone
<1>3. toClient[c] \in Seq(Shown) BY InvTypes DEF ChannelTypes
<1>4. Head(toClient[c]) \in Shown /\ Tail(toClient[c]) \in Seq(Shown)
  BY <1>1, <1>3, HeadTailProperties
<1>5. toClient' \in [Client -> Seq(Shown)] BY <1>1, <1>4, InvTypes DEF ChannelTypes
<1>6. TypeOK'
  BY <1>1, <1>4, <1>5, InvTypes, TypesNext DEF ControllerTypes, EditorTypes, ChannelTypes, editor
<1> QED BY <1>1, <1>2, <1>6, QuietStep DEF editor

LEMMA ServeStep ==
  ASSUME ServerInv, NEW c \in Client, Serve(c) PROVE ServerInv'
<1>1. /\ toServer[c] # <<>> /\ toServer' = [toServer EXCEPT ![c] = Tail(@)]
      /\ held' = [held EXCEPT ![c] = Held(held[c], Head(toServer[c]))]
      /\ UNCHANGED <<controller, editor, core, task, process>>
  BY DEF Serve
<1>2. /\ held'[c] \in Shown /\ held' \in [Client -> Shown]
      /\ toServer' \in [Client -> Seq(Message)] /\ NothingRefused'
      /\ After(c, Len(toServer[c]))' = After(c, Len(toServer[c]))
      /\ \A b \in Client : b # c => toServer'[b] = toServer[b] /\ held'[b] = held[b]
  BY <1>1, InvTypes, FirstRead DEF ServerInv
<1>3. toClient' \in [Client -> Seq(Shown)]
  <2>1. held'[c] = Held(held[c], Head(toServer[c])) BY <1>1, InvTypes DEF ChannelTypes
  <2>2. PICK text \in Shown : text = Held(held[c], Head(toServer[c])) BY <1>2, <2>1
  <2>3. toClient' \in {toClient, [toClient EXCEPT ![c] = toClient[c], ![c] = @],
                       [toClient EXCEPT ![c] = Append(@, text)]}
    BY <2>2, InvTypes DEF Serve, ChannelTypes
  <2>4. toClient[c] \in Seq(Shown) BY InvTypes DEF ChannelTypes
  <2>5. Append(toClient[c], text) \in Seq(Shown) BY <2>4, AppendProperties
  <2> QED BY <2>3, <2>4, <2>5, InvTypes DEF ChannelTypes
<1>4. TypeOK'
  BY <1>1, <1>2, <1>3, InvTypes, TypesNext
  DEF ControllerTypes, EditorTypes, ChannelTypes, controller, editor
<1>5. FreshClients' /\ OpenExists' /\ CurrentGeneration' /\ CurrentIsKept'
  BY <1>1 DEF ServerInv, FreshClients, OpenExists, CurrentGeneration, CurrentIsKept, Closed,
              controller, editor
<1>6. process[c].start = "ok" BY <1>1 DEF ServerInv, NotInitialized
<1>7. NotInitialized' BY <1>1, <1>2, <1>6 DEF ServerInv, NotInitialized
<1>8. KnownOfRunning' BY <1>1 DEF ServerInv, KnownOfRunning, Running, controller
<1>9. SucceedsFirst' BY <1>1 DEF ServerInv, SucceedsFirst, CoreReady, TaskReady
<1>10. VersionsAreSent'
  <2> SUFFICES ASSUME Running, Alive(client)
               PROVE  openVersion = LET text == After(client, Len(toServer[client]))'
                                    IN IF text = None THEN 0 ELSE text[2]
    BY <1>1 DEF VersionsAreSent, Running, Alive, controller
  <2>1. client' = client /\ client \in Client
    BY <1>1, InvTypes DEF controller, Running, ControllerTypes
  <2>2. After(client, Len(toServer[client]))' = After(client, Len(toServer[client]))
    <3>1. CASE client = c BY <1>2, <2>1, <3>1
    <3>2. CASE client # c
      <4>1. toServer'[client] = toServer[client] /\ held'[client] = held[client]
        BY <1>2, <2>1, <3>2
      <4> QED BY <2>1, <4>1 DEF After
    <3> QED BY <3>1, <3>2
  <2> QED BY <2>2 DEF ServerInv, VersionsAreSent
<1> QED BY <1>2, <1>4, <1>5, <1>7, <1>8, <1>9, <1>10 DEF ServerInv

LEMMA ExitStep ==
  ASSUME ServerInv, NEW c \in Client, Exit(c) PROVE ServerInv'
<1>1. /\ Alive(c) /\ process' = [process EXCEPT ![c].is = "dead"]
      /\ toServer' = [toServer EXCEPT ![c] = <<>>]
      /\ UNCHANGED <<controller, editor, core, task, held, toClient>>
  BY DEF Exit
<1>2. /\ process' \in [Client -> ProcessRecord] /\ process'[c].is = "dead"
      /\ \A b \in Client : /\ process'[b].start = process[b].start /\ process'[b].up = process[b].up
                           /\ process'[b].stop = process[b].stop
                           /\ b # c => process'[b] = process[b]
  BY <1>1, InvTypes DEF ProcessRecord
<1>3. /\ toServer' \in [Client -> Seq(Message)] /\ toServer'[c] = <<>>
      /\ \A b \in Client : b # c => toServer'[b] = toServer[b]
  <2>1. <<>> \in Seq(Message) BY EmptySeq
  <2> QED BY <1>1, <2>1, InvTypes DEF ChannelTypes
<1>4. client \in Client \cup {None} BY InvTypes DEF ControllerTypes
<1>5. TypeOK'
  BY <1>1, <1>2, <1>3, InvTypes, TypesNext
  DEF ControllerTypes, EditorTypes, ChannelTypes, controller, editor
<1>6. FreshClients' /\ OpenExists'
  <2>1. core[c].at # "idle" BY <1>1 DEF Alive, ServerInv, FreshClients
  <2> QED BY <1>1, <1>2, <2>1 DEF ServerInv, FreshClients, OpenExists, editor
<1>7. NotInitialized' BY <1>1, <1>2, <1>3 DEF ServerInv, NotInitialized
<1>8. CurrentGeneration' BY <1>1 DEF ServerInv, CurrentGeneration, controller
<1>9. CurrentIsKept'
  BY <1>1, <1>2, <1>4 DEF ServerInv, CurrentIsKept, Closed, controller
<1>10. KnownOfRunning'
  BY <1>1, <1>2, <1>4 DEF ServerInv, KnownOfRunning, Running, controller
<1>11. SucceedsFirst'
  <2>1. \A b \in Client : CoreReady(b)' <=> CoreReady(b) BY <1>1, <1>2 DEF CoreReady
  <2>2. \A t \in Task : TaskReady(t)' <=> TaskReady(t)
    <3> SUFFICES ASSUME NEW t \in Task PROVE TaskReady(t)' <=> TaskReady(t)
      OBVIOUS
    <3>1. task[t].on \in Client \cup {None} BY InvTypes DEF TaskRecord
    <3> QED BY <1>1, <1>2, <3>1 DEF TaskReady
  <2> QED BY <1>1, <1>2, <2>1, <2>2 DEF ServerInv, SucceedsFirst
<1>12. NothingRefused'
  <2> SUFFICES ASSUME NEW b \in Client, NEW k \in DOMAIN toServer'[b]
               PROVE  Held(After(b, k - 1)', toServer'[b][k]) # After(b, k - 1)'
    BY DEF NothingRefused
  <2>1. b # c BY <1>3
  <2>2. toServer'[b] = toServer[b] /\ held'[b] = held[b] BY <1>1, <1>3, <2>1
  <2>3. After(b, k - 1)' = After(b, k - 1) BY <2>2, AfterKept
  <2> QED BY <2>2, <2>3 DEF ServerInv, NothingRefused
<1>13. VersionsAreSent'
  <2> SUFFICES ASSUME Running', Alive(client)'
               PROVE  openVersion' = LET text == After(client, Len(toServer[client]))'
                                     IN IF text = None THEN 0 ELSE text[2]
    BY DEF VersionsAreSent
  <2>1. /\ client' = client /\ openVersion' = openVersion /\ client # c /\ client \in Client
        /\ process'[client] = process[client]
    BY <1>1, <1>2, <1>4 DEF Running, Alive, controller
  <2>2. Running /\ Alive(client) BY <2>1 DEF Running, Alive
  <2>3. toServer'[client] = toServer[client] /\ held'[client] = held[client]
    BY <1>1, <1>3, <2>1
  <2>4. After(client, Len(toServer[client]))' = After(client, Len(toServer[client]))
    BY <2>1, <2>3 DEF After
  <2> QED BY <2>1, <2>2, <2>4 DEF ServerInv, VersionsAreSent
<1> QED BY <1>5, <1>6, <1>7, <1>8, <1>9, <1>10, <1>11, <1>12, <1>13 DEF ServerInv

LEMMA Initially == Init => ServerInv
<1> SUFFICES ASSUME Init PROVE ServerInv
  OBVIOUS
<1> USE Numbers
<1>1. \A c \in Client : /\ core[c].at \in {"idle", "starting"} /\ core[c].generation = 0
                        /\ core[c] \in CoreRecord
                        /\ core[c].at = "starting" <=> c = 1
  BY DEF Init, CoreRecord
<1>2. \A c \in Client : /\ process[c].is = IF c = 1 THEN "alive" ELSE "none"
                        /\ process[c].start = IF c = 1 THEN "pending" ELSE "idle"
                        /\ process[c].stop = "idle" /\ process[c].up = FALSE
  BY DEF Init
<1>3. TypeOK
  <2>1. core \in [Client -> CoreRecord] BY <1>1 DEF Init
  <2>2. task \in [Task -> TaskRecord] BY DEF Init, TaskRecord
  <2>3. process \in [Client -> ProcessRecord] BY DEF Init, ProcessRecord
  <2>4. ControllerTypes
    <3>1. 0 \in 0..MaxVersion OBVIOUS
    <3> QED BY <3>1 DEF Init, ControllerTypes, Shown
  <2>5. EditorTypes
    <3>1. 0 \in 0..MaxDocument OBVIOUS
    <3>2. version \in [Document -> Version] BY DEF Init
    <3> QED BY <3>1, <3>2 DEF Init, EditorTypes
  <2>6. ChannelTypes
    <3>1. <<>> \in Seq(Message) /\ <<>> \in Seq(Shown) BY EmptySeq
    <3> QED BY <3>1 DEF Init, ChannelTypes, Shown
  <2> QED BY <2>1, <2>2, <2>3, <2>4, <2>5, <2>6, TypeParts
<1>4. FreshClients /\ OpenExists BY <1>1, <1>2 DEF FreshClients, OpenExists, Init
<1>5. NotInitialized BY <1>2 DEF NotInitialized, Init
<1>6. client = 1 BY DEF Init
<1>7. CurrentGeneration BY <1>1, <1>6 DEF CurrentGeneration, Init
<1>8. CurrentIsKept BY <1>2, <1>6 DEF CurrentIsKept, Closed
<1>9. ~Running BY <1>2, <1>6 DEF Running
<1>10. KnownOfRunning BY DEF KnownOfRunning, Init
<1>11. SucceedsFirst BY <1>1, <1>2 DEF SucceedsFirst
<1>12. VersionsAreSent BY <1>9 DEF VersionsAreSent
<1>13. NothingRefused BY DEF NothingRefused, Init
<1> QED BY <1>3, <1>4, <1>5, <1>7, <1>8, <1>10, <1>11, <1>12, <1>13 DEF ServerInv

LEMMA EveryStep == ASSUME ServerInv, [Next]_vars PROVE ServerInv'
<1>1. CASE Continuation
  <2>1. ASSUME NEW c \in Client, StartSucceeds(c) \/ StartFails(c) \/ StopOfStart(c) \/ StartEnds(c)
        PROVE  ServerInv'
    BY <2>1, StartSucceedsStep, StartFailsStep, StopOfStartStep, StartEndsStep
  <2>2. ASSUME NEW t \in Task, RestartStarts(t) \/ RestartEnds(t) \/ QueryStarts(t)
                               \/ DocumentSent(t) \/ FolderRemoved(t)
        PROVE  ServerInv'
    <3>1. ASSUME RestartEnds(t) PROVE ServerInv'
      BY <3>1, EndedStep DEF RestartEnds
    <3>2. ASSUME FolderRemoved(t) PROVE ServerInv'
      <4>1. restartPromise' \in Task \cup {None}
        BY <3>2, InvTypes DEF FolderRemoved, controller, ControllerTypes
      <4> QED BY <3>2, <4>1, EndedStep DEF FolderRemoved, controller
    <3> QED BY <2>2, <3>1, <3>2, RestartStartsStep, QueryStartsStep, DocumentSentStep
  <2> QED BY <1>1, <2>1, <2>2 DEF Continuation
<1>2. CASE Activated BY <1>2, ActivatedStep
<1>3. CASE OpenDocument BY <1>3, OpenDocumentStep
<1>4. CASE ChangeDocument BY <1>4, ChangeDocumentStep
<1>5. CASE CloseDocument BY <1>5, CloseDocumentStep
<1>6. CASE \E t \in Task : Query(t) \/ Restart(t) \/ RemoveFolder(t)
  BY <1>6, QueryStep, RestartStep, RemoveFolderStep
<1>7. CASE \E c \in Client : ClientEvent(c) \/ Serve(c) \/ Exit(c)
  BY <1>7, InitializedStep, InitializeFailsStep, PublishStep, ClientExitStep, ServeStep, ExitStep
  DEF ClientEvent
<1>8. CASE UNCHANGED vars
  <2>1. UNCHANGED <<controller, editor, core, task, process, channels>> BY <1>8 DEF vars
  <2>2. TypeOK'
    BY <2>1, InvTypes, TypesNext
    DEF controller, editor, channels, ControllerTypes, EditorTypes, ChannelTypes
  <2>3. FreshClients' /\ NotInitialized' /\ OpenExists' /\ CurrentGeneration' /\ CurrentIsKept'
    BY <2>1 DEF ServerInv, FreshClients, NotInitialized, OpenExists, CurrentGeneration,
                CurrentIsKept, Closed, controller, editor, channels
  <2>4. KnownOfRunning' BY <2>1 DEF ServerInv, KnownOfRunning, Running, controller
  <2>5. SucceedsFirst' BY <2>1 DEF ServerInv, SucceedsFirst, CoreReady, TaskReady
  <2>6. VersionsAreSent' /\ NothingRefused'
    BY <2>1, PipesLeft DEF ServerInv, Running, Alive, controller, channels
  <2> QED BY <2>2, <2>3, <2>4, <2>5, <2>6 DEF ServerInv
<1> QED BY <1>1, <1>2, <1>3, <1>4, <1>5, <1>6, <1>7, <1>8 DEF Next

-----------------------------------------------------------------------------
(* Theorems.                                                               *)

LEMMA Invariance == Spec => []ServerInv
<1>1. Init => ServerInv BY Initially
<1>2. ServerInv /\ [Next]_vars => ServerInv' BY EveryStep
<1> QED BY <1>1, <1>2, PTL DEF Spec

\* Every variable keeps its type.
THEOREM WorkspaceTypes == Spec => []TypeOK
<1>1. ServerInv => TypeOK BY DEF ServerInv
<1> QED BY <1>1, Invariance, PTL

\* The versions the extension remembers are those its running server will hold,
\* whatever crashes, restarts and removals came before.
THEOREM VersionsKnown == Spec => []VersionsAreSent
<1>1. ServerInv => VersionsAreSent BY DEF ServerInv
<1> QED BY <1>1, Invariance, PTL

\* No server is ever sent a notification it refuses.
THEOREM NotificationsAccepted == Spec => []NothingRefused
<1>1. ServerInv => NothingRefused BY DEF ServerInv
<1> QED BY <1>1, Invariance, PTL

\* The current client has not been stopped and its process has not closed.
THEOREM CurrentKept == Spec => []CurrentIsKept
<1>1. ServerInv => CurrentIsKept BY DEF ServerInv
<1> QED BY <1>1, Invariance, PTL

=============================================================================
