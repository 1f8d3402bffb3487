-------------------------- MODULE WorkspaceServer --------------------------
(***************************************************************************)
(* WorkspaceLanguageServer and the event handlers around it, of the VS     *)
(* Code extension (extension.js): the one controller of a workspace        *)
(* folder, which starts, restarts and stops language servers and keeps     *)
(* them informed about an open document.                                   *)
(*                                                                         *)
(* A client here is an LspProcessClient that keeps the contract of         *)
(* ServerProcess; LspClient shows that the class does.  Every async        *)
(* function runs from one await to the next without interruption; editor   *)
(* events, output and end of a process are handled only when no            *)
(* continuation is ready.  Ready continuations run in any order, which     *)
(* includes the one JavaScript chooses.                                    *)
(*                                                                         *)
(* A text is known by the document object it belongs to (a document that   *)
(* is closed and opened again is a new object, whose versions start at 1   *)
(* again) and its version.                                                 *)
(***************************************************************************)
EXTENDS Naturals, Sequences

CONSTANTS
  MaxTask,     \* bound: calls of async functions by the editor
  SoleFolder,  \* the workspace has no other folder
  MaxClient,   \* bound: clients ever created
  MaxDocument, \* bound: times the document is opened
  MaxVersion,  \* bound: versions of a document object
  None

ASSUME WorkspaceConstants ==
  /\ {MaxTask, MaxClient, MaxDocument, MaxVersion} \subseteq Nat \ {0}
  /\ None \notin Nat \cup (Nat \X Nat) /\ SoleFolder \in BOOLEAN

Task     == 1..MaxTask
Client   == 1..MaxClient
Document == 1..MaxDocument
Version  == 1..MaxVersion
Text     == Document \X Version

VARIABLES
  client, startPromise, restartPromise, generation, disposed, openVersion,
  shown,      \* the text whose problems the editor shows, or None
  listening,  \* the event handlers are registered: activate() has returned
  documents, open, version,  \* objects of the document so far; whether the
                             \* last is open; their versions
  core,       \* each client: the _startCore that created it
  task,       \* each async call of the editor
  process,    \* each client: its process and the promises of its methods
  held,       \* each client: the text its server has stored, or None
  toServer, toClient

controller == <<client, startPromise, restartPromise, generation, disposed, openVersion, shown>>
editor     == <<listening, documents, open, version>>
channels   == <<held, toServer, toClient>>
vars       == <<controller, editor, core, task, process, channels>>

Init ==
  /\ client = 1 /\ startPromise = 1 /\ restartPromise = None
  /\ generation = 0 /\ disposed = FALSE /\ openVersion = 0 /\ shown = None
  /\ listening = FALSE /\ documents = 0 /\ open = FALSE
  /\ version = [d \in Document |-> 1]
  /\ core = [c \in Client |-> IF c = 1 THEN [at |-> "starting", generation |-> 0]
                                       ELSE [at |-> "idle", generation |-> 0]]
  /\ task = [t \in Task |-> [kind |-> "open", at |-> "idle", on |-> None, doc |-> 1,
                             generation |-> 0]]
  /\ process = [c \in Client |->
                  [is |-> IF c = 1 THEN "alive" ELSE "none",
                   start |-> IF c = 1 THEN "pending" ELSE "idle", stop |-> "idle", up |-> FALSE]]
  /\ held = [c \in Client |-> None]
  /\ toServer = [c \in Client |-> <<>>] /\ toClient = [c \in Client |-> <<>>]

Alive(c)  == process[c].is \in {"alive", "dying"}
Closed(c) == process[c].is \in {"none", "closed"}

\* The test every operation on documents begins with.
Running == client # None /\ process[client].up

-----------------------------------------------------------------------------
(* What is ready to run.                                                   *)

\* _startCore after client.start(), after client.stop(), and start() when
\* _startCore has ended.
CoreReady(c) ==
  \/ core[c].at = "starting" /\ process[c].start # "pending"
  \/ core[c].at = "stopping" /\ process[c].stop = "done"
  \/ core[c].at = "finished"

TaskReady(t) ==
  \/ task[t].at = "stopping" /\ (task[t].on # None => process[task[t].on].stop = "done")
  \/ task[t].at \in {"starting", "again"} /\ (task[t].on # None => core[task[t].on].at = "done")

\* activate() has waited for the servers of all folders; those of other folders
\* may take longer.
Activating == ~listening /\ core[1].at = "done"

\* A call returns; what it knew is forgotten.
Ended(t) == task' = [task EXCEPT ![t] = [kind |-> @.kind, at |-> "done", on |-> None, doc |-> 1,
                                         generation |-> 0]]

\* Events are handled only then.
Idle == /\ \A c \in Client : ~CoreReady(c)
        /\ \A t \in Task : ~TaskReady(t)
        /\ SoleFolder => ~Activating

-----------------------------------------------------------------------------
(* Documents.                                                              *)

TextOf(d) == <<d, version[d]>>

\* A notification is lost when the process has ended but not yet closed.
Notified(kind, text) ==
  toServer' = IF Alive(client)
                THEN [toServer EXCEPT ![client] = Append(@, [kind |-> kind, text |-> text])]
                ELSE toServer

\* Faulty variant of DidOpen: the version is not compared.
OpenAnyVersion(text) ==
  IF Running
    THEN /\ Notified(IF openVersion = 0 THEN "open" ELSE "change", text)
         /\ openVersion' = text[2]
    ELSE UNCHANGED <<toServer, openVersion>>

\* didOpen and didChange, which call each other: a document the server does not
\* know is opened, one it knows is changed if its version is newer.
DidOpen(text) ==
  IF Running /\ text[2] > openVersion
    THEN /\ Notified(IF openVersion = 0 THEN "open" ELSE "change", text)
         /\ openVersion' = text[2]
    ELSE UNCHANGED <<toServer, openVersion>>

-----------------------------------------------------------------------------
(* Clients.                                                                *)

\* A client without a child has nothing to stop; otherwise the promise is
\* joined if there is one.
Stopped(c) ==
  [process EXCEPT ![c] = [is |-> @.is, start |-> @.start, up |-> FALSE,
                          stop |-> IF Closed(c) THEN "done" ELSE "pending"]]

\* The diagnostics of the documents in openVersions are deleted with it.
Forgotten == /\ shown' = IF openVersion # 0 THEN None ELSE shown
             /\ openVersion' = 0

\* Faulty variant of StopServer: the client is dropped, not stopped.
StopForgetsClient ==
  /\ generation' = generation + 1
  /\ client' = None
  /\ Forgotten
  /\ process' = IF client = None THEN process
                ELSE [process EXCEPT ![client].stop = "done", ![client].up = FALSE]

\* stop() up to its await.
StopServer ==
  /\ generation' = generation + 1
  /\ client' = None
  /\ Forgotten
  /\ process' = IF client = None THEN process ELSE Stopped(client)

Fresh == {c \in Client : core[c].at = "idle" /\ \A b \in 1..c - 1 : core[b].at # "idle"}

\* Task t waits at the place named, for the start begun with a client or None.
Waits(t, kind, at, doc, on) ==
  task' = [task EXCEPT ![t] = [kind |-> kind, at |-> at, on |-> on, doc |-> doc,
                               generation |-> @.generation]]

\* start() as called by task t, which then waits: it returns at once, joins the
\* start under way, or begins one with a new client, unless the entry point of
\* the server is not found.
StartServer(t, kind, at, doc) ==
  \/ /\ disposed \/ Running
     /\ Waits(t, kind, at, doc, None)
     /\ UNCHANGED <<client, startPromise, core, process>>
  \/ /\ ~disposed /\ ~Running /\ startPromise # None
     /\ Waits(t, kind, at, doc, startPromise)
     /\ UNCHANGED <<client, startPromise, core, process>>
  \/ /\ ~disposed /\ ~Running /\ startPromise = None
     /\ \E c \in Fresh :
          /\ client' = c /\ startPromise' = c
          /\ core' = [core EXCEPT ![c] = [at |-> "starting", generation |-> generation]]
          /\ process' = [process EXCEPT ![c] = [is |-> "alive", start |-> "pending",
                                                stop |-> "idle", up |-> FALSE]]
          /\ Waits(t, kind, at, doc, c)
  \/ /\ ~disposed /\ ~Running /\ startPromise = None
     /\ Waits(t, kind, at, doc, None)
     /\ UNCHANGED <<client, startPromise, core, process>>

-----------------------------------------------------------------------------
(* Continuations.                                                          *)

Stale(c) == disposed \/ core[c].generation # generation \/ client # c

\* _startCore when client.start() has succeeded: a stale startup is stopped,
\* otherwise the open document is sent.
StartSucceeds(c) ==
  /\ core[c].at = "starting" /\ process[c].start = "ok"
  /\ IF Stale(c)
       THEN /\ core' = [core EXCEPT ![c].at = "stopping"]
            /\ process' = Stopped(c)
            /\ UNCHANGED <<toServer, openVersion>>
       ELSE /\ IF open THEN DidOpen(TextOf(documents)) ELSE UNCHANGED <<toServer, openVersion>>
            /\ core' = [core EXCEPT ![c].at = "finished"]
            /\ UNCHANGED process
  /\ UNCHANGED <<client, startPromise, restartPromise, generation, disposed, shown,
                 editor, task, held, toClient>>

\* Faulty variant of StartFails: the client is not cleaned up.
StartFailsOnly(c) ==
  /\ core[c].at = "starting"
  /\ process[c].start = "failed"
  /\ client' = client
  /\ core' = [core EXCEPT ![c].at = "stopping"]
  /\ process' = Stopped(c)
  /\ UNCHANGED <<startPromise, restartPromise, generation, disposed, openVersion, shown,
                 editor, task, channels>>

\* The catch clause of _startCore: start() has failed, or a notification to a
\* process that has just ended.
StartFails(c) ==
  /\ core[c].at = "starting"
  /\ \/ process[c].start = "failed"
     \/ process[c].start = "ok" /\ ~Stale(c) /\ open /\ ~Alive(c)
  /\ client' = IF client = c THEN None ELSE client
  /\ core' = [core EXCEPT ![c].at = "stopping"]
  /\ process' = Stopped(c)
  /\ UNCHANGED <<startPromise, restartPromise, generation, disposed, openVersion, shown,
                 editor, task, channels>>

StopOfStart(c) ==
  /\ core[c].at = "stopping" /\ process[c].stop = "done"
  /\ core' = [core EXCEPT ![c].at = "finished"]
  /\ UNCHANGED <<controller, editor, task, process, channels>>

\* start() clears startPromise; whoever waits for it goes on.
StartEnds(c) ==
  /\ core[c].at = "finished"
  /\ core' = [core EXCEPT ![c].at = "done"]
  /\ startPromise' = None
  /\ UNCHANGED <<client, restartPromise, generation, disposed, openVersion, shown,
                 editor, task, process, channels>>

\* A restart whose stop() has returned starts a server, unless disposed.
RestartStarts(t) ==
  /\ task[t].kind = "restart" /\ task[t].at = "stopping" /\ TaskReady(t)
  /\ IF disposed
       THEN /\ Ended(t) /\ restartPromise' = None
            /\ UNCHANGED <<client, startPromise, core, process>>
       ELSE StartServer(t, "restart", "starting", 1) /\ UNCHANGED restartPromise
  /\ UNCHANGED <<generation, disposed, openVersion, shown, editor, channels>>

RestartEnds(t) ==
  /\ task[t].kind = "restart" /\ task[t].at = "starting" /\ TaskReady(t)
  /\ Ended(t)
  /\ restartPromise' = None
  /\ UNCHANGED <<client, startPromise, generation, disposed, openVersion, shown,
                 editor, core, process, channels>>

\* addFolder has returned to a provider, which calls start() once more.
QueryStarts(t) ==
  /\ task[t].kind = "query" /\ task[t].at = "starting" /\ TaskReady(t)
  /\ StartServer(t, "query", "again", task[t].doc)
  /\ UNCHANGED <<restartPromise, generation, disposed, openVersion, shown, editor, channels>>

\* The document that the event or the provider was called with is sent if the
\* server does not know it, and a provider's request follows.
DocumentSent(t) ==
  /\ \/ task[t].kind = "open" /\ task[t].at = "starting"
     \/ task[t].kind = "query" /\ task[t].at = "again"
  /\ TaskReady(t)
  /\ Ended(t)
  /\ \/ DidOpen(TextOf(task[t].doc))
     \/ client # None /\ ~Alive(client) /\ UNCHANGED <<toServer, openVersion>>
  /\ UNCHANGED <<client, startPromise, restartPromise, generation, disposed, shown,
                 editor, core, process, held, toClient>>

FolderRemoved(t) ==
  /\ task[t].kind = "remove" /\ task[t].at = "stopping" /\ TaskReady(t)
  /\ Ended(t)
  /\ UNCHANGED <<controller, editor, core, process, channels>>

Continuation ==
  \/ \E c \in Client : StartSucceeds(c) \/ StartFails(c) \/ StopOfStart(c) \/ StartEnds(c)
  \/ \E t \in Task : RestartStarts(t) \/ RestartEnds(t) \/ QueryStarts(t)
                     \/ DocumentSent(t) \/ FolderRemoved(t)

-----------------------------------------------------------------------------
(* Events of the editor.                                                   *)

\* activate() registers the handlers of the editor's events.
Activated ==
  /\ Activating /\ listening' = TRUE
  /\ UNCHANGED <<controller, documents, open, version, core, task, process, channels>>

\* A new call by the editor, whose handlers find the controller of the folder
\* only until the folder is removed.  Calls are numbered in their order.
Callable(t) == /\ Idle /\ listening /\ ~disposed
               /\ task[t].at = "idle" /\ \A s \in 1..t - 1 : task[s].at # "idle"

\* onDidOpenTextDocument, whose handler calls addFolder, once registered.
OpenDocument ==
  /\ Idle /\ ~open /\ documents < MaxDocument
  /\ open' = TRUE /\ documents' = documents + 1
  /\ IF listening /\ ~disposed
       THEN \E t \in Task :
              /\ Callable(t)
              /\ StartServer(t, "open", "starting", documents + 1)
       ELSE UNCHANGED <<client, startPromise, core, process, task>>
  /\ UNCHANGED <<restartPromise, generation, disposed, openVersion, shown, listening,
                 version, channels>>

\* onDidChangeTextDocument.
ChangeDocument ==
  /\ Idle /\ open /\ version[documents] < MaxVersion
  /\ version' = [version EXCEPT ![documents] = @ + 1]
  /\ IF listening THEN DidOpen(<<documents, version[documents] + 1>>)
                  ELSE UNCHANGED <<toServer, openVersion>>
  /\ UNCHANGED <<client, startPromise, restartPromise, generation, disposed, shown,
                 listening, documents, open, core, task, process, held, toClient>>

\* onDidCloseTextDocument: the server is told, and the diagnostics are deleted.
CloseDocument ==
  /\ Idle /\ open /\ open' = FALSE
  /\ IF listening
       THEN /\ IF Running /\ openVersion # 0 THEN Notified("close", TextOf(documents))
                                             ELSE UNCHANGED toServer
            /\ openVersion' = 0 /\ shown' = None
       ELSE UNCHANGED <<toServer, openVersion, shown>>
  /\ UNCHANGED <<client, startPromise, restartPromise, generation, disposed, listening,
                 documents, version, core, task, process, held, toClient>>

\* A provider is called for the open document; it calls addFolder first.
Query(t) ==
  /\ Callable(t) /\ open
  /\ StartServer(t, "query", "starting", documents)
  /\ UNCHANGED <<restartPromise, generation, disposed, openVersion, shown, editor, channels>>

\* The restart command, and a change of the configuration.  A call that joins
\* the restart under way changes nothing.
Restart(t) ==
  /\ Callable(t)
  /\ restartPromise = None /\ restartPromise' = t
  /\ StopServer
  /\ task' = [task EXCEPT ![t] = [kind |-> "restart", at |-> "stopping", on |-> client,
                                  doc |-> 1, generation |-> generation + 1]]
  /\ UNCHANGED <<startPromise, disposed, editor, core, channels>>

\* removeFolder, and the end of the extension: dispose.
RemoveFolder(t) ==
  /\ Callable(t)
  /\ disposed' = TRUE
  /\ StopServer
  /\ task' = [task EXCEPT ![t] = [kind |-> "remove", at |-> "stopping", on |-> client,
                                  doc |-> 1, generation |-> generation + 1]]
  /\ UNCHANGED <<startPromise, restartPromise, editor, core, channels>>

-----------------------------------------------------------------------------
(* Events of a client: the steps of its contract.                          *)

Initialized(c) ==
  /\ Idle /\ process[c].start = "pending" /\ Alive(c)
  /\ process' = [process EXCEPT ![c] = [is |-> @.is, start |-> "ok", stop |-> @.stop, up |-> TRUE]]
  /\ UNCHANGED <<controller, editor, core, task, channels>>

\* An error or a timeout of initialize; the process is killed.
InitializeFails(c) ==
  /\ Idle /\ process[c].start = "pending" /\ ~Closed(c)
  /\ process' = [process EXCEPT ![c] = [is |-> IF @.is = "alive" THEN "dying" ELSE @.is,
                                         start |-> "failed", stop |-> @.stop, up |-> @.up]]
  /\ UNCHANGED <<controller, editor, core, task, channels>>

\* handleNotification, for publishDiagnostics of any client: what is older
\* than the open document is ignored; a publication without version is not.
PublishDiagnostics(c) ==
  /\ Idle /\ toClient[c] # <<>>
  /\ toClient' = [toClient EXCEPT ![c] = Tail(@)]
  /\ LET text == Head(toClient[c]) IN
       shown' = IF open /\ text # None /\ text[2] < version[documents] THEN shown ELSE text
  /\ UNCHANGED <<client, startPromise, restartPromise, generation, disposed, openVersion,
                 editor, core, task, process, held, toServer>>

\* Faulty variant of ClientExit: the synchronized versions stay.
ExitKeepsVersions(c) ==
  /\ Idle /\ process[c].is = "dead" /\ toClient[c] = <<>>
  /\ process' = [process EXCEPT ![c] =
       [is |-> "closed", start |-> IF @.start = "pending" THEN "failed" ELSE @.start,
        stop |-> IF @.stop = "pending" THEN "done" ELSE @.stop, up |-> FALSE]]
  /\ client' = IF client = c THEN None ELSE client
  /\ UNCHANGED <<startPromise, restartPromise, generation, disposed, openVersion, shown,
                 editor, core, task, channels>>

\* Faulty variant of ClientExit: what is pending is not rejected.
ExitUnsettled(c) ==
  /\ Idle /\ process[c].is = "dead" /\ toClient[c] = <<>>
  /\ process' = [process EXCEPT ![c].is = "closed", ![c].up = FALSE]
  /\ IF client = c THEN client' = None /\ Forgotten
                   ELSE UNCHANGED <<client, openVersion, shown>>
  /\ UNCHANGED <<startPromise, restartPromise, generation, disposed, editor, core, task,
                 channels>>

\* The close event: the client rejects what is pending and reports its exit,
\* which handleClientExit ignores unless the client is the current one.
ClientExit(c) ==
  /\ Idle /\ process[c].is = "dead" /\ toClient[c] = <<>>
  /\ process' = [process EXCEPT ![c] =
       [is |-> "closed", start |-> IF @.start = "pending" THEN "failed" ELSE @.start,
        stop |-> IF @.stop = "pending" THEN "done" ELSE @.stop, up |-> FALSE]]
  /\ IF client = c THEN client' = None /\ Forgotten
                   ELSE UNCHANGED <<client, openVersion, shown>>
  /\ UNCHANGED <<startPromise, restartPromise, generation, disposed, editor, core, task,
                 channels>>

-----------------------------------------------------------------------------
(* The servers, which follow LspSession.                                   *)

Held(text, m) ==
  CASE m.kind = "open"   -> IF text = None THEN m.text ELSE text
    [] m.kind = "change" -> IF text # None /\ m.text[2] > text[2] THEN m.text ELSE text
    [] m.kind = "close"  -> None

\* A notification that changes the store publishes the diagnostics.
Serve(c) ==
  /\ Alive(c) /\ toServer[c] # <<>>
  /\ LET text == Held(held[c], Head(toServer[c])) IN
       /\ held' = [held EXCEPT ![c] = text]
       /\ toClient' = [toClient EXCEPT ![c] = IF text = held[c] THEN @ ELSE Append(@, text)]
  /\ toServer' = [toServer EXCEPT ![c] = Tail(@)]
  /\ UNCHANGED <<controller, editor, core, task, process>>

\* A process ends: asked to, killed, or by a crash.
Exit(c) ==
  /\ Alive(c)
  /\ process' = [process EXCEPT ![c].is = "dead"]
  /\ toServer' = [toServer EXCEPT ![c] = <<>>]
  /\ UNCHANGED <<controller, editor, core, task, held, toClient>>

-----------------------------------------------------------------------------

ClientEvent(c) == Initialized(c) \/ InitializeFails(c) \/ PublishDiagnostics(c) \/ ClientExit(c)

Next ==
  \/ Continuation
  \/ Activated \/ OpenDocument \/ ChangeDocument \/ CloseDocument
  \/ \E t \in Task : Query(t) \/ Restart(t) \/ RemoveFolder(t)
  \/ \E c \in Client : ClientEvent(c) \/ Serve(c) \/ Exit(c)

\* Continuations run, the other folders come up, the promises of a client settle as ServerProcess says,
\* and a process that is to end ends.  A server in use may run for ever.
Fairness ==
  /\ WF_vars(Continuation) /\ WF_vars(Activated)
  /\ \A c \in Client :
       /\ WF_vars(Initialized(c) \/ InitializeFails(c))
       /\ WF_vars(PublishDiagnostics(c)) /\ WF_vars(ClientExit(c))
       /\ WF_vars((process[c].is = "dying" \/ process[c].stop = "pending") /\ Exit(c))

Spec == Init /\ [][Next]_vars /\ Fairness

-----------------------------------------------------------------------------
(* Properties.                                                             *)

Shown == Text \cup {None}

TypeOK ==
  /\ client \in Client \cup {None} /\ startPromise \in Client \cup {None}
  /\ restartPromise \in Task \cup {None} /\ generation \in Nat /\ disposed \in BOOLEAN
  /\ openVersion \in 0..MaxVersion /\ shown \in Shown
  /\ listening \in BOOLEAN /\ open \in BOOLEAN /\ documents \in 0..MaxDocument
  /\ version \in [Document -> Version]
  /\ core \in [Client -> [at : {"idle", "starting", "stopping", "finished", "done"},
                          generation : Nat]]
  /\ task \in [Task -> [kind : {"open", "query", "restart", "remove"},
                        at : {"idle", "stopping", "starting", "again", "done"},
                        on : Client \cup {None}, doc : Document, generation : Nat]]
  /\ process \in [Client -> [is : {"none", "alive", "dying", "dead", "closed"},
                             start : {"idle", "pending", "ok", "failed"},
                             stop : {"idle", "pending", "done"}, up : BOOLEAN]]
  /\ held \in [Client -> Shown]
  /\ toServer \in [Client -> Seq([kind : {"open", "change", "close"}, text : Text])]
  /\ toClient \in [Client -> Seq(Shown)]

\* What the server of c holds once it has read the first k messages under way,
\* if it refuses none of them.
After(c, k) == IF k = 0 THEN held[c]
               ELSE IF toServer[c][k].kind = "close" THEN None ELSE toServer[c][k].text

\* openVersions says what the server will hold once it has read what it was
\* sent, across crashes, restarts and changes of client: the extension neither
\* believes a document synchronized that is not, nor sends it again.
VersionsAreSent ==
  Running /\ Alive(client) =>
    openVersion = LET text == After(client, Len(toServer[client]))
                  IN IF text = None THEN 0 ELSE text[2]

\* No notification sent is one that the server refuses: nothing is opened twice,
\* changed or closed before it is opened, or changed to an older version.
NothingRefused ==
  \A c \in Client : \A k \in DOMAIN toServer[c] :
    Held(After(c, k - 1), toServer[c][k]) # After(c, k - 1)

\* The current client is one that nobody has stopped and whose end has not been
\* noticed: no provider is left with a server that is going away.
CurrentIsKept == client # None => process[client].stop = "idle" /\ ~Closed(client)

\* A server that is no longer the current one ends, whatever the order of
\* starts, stops, failures and crashes that displaced it.
DisplacedEnds == \A c \in Client : (Alive(c) /\ client # c) ~> ~Alive(c)

\* Every call of the editor comes to its end, although each may wait for a
\* start or a stop that another began.
TasksEnd == \A t \in Task : task[t].at # "idle" ~> task[t].at = "done"

-----------------------------------------------------------------------------
(* What documents say of the extension and the code does not do.           *)

\* "It starts one ApexForge server process for each file-system workspace
\* folder" (LANGUAGE_SERVER.md:3).
OneProcess == \A b, c \in Client : Alive(b) /\ Alive(c) => b = c

\* A restart waits for a server started after it stopped the old one, so that
\* "an older startup" cannot take the place of the new one.
RestartStartsAnew ==
  \A t \in Task :
    task[t].kind = "restart" /\ task[t].at = "starting" /\ task[t].on # None
      => core[task[t].on].generation >= task[t].generation

Settled == /\ Idle /\ listening /\ startPromise = None
           /\ \A c \in Client : toServer[c] = <<>> /\ toClient[c] = <<>>

\* "closing a document clears its diagnostics" (LANGUAGE_SERVER.md): nothing is
\* shown for a closed document, once everything under way has arrived.
ClosedIsClear == Settled /\ ~open => shown = None

\* "Full-text synchronization" (LANGUAGE_SERVER.md:9): a running server holds the
\* text the editor shows, once everything under way has arrived.
Synchronized ==
  Settled /\ open /\ Running /\ Alive(client) => held[client] = TextOf(documents)

=============================================================================
