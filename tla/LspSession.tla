----------------------------- MODULE LspSession -----------------------------
(***************************************************************************)
(* LanguageServerSession.process of apexforge/language_server/server.py:   *)
(* what one decoded JSON-RPC message does to the session and what the      *)
(* server writes back.  The session is a record, so that a specification   *)
(* may have several servers.                                               *)
(*                                                                         *)
(* A message has a method, an id (None: it is a notification) and a flag   *)
(* "valid" for the checks of its params that need no session state.        *)
(* Left out: the trace value, the counters of health_snapshot and the      *)
(* client and root information, which nothing reads.                       *)
(***************************************************************************)
EXTENDS Integers, Sequences

CONSTANTS
  Uri, Version, Text,  \* documents
  Id,                  \* request ids
  Feature,             \* the providers: hover, completion, ...
  NeedsDocument,       \* the features about one open document
  Analysis,            \* what analyze_document gives for a text
  NoProblems, Raised,  \* no diagnostics; an exception that carries none
  None,
  MAX_CANCELLED_REQUEST_IDS

\* The client capabilities that decide what a session serves and publishes.
Capability == Feature \cup {"diagnostics", "versionSupport"}

ASSUME LspConstants ==
  /\ NeedsDocument \subseteq Feature
  /\ Feature \cap {"diagnostics", "versionSupport"} = {}
  /\ Version \subseteq Int
  /\ Text \subseteq DOMAIN Analysis /\ NoProblems # Raised
  /\ None \notin Id \cup Version \cup [version : Version, text : Text]
  /\ MAX_CANCELLED_REQUEST_IDS \in Nat \ {0}

MessageId == Id \cup {None}

\* versionSupport is a member of the publishDiagnostics capability.
Declaration == {c \in SUBSET Capability : "versionSupport" \in c => "diagnostics" \in c}

Message ==
  [method : {"initialize"}, id : MessageId, valid : BOOLEAN,
   declared : Declaration]
  \cup [method : {"initialized", "shutdown", "exit", "$/setTrace", "unknown", "malformed"},
        id : MessageId, valid : BOOLEAN]
  \cup [method : {"$/cancelRequest"}, id : MessageId, valid : BOOLEAN, target : Id]
  \cup [method : {"didOpen", "didChange"}, id : MessageId, valid : BOOLEAN,
        uri : Uri, version : Version, text : Text]
  \cup [method : {"didClose"}, id : MessageId, valid : BOOLEAN, uri : Uri]
  \cup [method : {"feature"}, id : MessageId, valid : BOOLEAN, uri : Uri, feature : Feature]

Document == [version : Version, text : Text]

Session == [initialized : BOOLEAN, shutdown : BOOLEAN,
            exitCode : {None, 0, 1},
            enabled : SUBSET Capability,
            documents : [Uri -> Document \cup {None}],
            cancelled : Seq(Id)]  \* the ledger, oldest first

NewSession == [initialized |-> FALSE, shutdown |-> FALSE, exitCode |-> None,
               enabled |-> {}, documents |-> [u \in Uri |-> None], cancelled |-> <<>>]

-----------------------------------------------------------------------------
(* What the server writes.                                                 *)

IsRequest(m) == m.id # None

\* Every outcome is the session after the message and the messages written.
Silent(s)         == [session |-> s, output |-> <<>>]
Publishing(s, ps) == [session |-> s, output |-> ps]
Answered(s, m)    == [session |-> s, output |-> <<[reply |-> "result", id |-> m.id]>>]

\* A JsonRpcFault, or an exception, answers a request and is only recorded
\* for a notification.
Refused(s, m, code) ==
  [session |-> s, output |-> IF IsRequest(m) THEN <<[reply |-> code, id |-> m.id]>> ELSE <<>>]

Publication(u, version, diagnostics) ==
  [reply |-> "publishDiagnostics", uri |-> u, version |-> version, diagnostics |-> diagnostics]

Cleared(u) == Publication(u, None, NoProblems)

\* The publication that shows a document as it is.
Shown(s, u) ==
  LET d == s.documents[u] IN
  Publication(u, IF "versionSupport" \in s.enabled THEN d.version ELSE None, Analysis[d.text])

\* Faulty variant of PublishDocumentDiagnostics: whatever the analysis gives.
PublishUnchecked(s, u) == IF "diagnostics" \in s.enabled THEN <<Shown(s, u)>> ELSE <<>>

\* An analysis that raises is contained by process: nothing is published.
PublishDocumentDiagnostics(s, u) ==
  IF "diagnostics" \in s.enabled /\ Analysis[s.documents[u].text] # Raised
  THEN <<Shown(s, u)>> ELSE <<>>

-----------------------------------------------------------------------------
(* The cancellation ledger.                                                *)

InLedger(s, id) == \E i \in DOMAIN s.cancelled : s.cancelled[i] = id

Without(ledger, id) ==
  LET i == CHOOSE i \in DOMAIN ledger : ledger[i] = id
  IN  SubSeq(ledger, 1, i - 1) \o SubSeq(ledger, i + 1, Len(ledger))

\* Faulty variant of Remember: a full ledger takes nothing more.
RememberWithinLimit(ledger, id) ==
  IF Len(ledger) >= MAX_CANCELLED_REQUEST_IDS THEN ledger ELSE Append(ledger, id)

\* A full ledger drops its oldest entry.
Remember(ledger, id) ==
  Append(IF Len(ledger) >= MAX_CANCELLED_REQUEST_IDS THEN Tail(ledger) ELSE ledger, id)

CancelRequest(s, m) ==
  IF IsRequest(m) THEN Refused(s, m, "InvalidRequest")
  ELSE IF ~m.valid \/ InLedger(s, m.target) THEN Silent(s)
  ELSE Silent([s EXCEPT !.cancelled = Remember(@, m.target)])

SetTrace(s, m) == Refused(s, m, "InvalidRequest")

\* Faulty variant of RefuseCancelled: the entry stays.
RefuseAndKeep(s, m) == Refused(s, m, "RequestCancelled")

\* A request that was cancelled before it arrived.
RefuseCancelled(s, m) ==
  Refused([s EXCEPT !.cancelled = Without(@, m.id)], m, "RequestCancelled")

-----------------------------------------------------------------------------
(* The lifecycle.                                                          *)

\* The _configure_* methods: they only ever switch capabilities on, except
\* that versionSupport is assigned whenever diagnostics are declared.
Configured(enabled, declared) ==
  declared \cup IF "diagnostics" \in declared THEN enabled \ {"versionSupport"} ELSE enabled

\* The capabilities are configured before the other params are checked.
\* Capabilities that are no object declare nothing and are not valid.
Initialize(s, m) ==
  LET configured == [s EXCEPT !.enabled = Configured(@, m.declared)] IN
  IF m.valid THEN Answered([configured EXCEPT !.initialized = TRUE], m)
             ELSE Refused(configured, m, "InvalidParams")

Exited(s, code) == Silent([s EXCEPT !.exitCode = code])

BeforeInitialize(s, m) ==
  IF m.method = "initialize" /\ IsRequest(m) THEN Initialize(s, m)
  ELSE IF m.method = "exit" /\ ~IsRequest(m) THEN Exited(s, 1)
  ELSE Refused(s, m, "ServerNotInitialized")

AfterShutdown(s, m) ==
  IF m.method = "exit" /\ ~IsRequest(m) /\ m.valid THEN Exited(s, 0)
  ELSE Refused(s, m, "InvalidRequest")

Shutdown(s, m) ==
  IF ~m.valid THEN Refused(s, m, "InvalidParams")
  ELSE Answered([s EXCEPT !.shutdown = TRUE], m)

Exit(s, m) == IF m.valid THEN Exited(s, 1) ELSE Silent(s)

-----------------------------------------------------------------------------
(* Documents and features.                                                 *)

Stored(s, m) == [s EXCEPT !.documents[m.uri] = [version |-> m.version, text |-> m.text]]

DidOpen(s, m) ==
  IF ~m.valid \/ s.documents[m.uri] # None THEN Silent(s)
  ELSE Publishing(Stored(s, m), PublishDocumentDiagnostics(Stored(s, m), m.uri))

\* Faulty variants of DidChange: any version is accepted; the diagnostics are
\* those of the text before the change.
AnyChange(s, m) ==
  IF ~m.valid \/ s.documents[m.uri] = None THEN Silent(s)
  ELSE Publishing(Stored(s, m), PublishDocumentDiagnostics(Stored(s, m), m.uri))
ChangeAfterAnalysis(s, m) ==
  IF ~m.valid \/ s.documents[m.uri] = None THEN Silent(s)
  ELSE IF m.version <= s.documents[m.uri].version THEN Silent(s)
  ELSE Publishing(Stored(s, m), PublishDocumentDiagnostics(s, m.uri))

DidChange(s, m) ==
  IF ~m.valid \/ s.documents[m.uri] = None THEN Silent(s)
  ELSE IF m.version <= s.documents[m.uri].version THEN Silent(s)
  ELSE Publishing(Stored(s, m), PublishDocumentDiagnostics(Stored(s, m), m.uri))

DidClose(s, m) ==
  IF ~m.valid \/ s.documents[m.uri] = None THEN Silent(s)
  ELSE Publishing([s EXCEPT !.documents[m.uri] = None],
                  IF "diagnostics" \in s.enabled THEN <<Cleared(m.uri)>> ELSE <<>>)

\* A provider reads the session and never changes it.  What it answers, a
\* result or an error, is left out.
Serve(s, m) ==
  IF m.feature \notin s.enabled THEN Refused(s, m, "MethodNotFound")
  ELSE IF ~m.valid \/ (m.feature \in NeedsDocument /\ s.documents[m.uri] = None)
  THEN Refused(s, m, "InvalidParams")
  ELSE Answered(s, m)

-----------------------------------------------------------------------------
(* process: the envelope, then the dispatch in the order of the code.      *)

Notifications == {"initialized", "exit", "didOpen", "didChange", "didClose"}
Requests      == {"shutdown", "feature"}

InService(s, m) ==
  IF \/ m.method = "initialize"
     \/ m.method \in Notifications /\ IsRequest(m)
     \/ m.method \in Requests /\ ~IsRequest(m)
  THEN Refused(s, m, "InvalidRequest")
  ELSE CASE m.method = "initialized" -> Silent(s)
         [] m.method = "shutdown"    -> Shutdown(s, m)
         [] m.method = "exit"        -> Exit(s, m)
         [] m.method = "didOpen"     -> DidOpen(s, m)
         [] m.method = "didChange"   -> DidChange(s, m)
         [] m.method = "didClose"    -> DidClose(s, m)
         [] m.method = "feature"     -> Serve(s, m)
         [] m.method = "unknown"     -> Refused(s, m, "MethodNotFound")

\* Faulty variant of Dispatched: shutdown only changes what exit reports.
ServeAfterShutdown(s, m) ==
  IF IsRequest(m) /\ InLedger(s, m.id) THEN RefuseCancelled(s, m)
  ELSE IF ~s.initialized THEN BeforeInitialize(s, m)
  ELSE IF s.shutdown /\ m.method = "exit" THEN AfterShutdown(s, m)
  ELSE InService(s, m)

Dispatched(s, m) ==
  IF IsRequest(m) /\ InLedger(s, m.id) THEN RefuseCancelled(s, m)
  ELSE IF ~s.initialized THEN BeforeInitialize(s, m)
  ELSE IF s.shutdown THEN AfterShutdown(s, m)
  ELSE InService(s, m)

Processed(s, m) ==
  IF m.method = "malformed" THEN Refused(s, m, "InvalidRequest")
  ELSE IF m.method = "$/cancelRequest" THEN CancelRequest(s, m)
  ELSE IF m.method = "$/setTrace" THEN SetTrace(s, m)
  ELSE Dispatched(s, m)

=============================================================================
