--------------------------- MODULE LanguageServer ---------------------------
(***************************************************************************)
(* One run of run_language_server in apexforge/language_server/server.py:  *)
(* messages are read from the input one at a time, processed, and what     *)
(* process returns and queues is written before the next one is read.      *)
(*                                                                         *)
(* The client may send any message at any time.  The history variables     *)
(* record what such a client can know: what it was last shown of every     *)
(* document, what it declared, and which cancellations are still owed.     *)
(***************************************************************************)
EXTENDS LspSession

CONSTANTS MaxCancels  \* bound: cancellations of one id not yet used up

ASSUME MaxCancelsType == MaxCancels \in Nat

VARIABLES
  session,
  process,   \* None while it runs, then what run_language_server returned
  shown,     \* history: the last publication for each uri
  declared,  \* history: the capabilities the accepted initialize declared
  unclaimed, \* history: cancellations of each id that have refused nothing yet
  newest     \* history: the id cancelled last, unless it was refused since

vars == <<session, process, shown, declared, unclaimed, newest>>

EXIT_TRANSPORT_ERROR == 2
EXIT_UNCLEAN == 1

Init ==
  /\ session = NewSession
  /\ process = None
  /\ shown = [u \in Uri |-> None]
  /\ declared = {}
  /\ unclaimed = [i \in Id |-> 0]
  /\ newest = None

-----------------------------------------------------------------------------
(* History.                                                                *)

PublicationsOf(u, output) ==
  {i \in DOMAIN output : output[i].reply = "publishDiagnostics" /\ output[i].uri = u}

ShownAfter(output) ==
  [u \in Uri |-> IF PublicationsOf(u, output) = {} THEN shown[u]
                 ELSE output[CHOOSE i \in PublicationsOf(u, output) :
                                \A j \in PublicationsOf(u, output) : j <= i]]

Refuses(output, id) ==
  \E i \in DOMAIN output : output[i].reply = "RequestCancelled" /\ output[i].id = id

Cancels(m) == m.method = "$/cancelRequest" /\ ~IsRequest(m) /\ m.valid

Remembered(m, output) ==
  /\ shown' = ShownAfter(output)
  /\ unclaimed' = [i \in Id |-> unclaimed[i] + (IF Cancels(m) /\ m.target = i THEN 1 ELSE 0)
                                             - (IF Refuses(output, i) THEN 1 ELSE 0)]
  /\ newest' = IF Cancels(m) THEN m.target
               ELSE IF newest # None /\ Refuses(output, newest) THEN None ELSE newest
  /\ declared' = IF ~session.initialized /\ session'.initialized THEN m.declared ELSE declared

-----------------------------------------------------------------------------

\* One turn of the loop; the process ends with the turn that sets exited.
Receive(m) ==
  /\ process = None
  /\ Cancels(m) => unclaimed[m.target] < MaxCancels
  /\ LET outcome == Processed(session, m) IN
     /\ session' = outcome.session
     /\ process' = outcome.session.exitCode
     /\ Remembered(m, outcome.output)

\* The input ends between two messages, or in the middle of one.
EndOfInput ==
  /\ process = None
  /\ process' \in {EXIT_UNCLEAN, EXIT_TRANSPORT_ERROR}
  /\ UNCHANGED <<session, shown, declared, unclaimed, newest>>

Next == (\E m \in Message : Receive(m)) \/ EndOfInput

Spec == Init /\ [][Next]_vars

-----------------------------------------------------------------------------
(* Properties.                                                             *)

AnyPublication ==
  [reply : {"publishDiagnostics"}, uri : Uri, version : Version \cup {None},
   diagnostics : ({Analysis[t] : t \in Text} \ {Raised}) \cup {NoProblems}]

TypeOK ==
  /\ session \in Session
  /\ process \in {None, 0, EXIT_UNCLEAN, EXIT_TRANSPORT_ERROR}
  /\ shown \in [Uri -> AnyPublication \cup {None}]
  /\ declared \in Declaration
  /\ unclaimed \in [Id -> Nat]
  /\ newest \in Id \cup {None}

(* What the client was last shown of a document is what the server has:    *)
(* the diagnostics of the text and version in the store, nothing for a     *)
(* closed document.  A text whose analysis raises is the exception.        *)
DiagnosticsCurrent ==
  \A u \in Uri :
    IF session.documents[u] = None THEN shown[u] \in {None, Cleared(u)}
    ELSE \/ "diagnostics" \notin session.enabled /\ shown[u] = None
         \/ Analysis[session.documents[u].text] = Raised
         \/ shown[u] = Shown(session, u)

(* Every didOpen and didChange is followed by diagnostics (the "triggers"  *)
(* of diagnostics_contract): an open document never shows those of an      *)
(* older version.                                                          *)
NeverStale ==
  \A u \in Uri :
    session.documents[u] # None /\ "versionSupport" \in session.enabled
      => shown[u] # None /\ shown[u].version = session.documents[u].version

(* From the opening of a document to its closing, the versions it is       *)
(* published with only increase, although the store replaces the text      *)
(* whatever the client sends.                                              *)
VersionsAscend ==
  [][ \A u \in Uri :
        /\ session.documents[u] # None /\ session'.documents[u] # None
        /\ shown'[u] # shown[u]
        => shown[u] = None \/ shown[u].version = None \/ shown'[u].version > shown[u].version ]_vars

(* Documents are opened, changed and closed only between initialize and    *)
(* shutdown, the capabilities are fixed from initialize on, and only a     *)
(* shutdown makes exit 0.                                                  *)
InSession == session.initialized /\ ~session.shutdown

ServedInSession ==
  [][ /\ session'.documents # session.documents => InSession
      /\ session.initialized => session'.enabled = session.enabled
      /\ process' = 0 /\ process # 0 => session.shutdown ]_vars

(* Every request gets exactly one answer, with its id and before anything  *)
(* it makes the server publish; a notification gets none.                  *)
OneAnswerEach ==
  process = None =>
    \A m \in Message :
      LET output  == Processed(session, m).output
          answers == {i \in DOMAIN output : output[i].reply # "publishDiagnostics"}
      IN  IF IsRequest(m) THEN answers = {1} /\ output[1].id = m.id ELSE answers = {}

(* A request is refused as cancelled only on account of a cancellation     *)
(* that has refused no other one: an id in the ledger has one left.        *)
CancelledOnce == \A i \in Id : InLedger(session, i) => unclaimed[i] > 0

(* The ledger stays within its limit, holds no id twice, and what makes    *)
(* room is never the cancellation that came last.                          *)
NewestCancelHeld ==
  /\ Len(session.cancelled) <= MAX_CANCELLED_REQUEST_IDS
  /\ \A i, j \in DOMAIN session.cancelled :
       session.cancelled[i] = session.cancelled[j] => i = j
  /\ newest # None => InLedger(session, newest)

(* The capabilities a session serves are the ones negotiated, that is,     *)
(* declared by the client whose initialize was accepted.                   *)
Negotiated == session.initialized => session.enabled = declared

=============================================================================
