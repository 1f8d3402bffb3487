------------------------ MODULE LanguageServerProofs ------------------------
(***************************************************************************)
(* Proofs about LanguageServer, for every set of documents, versions,      *)
(* texts and request ids, every analysis and every limit of the ledger:    *)
(* what the client is shown is what the store holds, and a cancellation    *)
(* refuses one request at most.                                            *)
(***************************************************************************)
EXTENDS LanguageServer, SequenceTheorems, TLAPS

-----------------------------------------------------------------------------
(* The inductive invariant.                                                *)

\* Before initialize nothing is open and nothing was shown.
NothingBefore ==
  ~session.initialized =>
    \A u \in Uri : session.documents[u] = None /\ shown[u] = None

\* A client that declared no diagnostics is shown none.
SilentUnasked == "diagnostics" \notin session.enabled => \A u \in Uri : shown[u] = None

\* A publication carries a version only for a client that can read one, and
\* never one above the version in the store.
ShownIsStored ==
  \A u \in Uri :
    shown[u] # None /\ shown[u].version # None =>
      /\ "versionSupport" \in session.enabled
      /\ session.documents[u] # None
      /\ shown[u].version <= session.documents[u].version

\* The process ends with the message that sets the exit code.
ExitEnds == process = None => session.exitCode = None

SessionInv ==
  /\ TypeOK /\ NothingBefore /\ SilentUnasked /\ ShownIsStored /\ ExitEnds
  /\ DiagnosticsCurrent /\ CancelledOnce /\ NewestCancelHeld

-----------------------------------------------------------------------------
(* Lemmas about the ledger.                                                *)

Holds(ledger, id) == \E i \in DOMAIN ledger : ledger[i] = id
Distinct(ledger) == \A i, j \in DOMAIN ledger : ledger[i] = ledger[j] => i = j

\* Taking an id out of a ledger that holds it once takes just that one.
LEMMA WithoutTakes ==
  ASSUME NEW ledger \in Seq(Id), NEW id \in Id, Holds(ledger, id), Distinct(ledger)
  PROVE  LET rest == Without(ledger, id)
         IN  /\ rest \in Seq(Id) /\ Distinct(rest) /\ Len(rest) = Len(ledger) - 1
             /\ \A other : Holds(rest, other) <=> Holds(ledger, other) /\ other # id
<1>. DEFINE i == CHOOSE i \in DOMAIN ledger : ledger[i] = id
            n == Len(ledger)
            before == SubSeq(ledger, 1, i - 1)
            after == SubSeq(ledger, i + 1, n)
            rest == before \o after
<1>1. i \in DOMAIN ledger /\ ledger[i] = id
  BY DEF Holds
<1>. HIDE DEF i
<1>2. n \in Nat /\ DOMAIN ledger = 1..n /\ i \in 1..n /\ \A k \in 1..n : ledger[k] \in Id
  BY <1>1
<1>. HIDE DEF n
<1>3. before \in Seq(Id) /\ Len(before) = i - 1 /\ \A k \in 1..i - 1 : before[k] = ledger[k]
  BY <1>2, SubSeqProperties
<1>4. after \in Seq(Id) /\ Len(after) = n - i /\ \A k \in 1..n - i : after[k] = ledger[i + k]
  <2>1. \A k \in i + 1..n : ledger[k] \in Id
    BY <1>2
  <2>. QED
    BY <1>2, <2>1, SubSeqProperties
<1>. HIDE DEF before, after
<1>5. /\ rest \in Seq(Id) /\ Len(rest) = Len(before) + Len(after)
      /\ \A k \in 1..Len(before) + Len(after) :
           rest[k] = IF k <= Len(before) THEN before[k] ELSE after[k - Len(before)]
  <2>1. before \in Seq(Id) /\ after \in Seq(Id)
    BY <1>3, <1>4
  <2>. QED
    BY <2>1, ConcatProperties
<1>6. /\ Len(before) + Len(after) = n - 1 /\ DOMAIN rest = 1..n - 1
      /\ \A k \in 1..n - 1 : rest[k] = IF k < i THEN ledger[k] ELSE ledger[k + 1]
  <2>1. Len(before) + Len(after) = n - 1
    BY <1>2, <1>3, <1>4
  <2>2. DOMAIN rest = 1..n - 1
    BY <1>5, <2>1
  <2>3. ASSUME NEW k \in 1..n - 1, k < i
        PROVE  rest[k] = ledger[k]
    BY <1>2, <1>3, <1>5, <2>1, <2>3
  <2>4. ASSUME NEW k \in 1..n - 1, ~(k < i)
        PROVE  rest[k] = ledger[k + 1]
    <3>1. k - (i - 1) \in 1..n - i /\ i + (k - (i - 1)) = k + 1
      BY <1>2, <2>4
    <3>. QED
      BY <1>2, <1>3, <1>4, <1>5, <2>1, <2>4, <3>1
  <2>. QED
    BY <2>1, <2>2, <2>3, <2>4
<1>. HIDE DEF rest
<1>. DEFINE place(k) == IF k < i THEN k ELSE k + 1
<1>7. /\ \A k \in 1..n - 1 : place(k) \in 1..n /\ place(k) # i /\ rest[k] = ledger[place(k)]
      /\ \A j, k \in 1..n - 1 : place(j) = place(k) => j = k
  BY <1>2, <1>6
<1>. HIDE DEF place
<1>8. Distinct(rest)
  <2>. SUFFICES ASSUME NEW j \in 1..n - 1, NEW k \in 1..n - 1, rest[j] = rest[k]
                PROVE  j = k
    BY <1>6 DEF Distinct
  <2>1. ledger[place(j)] = ledger[place(k)]
    BY <1>7
  <2>2. place(j) = place(k)
    BY <1>2, <1>7, <2>1 DEF Distinct
  <2>. QED
    BY <1>7, <2>2
<1>9. ASSUME NEW other
      PROVE  Holds(rest, other) <=> Holds(ledger, other) /\ other # id
  <2>1. Holds(rest, other) => Holds(ledger, other) /\ other # id
    <3>. SUFFICES ASSUME NEW k \in 1..n - 1, rest[k] = other
                  PROVE  Holds(ledger, other) /\ other # id
      BY <1>6 DEF Holds
    <3>1. place(k) \in 1..n /\ place(k) # i /\ ledger[place(k)] = other
      BY <1>7
    <3>. QED
      BY <1>1, <1>2, <3>1 DEF Holds, Distinct
  <2>2. ASSUME NEW k \in 1..n, ledger[k] = other, other # id
        PROVE  Holds(rest, other)
    <3>1. CASE k < i
      <4>1. k \in 1..n - 1
        BY <1>2, <2>2, <3>1
      <4>2. rest[k] = other
        BY <1>6, <2>2, <3>1, <4>1
      <4>. QED
        BY <1>6, <4>1, <4>2 DEF Holds
    <3>2. CASE k > i
      <4>1. k - 1 \in 1..n - 1 /\ ~(k - 1 < i) /\ (k - 1) + 1 = k
        BY <1>2, <3>2
      <4>2. rest[k - 1] = other
        BY <1>6, <2>2, <4>1
      <4>. QED
        BY <1>6, <4>1, <4>2 DEF Holds
    <3>. QED
      BY <1>1, <1>2, <2>2, <3>1, <3>2
  <2>. QED
    BY <1>2, <2>1, <2>2 DEF Holds
<1>10. Without(ledger, id) = rest
  BY DEF Without, rest, before, after, i, n
<1>. QED
  BY <1>5, <1>6, <1>8, <1>9, <1>10 DEF n

\* The tail of a ledger without repetitions holds all but its first id.
LEMMA TailDrops ==
  ASSUME NEW ledger \in Seq(Id), ledger # <<>>, Distinct(ledger)
  PROVE  /\ Tail(ledger) \in Seq(Id) /\ Distinct(Tail(ledger))
         /\ Len(Tail(ledger)) = Len(ledger) - 1
         /\ \A id : Holds(Tail(ledger), id) => Holds(ledger, id)
<1>1. /\ Tail(ledger) \in Seq(Id) /\ Len(Tail(ledger)) = Len(ledger) - 1
      /\ \A k \in 1..Len(ledger) - 1 : Tail(ledger)[k] = ledger[k + 1]
      /\ DOMAIN Tail(ledger) = 1..Len(ledger) - 1 /\ DOMAIN ledger = 1..Len(ledger)
      /\ Len(ledger) \in Nat
  BY HeadTailProperties
<1>. QED
  BY <1>1 DEF Distinct, Holds

\* A new id is remembered, within the limit and beside none but older ones.
LEMMA RememberKeeps ==
  ASSUME NEW ledger \in Seq(Id), NEW id \in Id, Distinct(ledger), ~Holds(ledger, id),
         Len(ledger) <= MAX_CANCELLED_REQUEST_IDS
  PROVE  LET kept == Remember(ledger, id)
         IN  /\ kept \in Seq(Id) /\ Distinct(kept) /\ Holds(kept, id)
             /\ Len(kept) <= MAX_CANCELLED_REQUEST_IDS
             /\ \A other : Holds(kept, other) => other = id \/ Holds(ledger, other)
<1>. DEFINE room == IF Len(ledger) >= MAX_CANCELLED_REQUEST_IDS THEN Tail(ledger) ELSE ledger
            kept == Append(room, id)
<1>0. MAX_CANCELLED_REQUEST_IDS \in Nat \ {0}
  BY LspConstants
<1>1. /\ room \in Seq(Id) /\ Distinct(room) /\ Len(room) < MAX_CANCELLED_REQUEST_IDS
      /\ \A other : Holds(room, other) => Holds(ledger, other)
  <2>1. CASE Len(ledger) >= MAX_CANCELLED_REQUEST_IDS
    <3>1. ledger # <<>>
      BY <1>0, <2>1
    <3>. QED
      BY <1>0, <2>1, <3>1, TailDrops
  <2>2. CASE ~(Len(ledger) >= MAX_CANCELLED_REQUEST_IDS)
    BY <1>0, <2>2
  <2>. QED
    BY <2>1, <2>2
<1>. HIDE DEF room
<1>2. /\ kept \in Seq(Id) /\ Len(kept) = Len(room) + 1 /\ kept[Len(room) + 1] = id
      /\ \A k \in 1..Len(room) : kept[k] = room[k]
      /\ DOMAIN kept = 1..Len(room) + 1 /\ DOMAIN room = 1..Len(room) /\ Len(room) \in Nat
  BY <1>1, AppendProperties
<1>. HIDE DEF kept
<1>3. ~Holds(room, id)
  BY <1>1
<1>4. Distinct(kept)
  BY <1>1, <1>2, <1>3 DEF Distinct, Holds
<1>5. Holds(kept, id) /\ \A other : Holds(kept, other) => other = id \/ Holds(room, other)
  BY <1>2 DEF Holds
<1>6. Len(kept) <= MAX_CANCELLED_REQUEST_IDS
  BY <1>0, <1>1, <1>2
<1>7. Remember(ledger, id) = kept
  BY DEF Remember, room, kept
<1>. QED
  BY <1>1, <1>2, <1>4, <1>5, <1>6, <1>7

-----------------------------------------------------------------------------
(* What one message can be: five kinds, each said by what it does to the   *)
(* session and by what it writes.                                          *)

\* Neither a publication nor a refusal of a cancelled request.
Quiet(output) ==
  \A i \in DOMAIN output : output[i].reply \notin {"publishDiagnostics", "RequestCancelled"}

\* A turn that leaves the documents and the ledger alone.
Lifecycle(s, m, outcome) ==
  LET after == outcome.session IN
  /\ ~Cancels(m)
  /\ after \in Session
  /\ after.documents = s.documents /\ after.cancelled = s.cancelled
  /\ s.initialized => after.initialized /\ after.enabled = s.enabled
  /\ ~s.initialized /\ after.initialized => m.declared \in Declaration
  /\ after.exitCode = 0 /\ s.exitCode # 0 => s.shutdown
  /\ Quiet(outcome.output)

Cancellation(s, m, outcome) ==
  /\ Cancels(m) /\ m.target \in Id
  /\ outcome.session = IF InLedger(s, m.target) THEN s
                       ELSE [s EXCEPT !.cancelled = Remember(@, m.target)]
  /\ outcome.output = <<>>

Refusal(s, m, outcome) ==
  /\ ~Cancels(m) /\ m.id \in Id /\ InLedger(s, m.id)
  /\ outcome.session = [s EXCEPT !.cancelled = Without(@, m.id)]
  /\ outcome.output = <<[reply |-> "RequestCancelled", id |-> m.id]>>

Storing(s, m, outcome) ==
  /\ ~Cancels(m) /\ s.initialized /\ ~s.shutdown
  /\ m.uri \in Uri /\ m.version \in Version /\ m.text \in Text
  /\ s.documents[m.uri] = None \/ m.version > s.documents[m.uri].version
  /\ outcome.session = Stored(s, m)
  /\ outcome.output = PublishDocumentDiagnostics(Stored(s, m), m.uri)

Closing(s, m, outcome) ==
  /\ ~Cancels(m) /\ s.initialized /\ ~s.shutdown
  /\ m.uri \in Uri /\ s.documents[m.uri] # None
  /\ outcome.session = [s EXCEPT !.documents[m.uri] = None]
  /\ outcome.output = IF "diagnostics" \in s.enabled THEN <<Cleared(m.uri)>> ELSE <<>>

LEMMA MessageParts ==
  ASSUME NEW m \in Message
  PROVE  /\ m.id \in MessageId
         /\ m.method \in {"didOpen", "didChange"} =>
              m.uri \in Uri /\ m.version \in Version /\ m.text \in Text
         /\ m.method = "didClose" => m.uri \in Uri
         /\ m.method = "$/cancelRequest" => m.target \in Id
         /\ m.method = "initialize" => m.declared \in Declaration
         /\ m.method \in {"initialize", "initialized", "shutdown", "exit", "$/setTrace",
                          "unknown", "malformed", "$/cancelRequest", "didOpen",
                          "didChange", "didClose", "feature"}
  BY DEF Message

\* An answer, or nothing: a result or an error that is no refusal.
LEMMA QuietAnswers ==
  ASSUME NEW s, NEW m
  PROVE  /\ Silent(s).session = s /\ Quiet(Silent(s).output)
         /\ Answered(s, m).session = s /\ Quiet(Answered(s, m).output)
<1>1. Quiet(<<>>) /\ Quiet(<<[reply |-> "result", id |-> m.id]>>)
  BY DEF Quiet
<1>. QED
  BY <1>1 DEF Silent, Answered

LEMMA QuietRefusals ==
  ASSUME NEW s, NEW m, NEW code, code \notin {"publishDiagnostics", "RequestCancelled"}
  PROVE  Refused(s, m, code).session = s /\ Quiet(Refused(s, m, code).output)
<1>1. Quiet(<<>>) /\ Quiet(<<[reply |-> code, id |-> m.id]>>)
  BY DEF Quiet
<1>. QED
  BY <1>1 DEF Refused

\* The session is untouched.
LEMMA NothingDone ==
  ASSUME NEW s \in Session, NEW m \in Message, ~Cancels(m), NEW outcome,
         outcome.session = s, Quiet(outcome.output)
  PROVE  Lifecycle(s, m, outcome)
  BY DEF Lifecycle

\* initialize: what it declares is configured even when it is refused.
LEMMA InitializeIsLifecycle ==
  ASSUME NEW s \in Session, NEW m \in Message, m.method = "initialize", ~s.initialized
  PROVE  Lifecycle(s, m, Initialize(s, m))
<1>. DEFINE configured == [s EXCEPT !.enabled = Configured(@, m.declared)]
<1>1. m.declared \in Declaration /\ ~Cancels(m)
  BY MessageParts DEF Cancels
<1>2. Configured(s.enabled, m.declared) \in SUBSET Capability
  BY <1>1 DEF Configured, Declaration, Session
<1>3. /\ configured \in Session /\ [configured EXCEPT !.initialized = TRUE] \in Session
      /\ configured.documents = s.documents /\ configured.cancelled = s.cancelled
      /\ configured.exitCode = s.exitCode
  BY <1>2 DEF Session
<1>. HIDE DEF configured
<1>4. CASE m.valid
  <2>. DEFINE accepted == [configured EXCEPT !.initialized = TRUE]
  <2>1. /\ accepted \in Session
        /\ accepted.documents = s.documents /\ accepted.cancelled = s.cancelled
        /\ accepted.exitCode = s.exitCode
    BY <1>3 DEF Session
  <2>2. Initialize(s, m) = Answered(accepted, m)
    BY <1>4 DEF Initialize, configured
  <2>. HIDE DEF accepted
  <2>. QED
    BY <1>1, <2>1, <2>2, QuietAnswers DEF Lifecycle
<1>5. CASE ~m.valid
  <2>1. Initialize(s, m) = Refused(configured, m, "InvalidParams")
    BY <1>5 DEF Initialize, configured
  <2>. QED
    BY <1>1, <1>3, <2>1, QuietRefusals DEF Lifecycle
<1>. QED
  BY <1>4, <1>5

\* shutdown and exit: a flag or an exit code.
LEMMA EndIsLifecycle ==
  ASSUME NEW s \in Session, NEW m \in Message, ~Cancels(m)
  PROVE  /\ Lifecycle(s, m, Answered([s EXCEPT !.shutdown = TRUE], m))
         /\ Lifecycle(s, m, Exited(s, 1))
         /\ s.shutdown => Lifecycle(s, m, Exited(s, 0))
<1>1. Lifecycle(s, m, Answered([s EXCEPT !.shutdown = TRUE], m))
  <2>. DEFINE after == [s EXCEPT !.shutdown = TRUE]
  <2>1. /\ after \in Session /\ after.documents = s.documents /\ after.cancelled = s.cancelled
        /\ after.initialized = s.initialized /\ after.enabled = s.enabled
        /\ after.exitCode = s.exitCode
    BY DEF Session
  <2>. HIDE DEF after
  <2>2. Lifecycle(s, m, Answered(after, m))
    BY <2>1, QuietAnswers DEF Lifecycle
  <2>. QED
    BY <2>2 DEF after
<1>2. ASSUME NEW code \in {0, 1}, code = 0 => s.shutdown
      PROVE  Lifecycle(s, m, Exited(s, code))
  <2>. DEFINE after == [s EXCEPT !.exitCode = code]
  <2>1. /\ after \in Session /\ after.documents = s.documents
        /\ after.cancelled = s.cancelled /\ after.exitCode = code
        /\ after.initialized = s.initialized /\ after.enabled = s.enabled
    BY DEF Session
  <2>2. Exited(s, code) = Silent(after)
    BY DEF Exited
  <2>. HIDE DEF after
  <2>. QED
    BY <1>2, <2>1, <2>2, QuietAnswers DEF Lifecycle
<1>. QED
  BY <1>1, <1>2

\* Every message is of one of the five kinds.
LEMMA Kinds ==
  ASSUME NEW s \in Session, NEW m \in Message
  PROVE  LET outcome == Processed(s, m)
         IN  \/ Lifecycle(s, m, outcome) \/ Cancellation(s, m, outcome)
             \/ Refusal(s, m, outcome) \/ Storing(s, m, outcome) \/ Closing(s, m, outcome)
<1>. DEFINE Kind(outcome) == \/ Lifecycle(s, m, outcome) \/ Cancellation(s, m, outcome)
                             \/ Refusal(s, m, outcome) \/ Storing(s, m, outcome)
                             \/ Closing(s, m, outcome)
<1>1. ASSUME ~Cancels(m), NEW code, code \notin {"publishDiagnostics", "RequestCancelled"}
      PROVE  Kind(Refused(s, m, code))
  BY <1>1, QuietRefusals, NothingDone
<1>2. ASSUME ~Cancels(m)
      PROVE  Kind(Silent(s)) /\ Kind(Answered(s, m))
  BY <1>2, QuietAnswers, NothingDone
<1>3. CASE m.method = "malformed"
  <2>1. Processed(s, m) = Refused(s, m, "InvalidRequest") /\ ~Cancels(m)
    BY <1>3 DEF Processed, Cancels
  <2>. QED
    BY <1>1, <2>1
<1>4. CASE m.method = "$/cancelRequest"
  <2>1. Processed(s, m) = CancelRequest(s, m) /\ m.target \in Id
    BY <1>4, MessageParts DEF Processed
  <2>2. CASE IsRequest(m)
    <3>1. CancelRequest(s, m) = Refused(s, m, "InvalidRequest") /\ ~Cancels(m)
      BY <2>2 DEF CancelRequest, Cancels
    <3>. QED
      BY <1>1, <2>1, <3>1
  <2>3. CASE ~IsRequest(m) /\ ~m.valid
    <3>1. CancelRequest(s, m) = Silent(s) /\ ~Cancels(m)
      BY <2>3 DEF CancelRequest, Cancels
    <3>. QED
      BY <1>2, <2>1, <3>1
  <2>4. CASE ~IsRequest(m) /\ m.valid
    <3>1. Cancels(m)
      BY <1>4, <2>4 DEF Cancels
    <3>. QED
      BY <2>1, <2>4, <3>1 DEF CancelRequest, Cancellation, Silent
  <2>. QED
    BY <2>2, <2>3, <2>4
<1>5. CASE m.method = "$/setTrace"
  <2>1. Processed(s, m) = Refused(s, m, "InvalidRequest") /\ ~Cancels(m)
    BY <1>5 DEF Processed, SetTrace, Cancels
  <2>. QED
    BY <1>1, <2>1
<1>6. CASE m.method \notin {"malformed", "$/cancelRequest", "$/setTrace"}
  <2>0. Processed(s, m) = Dispatched(s, m) /\ ~Cancels(m)
    BY <1>6 DEF Processed, Cancels
  <2>1. CASE IsRequest(m) /\ InLedger(s, m.id)
    <3>1. m.id \in Id
      BY <2>1, MessageParts DEF IsRequest, MessageId
    <3>2. Dispatched(s, m) = RefuseCancelled(s, m)
      BY <2>1 DEF Dispatched
    <3>3. Refusal(s, m, RefuseCancelled(s, m))
      BY <2>0, <2>1, <3>1 DEF RefuseCancelled, Refused, Refusal
    <3>. QED
      BY <2>0, <3>2, <3>3
  <2>2. CASE ~(IsRequest(m) /\ InLedger(s, m.id)) /\ ~s.initialized
    <3>1. Dispatched(s, m) = BeforeInitialize(s, m)
      BY <2>2 DEF Dispatched
    <3>2. CASE m.method = "initialize" /\ IsRequest(m)
      <4>1. BeforeInitialize(s, m) = Initialize(s, m)
        BY <3>2 DEF BeforeInitialize
      <4>. QED
        BY <2>0, <2>2, <3>1, <3>2, <4>1, InitializeIsLifecycle
    <3>3. CASE m.method = "exit" /\ ~IsRequest(m)
      <4>1. BeforeInitialize(s, m) = Exited(s, 1)
        BY <3>3 DEF BeforeInitialize
      <4>. QED
        BY <2>0, <3>1, <4>1, EndIsLifecycle
    <3>4. CASE /\ ~(m.method = "initialize" /\ IsRequest(m))
               /\ ~(m.method = "exit" /\ ~IsRequest(m))
      <4>1. BeforeInitialize(s, m) = Refused(s, m, "ServerNotInitialized")
        BY <3>4 DEF BeforeInitialize
      <4>. QED
        BY <1>1, <2>0, <3>1, <4>1
    <3>. QED
      BY <3>2, <3>3, <3>4
  <2>3. CASE ~(IsRequest(m) /\ InLedger(s, m.id)) /\ s.initialized /\ s.shutdown
    <3>1. Dispatched(s, m) = AfterShutdown(s, m)
      BY <2>3 DEF Dispatched
    <3>2. CASE m.method = "exit" /\ ~IsRequest(m) /\ m.valid
      <4>1. AfterShutdown(s, m) = Exited(s, 0)
        BY <3>2 DEF AfterShutdown
      <4>. QED
        BY <2>0, <2>3, <3>1, <4>1, EndIsLifecycle
    <3>3. CASE ~(m.method = "exit" /\ ~IsRequest(m) /\ m.valid)
      <4>1. AfterShutdown(s, m) = Refused(s, m, "InvalidRequest")
        BY <3>3 DEF AfterShutdown
      <4>. QED
        BY <1>1, <2>0, <3>1, <4>1
    <3>. QED
      BY <3>2, <3>3
  <2>4. CASE ~(IsRequest(m) /\ InLedger(s, m.id)) /\ s.initialized /\ ~s.shutdown
    <3>1. Dispatched(s, m) = InService(s, m)
      BY <2>4 DEF Dispatched
    <3>. SUFFICES Kind(InService(s, m))
      BY <2>0, <3>1
    <3>2. CASE \/ m.method = "initialize"
               \/ m.method \in Notifications /\ IsRequest(m)
               \/ m.method \in Requests /\ ~IsRequest(m)
      <4>1. InService(s, m) = Refused(s, m, "InvalidRequest")
        BY <3>2 DEF InService
      <4>. QED
        BY <1>1, <2>0, <4>1
    <3>. DEFINE Right == ~(\/ m.method = "initialize"
                           \/ m.method \in Notifications /\ IsRequest(m)
                           \/ m.method \in Requests /\ ~IsRequest(m))
    <3>3. CASE Right /\ m.method = "initialized"
      <4>1. InService(s, m) = Silent(s)
        BY <3>3 DEF InService
      <4>. QED
        BY <1>2, <2>0, <4>1
    <3>4. CASE Right /\ m.method = "shutdown"
      <4>1. InService(s, m) = Shutdown(s, m)
        BY <3>4 DEF InService
      <4>2. CASE m.valid
        BY <2>0, <4>1, <4>2, EndIsLifecycle DEF Shutdown
      <4>3. CASE ~m.valid
        BY <1>1, <2>0, <4>1, <4>3 DEF Shutdown
      <4>. QED
        BY <4>2, <4>3
    <3>5. CASE Right /\ m.method = "exit"
      <4>1. InService(s, m) = Exit(s, m)
        BY <3>5 DEF InService
      <4>2. CASE m.valid
        BY <2>0, <4>1, <4>2, EndIsLifecycle DEF Exit
      <4>3. CASE ~m.valid
        BY <1>2, <2>0, <4>1, <4>3 DEF Exit
      <4>. QED
        BY <4>2, <4>3
    <3>6. CASE Right /\ m.method = "didOpen"
      <4>1. InService(s, m) = DidOpen(s, m)
        BY <3>6 DEF InService
      <4>2. CASE ~m.valid \/ s.documents[m.uri] # None
        BY <1>2, <2>0, <4>1, <4>2 DEF DidOpen
      <4>3. CASE ~(~m.valid \/ s.documents[m.uri] # None)
        BY <2>0, <2>4, <3>6, <4>1, <4>3, MessageParts DEF DidOpen, Storing, Publishing
      <4>. QED
        BY <4>2, <4>3
    <3>7. CASE Right /\ m.method = "didChange"
      <4>1. InService(s, m) = DidChange(s, m)
        BY <3>7 DEF InService
      <4>2. CASE \/ ~m.valid \/ s.documents[m.uri] = None
                 \/ m.version <= s.documents[m.uri].version
        BY <1>2, <2>0, <4>1, <4>2 DEF DidChange
      <4>3. CASE ~(\/ ~m.valid \/ s.documents[m.uri] = None
                   \/ m.version <= s.documents[m.uri].version)
        <5>1. m.version > s.documents[m.uri].version
          <6>1. m.uri \in Uri /\ m.version \in Version
            BY <3>7, MessageParts
          <6>2. s.documents[m.uri] \in Document
            BY <4>3, <6>1 DEF Session
          <6>. QED
            BY <4>3, <6>1, <6>2, LspConstants DEF Document
        <5>. QED
          BY <2>0, <2>4, <3>7, <4>1, <4>3, <5>1, MessageParts DEF DidChange, Storing, Publishing
      <4>. QED
        BY <4>2, <4>3
    <3>8. CASE Right /\ m.method = "didClose"
      <4>1. InService(s, m) = DidClose(s, m)
        BY <3>8 DEF InService
      <4>2. CASE ~m.valid \/ s.documents[m.uri] = None
        BY <1>2, <2>0, <4>1, <4>2 DEF DidClose
      <4>3. CASE ~(~m.valid \/ s.documents[m.uri] = None)
        BY <2>0, <2>4, <3>8, <4>1, <4>3, MessageParts DEF DidClose, Closing, Publishing
      <4>. QED
        BY <4>2, <4>3
    <3>9. CASE Right /\ m.method = "feature"
      <4>1. InService(s, m) = Serve(s, m)
        BY <3>9 DEF InService
      <4>. QED
        BY <1>1, <1>2, <2>0, <4>1 DEF Serve
    <3>10. CASE Right /\ m.method = "unknown"
      <4>1. InService(s, m) = Refused(s, m, "MethodNotFound")
        BY <3>10 DEF InService
      <4>. QED
        BY <1>1, <2>0, <4>1
    <3>. QED
      BY <1>6, <3>2, <3>3, <3>4, <3>5, <3>6, <3>7, <3>8, <3>9, <3>10, MessageParts
  <2>. QED
    BY <2>1, <2>2, <2>3, <2>4 DEF Session
<1>. QED
  BY <1>3, <1>4, <1>5, <1>6

-----------------------------------------------------------------------------
(* What the history records of one message.                                *)

LEMMA QuietHistory ==
  ASSUME NEW output, Quiet(output), shown \in [Uri -> AnyPublication \cup {None}]
  PROVE  ShownAfter(output) = shown /\ \A id : ~Refuses(output, id)
<1>1. \A u \in Uri : PublicationsOf(u, output) = {}
  BY DEF Quiet, PublicationsOf
<1>. QED
  BY <1>1 DEF ShownAfter, Refuses, Quiet

LEMMA PublishedHistory ==
  ASSUME NEW p, p.reply = "publishDiagnostics", p.uri \in Uri,
         shown \in [Uri -> AnyPublication \cup {None}]
  PROVE  /\ ShownAfter(<<p>>) = [shown EXCEPT ![p.uri] = p]
         /\ \A id : ~Refuses(<<p>>, id)
<1>1. \A u \in Uri : PublicationsOf(u, <<p>>) = IF u = p.uri THEN {1} ELSE {}
  BY DEF PublicationsOf
<1>2. \A u \in Uri \ {p.uri} : ShownAfter(<<p>>)[u] = shown[u]
  BY <1>1 DEF ShownAfter
<1>3. ShownAfter(<<p>>)[p.uri] = p
  <2>1. (CHOOSE i \in {1} : \A j \in {1} : j <= i) = 1
    OBVIOUS
  <2>2. PublicationsOf(p.uri, <<p>>) = {1}
    BY <1>1
  <2>3. ShownAfter(<<p>>)[p.uri]
          = <<p>>[CHOOSE i \in PublicationsOf(p.uri, <<p>>) :
                     \A j \in PublicationsOf(p.uri, <<p>>) : j <= i]
    BY <2>2 DEF ShownAfter
  <2>. QED
    BY <2>1, <2>2, <2>3
<1>4. ShownAfter(<<p>>) = [u \in Uri |-> ShownAfter(<<p>>)[u]]
  BY DEF ShownAfter
<1>5. \A id : ~Refuses(<<p>>, id)
  BY DEF Refuses
<1>. HIDE DEF ShownAfter
<1>. QED
  BY <1>2, <1>3, <1>4, <1>5

\* What is shown of a stored document is a publication of it.
LEMMA ShownIsPublication ==
  ASSUME NEW s \in Session, NEW u \in Uri, s.documents[u] # None,
         Analysis[s.documents[u].text] # Raised
  PROVE  /\ Shown(s, u) \in AnyPublication
         /\ Shown(s, u).reply = "publishDiagnostics" /\ Shown(s, u).uri = u
         /\ Shown(s, u).version = IF "versionSupport" \in s.enabled
                                  THEN s.documents[u].version ELSE None
<1>1. s.documents[u] \in Document
  BY DEF Session
<1>2. s.documents[u].version \in Version /\ s.documents[u].text \in Text
  BY <1>1 DEF Document
<1>. QED
  BY <1>2 DEF Shown, Publication, AnyPublication

LEMMA ClearedIsPublication ==
  ASSUME NEW u \in Uri
  PROVE  /\ Cleared(u) \in AnyPublication
         /\ Cleared(u).reply = "publishDiagnostics" /\ Cleared(u).uri = u
         /\ Cleared(u).version = None
BY DEF Cleared, Publication, AnyPublication

-----------------------------------------------------------------------------
(* The invariant is inductive: one lemma for each kind of message.         *)

\* What a turn records when nothing was cancelled and nothing refused.
LEMMA UnclaimedKept ==
  ASSUME TypeOK, NEW m, NEW output, ~Cancels(m), \A id : ~Refuses(output, id),
         Remembered(m, output)
  PROVE  unclaimed' = unclaimed /\ newest' = newest
BY DEF Remembered, TypeOK

LEMMA LifecycleKeeps ==
  ASSUME SessionInv, NEW m \in Message, Receive(m), Lifecycle(session, m, Processed(session, m))
  PROVE  SessionInv'
<1>. DEFINE outcome == Processed(session, m)
<1>1. /\ process = None /\ session' = outcome.session /\ process' = outcome.session.exitCode
      /\ Remembered(m, outcome.output)
  BY DEF Receive
<1>. HIDE DEF outcome
<1>2. /\ ~Cancels(m) /\ session' \in Session
      /\ session'.documents = session.documents /\ session'.cancelled = session.cancelled
      /\ session.initialized => session'.initialized /\ session'.enabled = session.enabled
      /\ ~session.initialized /\ session'.initialized => m.declared \in Declaration
      /\ Quiet(outcome.output)
  BY <1>1 DEF Lifecycle, outcome
<1>3. shown' = shown /\ unclaimed' = unclaimed /\ newest' = newest
  BY <1>1, <1>2, QuietHistory, UnclaimedKept DEF SessionInv, TypeOK, Remembered
<1>4. TypeOK'
  <2>1. declared' \in Declaration
    BY <1>1, <1>2 DEF Remembered, SessionInv, TypeOK
  <2>2. process' \in {None, 0, EXIT_UNCLEAN, EXIT_TRANSPORT_ERROR}
    BY <1>1, <1>2 DEF Session, EXIT_UNCLEAN
  <2>. QED
    BY <1>2, <1>3, <2>1, <2>2 DEF SessionInv, TypeOK
<1>5. NothingBefore'
  BY <1>2, <1>3 DEF SessionInv, NothingBefore, TypeOK, Session
<1>6. SilentUnasked'
  BY <1>2, <1>3 DEF SessionInv, NothingBefore, SilentUnasked, TypeOK, Session
<1>7. ShownIsStored'
  BY <1>2, <1>3 DEF SessionInv, NothingBefore, ShownIsStored, TypeOK, Session
<1>8. ExitEnds'
  BY <1>1 DEF ExitEnds
<1>9. DiagnosticsCurrent'
  BY <1>2, <1>3 DEF SessionInv, NothingBefore, DiagnosticsCurrent, Shown, TypeOK, Session
<1>10. CancelledOnce'
  BY <1>2, <1>3 DEF SessionInv, CancelledOnce, InLedger
<1>11. NewestCancelHeld'
  BY <1>2, <1>3 DEF SessionInv, NewestCancelHeld, InLedger
<1>. QED
  BY <1>4, <1>5, <1>6, <1>7, <1>8, <1>9, <1>10, <1>11 DEF SessionInv

\* The ledger is all that changes: what the rest of the invariant says of the
\* documents stays true.
LEMMA LedgerKeeps ==
  ASSUME SessionInv, NEW ledger \in Seq(Id), session' = [session EXCEPT !.cancelled = ledger],
         process = None, process' = session'.exitCode,
         shown' = shown, declared' = declared, unclaimed' \in [Id -> Nat],
         newest' \in Id \cup {None}
  PROVE  /\ TypeOK' /\ NothingBefore' /\ SilentUnasked' /\ ShownIsStored'
         /\ ExitEnds' /\ DiagnosticsCurrent' /\ session'.cancelled = ledger
<1>1. /\ session' \in Session /\ session'.documents = session.documents
      /\ session'.initialized = session.initialized /\ session'.enabled = session.enabled
      /\ session'.exitCode = session.exitCode /\ session'.cancelled = ledger
  BY DEF SessionInv, TypeOK, Session
<1>2. TypeOK'
  BY <1>1 DEF SessionInv, TypeOK, Session, EXIT_UNCLEAN
<1>3. NothingBefore' /\ SilentUnasked'
  BY <1>1 DEF SessionInv, NothingBefore, SilentUnasked
<1>4. ShownIsStored' /\ ExitEnds'
  BY <1>1 DEF SessionInv, ShownIsStored, ExitEnds
<1>5. DiagnosticsCurrent'
  BY <1>1 DEF SessionInv, DiagnosticsCurrent, Shown
<1>. QED
  BY <1>1, <1>2, <1>3, <1>4, <1>5

LEMMA CancellationKeeps ==
  ASSUME SessionInv, NEW m \in Message, Receive(m),
         Cancellation(session, m, Processed(session, m))
  PROVE  SessionInv'
<1>. DEFINE id == m.target
            ledger == IF InLedger(session, id) THEN session.cancelled
                      ELSE Remember(session.cancelled, id)
<1>1. /\ process = None /\ process' = session'.exitCode /\ Cancels(m) /\ id \in Id
      /\ session' = IF InLedger(session, id) THEN session
                    ELSE [session EXCEPT !.cancelled = Remember(@, id)]
      /\ Remembered(m, <<>>)
  BY DEF Receive, Cancellation
<1>2. /\ session.cancelled \in Seq(Id) /\ Distinct(session.cancelled)
      /\ Len(session.cancelled) <= MAX_CANCELLED_REQUEST_IDS
      /\ session = [session EXCEPT !.cancelled = session.cancelled]
  BY DEF SessionInv, TypeOK, Session, NewestCancelHeld, Distinct
<1>3. /\ ledger \in Seq(Id) /\ Distinct(ledger) /\ Holds(ledger, id)
      /\ Len(ledger) <= MAX_CANCELLED_REQUEST_IDS
      /\ \A other : Holds(ledger, other) => other = id \/ Holds(session.cancelled, other)
  <2>1. CASE InLedger(session, id)
    BY <1>2, <2>1 DEF InLedger, Holds
  <2>2. CASE ~InLedger(session, id)
    <3>1. ledger = Remember(session.cancelled, id) /\ ~Holds(session.cancelled, id)
      BY <2>2 DEF InLedger, Holds
    <3>. HIDE DEF ledger, id
    <3>. QED
      BY <1>1, <1>2, <3>1, RememberKeeps
  <2>. QED
    BY <2>1, <2>2
<1>4. session' = [session EXCEPT !.cancelled = ledger]
  BY <1>1, <1>2
<1>. HIDE DEF ledger
<1>5. Quiet(<<>>)
  BY DEF Quiet
<1>6. shown' = shown /\ \A other : ~Refuses(<<>>, other)
  BY <1>1, <1>5, QuietHistory DEF SessionInv, TypeOK, Remembered
<1>. HIDE DEF id
<1>7. /\ unclaimed' \in [Id -> Nat]
      /\ \A i \in Id : unclaimed'[i] = IF i = id THEN unclaimed[i] + 1 ELSE unclaimed[i]
      /\ newest' = id
  <2>1. unclaimed' = [i \in Id |-> unclaimed[i] + (IF id = i THEN 1 ELSE 0) - 0]
    BY <1>1, <1>6 DEF Remembered, id
  <2>2. unclaimed \in [Id -> Nat]
    BY DEF SessionInv, TypeOK
  <2>3. newest' = id
    BY <1>1 DEF Remembered, id
  <2>. QED
    BY <2>1, <2>2, <2>3
<1>8. declared' = declared
  <2>1. session'.initialized = session.initialized
    BY <1>4 DEF SessionInv, TypeOK, Session
  <2>. QED
    BY <1>1, <2>1 DEF Remembered
<1>9. /\ TypeOK' /\ NothingBefore' /\ SilentUnasked' /\ ShownIsStored'
      /\ ExitEnds' /\ DiagnosticsCurrent' /\ session'.cancelled = ledger
  BY <1>1, <1>3, <1>4, <1>6, <1>7, <1>8, LedgerKeeps
<1>10. CancelledOnce'
  <2>1. \A i \in Id : Holds(session.cancelled, i) => unclaimed[i] > 0
    BY DEF SessionInv, CancelledOnce, InLedger, Holds
  <2>2. \A i \in Id : Holds(ledger, i) => unclaimed'[i] > 0
    BY <1>3, <1>7, <2>1 DEF SessionInv, TypeOK
  <2>. QED
    BY <1>9, <2>2 DEF CancelledOnce, InLedger, Holds
<1>11. NewestCancelHeld'
  BY <1>3, <1>7, <1>9 DEF NewestCancelHeld, InLedger, Holds, Distinct
<1>. QED
  BY <1>9, <1>10, <1>11 DEF SessionInv

LEMMA RefusalKeeps ==
  ASSUME SessionInv, NEW m \in Message, Receive(m), Refusal(session, m, Processed(session, m))
  PROVE  SessionInv'
<1>. DEFINE id == m.id
            ledger == Without(session.cancelled, id)
            refusal == [reply |-> "RequestCancelled", id |-> id]
<1>1. /\ process = None /\ process' = session'.exitCode /\ ~Cancels(m) /\ id \in Id
      /\ InLedger(session, id)
      /\ session' = [session EXCEPT !.cancelled = ledger]
      /\ Remembered(m, <<refusal>>)
  BY DEF Receive, Refusal
<1>2. /\ session.cancelled \in Seq(Id) /\ Distinct(session.cancelled)
      /\ Len(session.cancelled) <= MAX_CANCELLED_REQUEST_IDS
      /\ Holds(session.cancelled, id)
  BY <1>1 DEF SessionInv, TypeOK, Session, NewestCancelHeld, Distinct, InLedger, Holds
<1>3. /\ ledger \in Seq(Id) /\ Distinct(ledger) /\ Len(ledger) = Len(session.cancelled) - 1
      /\ \A other : Holds(ledger, other) <=> Holds(session.cancelled, other) /\ other # id
  BY <1>1, <1>2, WithoutTakes
<1>. HIDE DEF ledger
<1>4. \A other : Refuses(<<refusal>>, other) <=> other = id
  BY DEF Refuses
<1>5. shown' = shown
  <2>1. \A u \in Uri : PublicationsOf(u, <<refusal>>) = {}
    BY DEF PublicationsOf
  <2>. QED
    BY <1>1, <2>1 DEF Remembered, ShownAfter, SessionInv, TypeOK
<1>6. /\ \A i \in Id : unclaimed'[i] = IF i = id THEN unclaimed[i] - 1 ELSE unclaimed[i]
      /\ unclaimed' = [i \in Id |-> unclaimed'[i]]
      /\ newest' = IF newest # None /\ newest = id THEN None ELSE newest
  <2>1. unclaimed' = [i \in Id |-> unclaimed[i] + 0 - (IF i = id THEN 1 ELSE 0)]
    BY <1>1, <1>4 DEF Remembered
  <2>2. unclaimed \in [Id -> Nat]
    BY DEF SessionInv, TypeOK
  <2>3. newest' = IF newest # None /\ newest = id THEN None ELSE newest
    BY <1>1, <1>4 DEF Remembered
  <2>. QED
    BY <2>1, <2>2, <2>3
<1>7. declared' = declared
  <2>1. session'.initialized = session.initialized
    BY <1>1 DEF SessionInv, TypeOK, Session
  <2>. QED
    BY <1>1, <2>1 DEF Remembered
<1>8. unclaimed' \in [Id -> Nat]
  <2>1. unclaimed[id] > 0 /\ unclaimed \in [Id -> Nat]
    BY <1>1 DEF SessionInv, CancelledOnce, TypeOK
  <2>. QED
    BY <1>6, <2>1
<1>9. /\ TypeOK' /\ NothingBefore' /\ SilentUnasked' /\ ShownIsStored'
      /\ ExitEnds' /\ DiagnosticsCurrent' /\ session'.cancelled = ledger
  <2>1. newest' \in Id \cup {None}
    BY <1>6 DEF SessionInv, TypeOK
  <2>. QED
    BY <1>1, <1>3, <1>5, <1>7, <1>8, <2>1, LedgerKeeps
<1>10. CancelledOnce'
  <2>1. \A i \in Id : Holds(session.cancelled, i) => unclaimed[i] > 0
    BY DEF SessionInv, CancelledOnce, InLedger, Holds
  <2>2. \A i \in Id : Holds(ledger, i) => unclaimed'[i] > 0
    BY <1>3, <1>6, <2>1
  <2>. QED
    BY <1>9, <2>2 DEF CancelledOnce, InLedger, Holds
<1>11. NewestCancelHeld'
  <2>1. /\ Len(ledger) <= MAX_CANCELLED_REQUEST_IDS
        /\ \A i, j \in DOMAIN ledger : ledger[i] = ledger[j] => i = j
    BY <1>2, <1>3, LspConstants DEF Distinct
  <2>2. newest' # None => Holds(ledger, newest')
    BY <1>3, <1>6 DEF SessionInv, NewestCancelHeld, InLedger, Holds
  <2>. QED
    BY <1>9, <2>1, <2>2 DEF NewestCancelHeld, InLedger, Holds
<1>. QED
  BY <1>9, <1>10, <1>11 DEF SessionInv

\* A store is written: the other documents and the rest of the session stay.
LEMMA StoringKeeps ==
  ASSUME SessionInv, NEW m \in Message, Receive(m), Storing(session, m, Processed(session, m))
  PROVE  SessionInv'
<1>. DEFINE uri == m.uri
            document == [version |-> m.version, text |-> m.text]
            output == PublishDocumentDiagnostics(session', uri)
<1>1. /\ process = None /\ process' = session'.exitCode /\ ~Cancels(m)
      /\ session.initialized /\ uri \in Uri /\ m.version \in Version /\ m.text \in Text
      /\ session.documents[uri] = None \/ m.version > session.documents[uri].version
      /\ session' = [session EXCEPT !.documents[uri] = document]
      /\ Remembered(m, output)
  BY DEF Receive, Storing, Stored
<1>2. document \in Document /\ document # None
  BY <1>1, LspConstants DEF Document
<1>3. /\ session' \in Session
      /\ session'.documents = [session.documents EXCEPT ![uri] = document]
      /\ session'.initialized = session.initialized /\ session'.enabled = session.enabled
      /\ session'.cancelled = session.cancelled /\ session'.exitCode = session.exitCode
      /\ session'.shutdown = session.shutdown
      /\ session.documents \in [Uri -> Document \cup {None}]
  <2>. HIDE DEF document
  <2>. QED
    BY <1>1, <1>2 DEF SessionInv, TypeOK, Session
<1>4. session'.documents[uri] = document /\ document.version = m.version /\ document.text = m.text
  BY <1>1, <1>3
<1>. HIDE DEF document
<1>. DEFINE published == "diagnostics" \in session.enabled /\ Analysis[document.text] # Raised
<1>5. /\ \A id : ~Refuses(output, id)
      /\ published => /\ shown' = [shown EXCEPT ![uri] = Shown(session', uri)]
                      /\ Shown(session', uri) \in AnyPublication
                      /\ Shown(session', uri).version
                           = IF "versionSupport" \in session.enabled THEN m.version ELSE None
      /\ ~published => shown' = shown
  <2>1. shown \in [Uri -> AnyPublication \cup {None}]
    BY DEF SessionInv, TypeOK
  <2>2. CASE published
    <3>1. output = <<Shown(session', uri)>>
      BY <1>3, <1>4, <2>2 DEF PublishDocumentDiagnostics
    <3>2. /\ Shown(session', uri) \in AnyPublication
          /\ Shown(session', uri).reply = "publishDiagnostics" /\ Shown(session', uri).uri = uri
          /\ Shown(session', uri).version = IF "versionSupport" \in session.enabled
                                            THEN m.version ELSE None
      <4>1. /\ session'.documents[uri] # None /\ session'.documents[uri].version = m.version
            /\ Analysis[session'.documents[uri].text] # Raised
        BY <1>2, <1>4, <2>2
      <4>. QED
        <5>. DEFINE s == session'
        <5>1. s \in Session /\ s.documents[uri] # None /\ Analysis[s.documents[uri].text] # Raised
          BY <1>3, <4>1
        <5>2. s.documents[uri].version = m.version /\ s.enabled = session.enabled
          BY <1>3, <4>1
        <5>. HIDE DEF s
        <5>3. /\ Shown(s, uri) \in AnyPublication
              /\ Shown(s, uri).reply = "publishDiagnostics" /\ Shown(s, uri).uri = uri
              /\ Shown(s, uri).version = IF "versionSupport" \in s.enabled
                                         THEN s.documents[uri].version ELSE None
          BY <1>1, <5>1, ShownIsPublication
        <5>. QED
          BY <5>2, <5>3 DEF s
    <3>. HIDE DEF output
    <3>. QED
      BY <1>1, <2>1, <2>2, <3>1, <3>2, PublishedHistory DEF Remembered
  <2>3. CASE ~published
    <3>1. output = <<>>
      BY <1>3, <1>4, <2>3 DEF PublishDocumentDiagnostics
    <3>2. Quiet(<<>>)
      BY DEF Quiet
    <3>. HIDE DEF output
    <3>. QED
      BY <1>1, <2>1, <2>3, <3>1, <3>2, QuietHistory DEF Remembered
  <2>. QED
    BY <2>2, <2>3
<1>. HIDE DEF output, published
<1>6. unclaimed' = unclaimed /\ newest' = newest /\ declared' = declared
  BY <1>1, <1>3, <1>5, UnclaimedKept DEF SessionInv, Remembered
<1>7. /\ shown' \in [Uri -> AnyPublication \cup {None}]
      /\ \A u \in Uri \ {uri} : shown'[u] = shown[u] /\ session'.documents[u] = session.documents[u]
      /\ published => shown'[uri] = Shown(session', uri)
  BY <1>1, <1>3, <1>5 DEF SessionInv, TypeOK
<1>8. TypeOK'
  BY <1>1, <1>3, <1>6, <1>7 DEF SessionInv, TypeOK, Session, EXIT_UNCLEAN
<1>9. NothingBefore'
  BY <1>1, <1>3 DEF NothingBefore
<1>10. SilentUnasked'
  BY <1>3, <1>5 DEF SessionInv, SilentUnasked, published
<1>11. ShownIsStored'
  <2>. SUFFICES ASSUME NEW u \in Uri, shown'[u] # None, shown'[u].version # None
                PROVE  /\ "versionSupport" \in session'.enabled
                       /\ session'.documents[u] # None
                       /\ shown'[u].version <= session'.documents[u].version
    BY DEF ShownIsStored
  <2>1. CASE u # uri
    BY <1>3, <1>7, <2>1 DEF SessionInv, ShownIsStored
  <2>2. CASE u = uri /\ published
    BY <1>1, <1>2, <1>3, <1>4, <1>5, <1>7, <2>2, LspConstants
  <2>3. CASE u = uri /\ ~published
    <3>1. /\ "versionSupport" \in session.enabled /\ session.documents[u] # None
          /\ shown'[u].version <= session.documents[u].version
      BY <1>5, <2>3 DEF SessionInv, ShownIsStored
    <3>2. shown'[u].version \in Int /\ session.documents[u].version \in Int
      <4>1. session.documents[u] \in Document /\ shown'[u] \in AnyPublication
        BY <1>3, <1>7, <3>1
      <4>. QED
        BY <4>1, LspConstants DEF Document, AnyPublication
    <3>. QED
      BY <1>1, <1>2, <1>3, <1>4, <2>3, <3>1, <3>2, LspConstants
  <2>. QED
    BY <2>1, <2>2, <2>3
<1>12. ExitEnds'
  BY <1>1 DEF ExitEnds
<1>13. DiagnosticsCurrent'
  <2>. SUFFICES ASSUME NEW u \in Uri
                PROVE  (IF session.documents[u] = None THEN shown[u] \in {None, Cleared(u)}
                        ELSE \/ "diagnostics" \notin session.enabled /\ shown[u] = None
                             \/ Analysis[session.documents[u].text] = Raised
                             \/ shown[u] = Shown(session, u))'
    BY DEF DiagnosticsCurrent
  <2>1. CASE u # uri
    BY <1>3, <1>7, <2>1 DEF SessionInv, DiagnosticsCurrent, Shown
  <2>2. CASE u = uri
    <3>1. CASE published
      BY <1>2, <1>3, <1>4, <1>7, <2>2, <3>1
    <3>2. CASE ~published
      BY <1>2, <1>3, <1>4, <1>5, <2>2, <3>2 DEF SessionInv, SilentUnasked, published
    <3>. QED
      BY <3>1, <3>2
  <2>. QED
    BY <2>1, <2>2
<1>14. CancelledOnce' /\ NewestCancelHeld'
  BY <1>3, <1>6 DEF SessionInv, CancelledOnce, NewestCancelHeld, InLedger
<1>. QED
  BY <1>8, <1>9, <1>10, <1>11, <1>12, <1>13, <1>14 DEF SessionInv

LEMMA ClosingKeeps ==
  ASSUME SessionInv, NEW m \in Message, Receive(m), Closing(session, m, Processed(session, m))
  PROVE  SessionInv'
<1>. DEFINE uri == m.uri
            asked == "diagnostics" \in session.enabled
            output == IF asked THEN <<Cleared(uri)>> ELSE <<>>
<1>1. /\ process = None /\ process' = session'.exitCode /\ ~Cancels(m)
      /\ session.initialized /\ uri \in Uri
      /\ session' = [session EXCEPT !.documents[uri] = None]
      /\ Remembered(m, output)
  BY DEF Receive, Closing
<1>2. /\ session' \in Session
      /\ session'.documents = [session.documents EXCEPT ![uri] = None]
      /\ session'.initialized = session.initialized /\ session'.enabled = session.enabled
      /\ session'.cancelled = session.cancelled /\ session'.exitCode = session.exitCode
      /\ session.documents \in [Uri -> Document \cup {None}]
  BY <1>1 DEF SessionInv, TypeOK, Session
<1>3. /\ \A id : ~Refuses(output, id)
      /\ asked => shown' = [shown EXCEPT ![uri] = Cleared(uri)]
      /\ ~asked => shown' = shown
  <2>1. shown \in [Uri -> AnyPublication \cup {None}]
    BY DEF SessionInv, TypeOK
  <2>2. CASE asked
    BY <1>1, <2>1, <2>2, PublishedHistory, ClearedIsPublication DEF Remembered
  <2>3. CASE ~asked
    <3>1. Quiet(<<>>)
      BY DEF Quiet
    <3>. QED
      BY <1>1, <2>1, <2>3, <3>1, QuietHistory DEF Remembered
  <2>. QED
    BY <2>2, <2>3
<1>. HIDE DEF output
<1>4. unclaimed' = unclaimed /\ newest' = newest /\ declared' = declared
  BY <1>1, <1>2, <1>3, UnclaimedKept DEF SessionInv, Remembered
<1>5. /\ shown' \in [Uri -> AnyPublication \cup {None}]
      /\ \A u \in Uri \ {uri} : shown'[u] = shown[u] /\ session'.documents[u] = session.documents[u]
      /\ shown'[uri] = (IF asked THEN Cleared(uri) ELSE None)
      /\ session'.documents[uri] = None
  BY <1>1, <1>2, <1>3, ClearedIsPublication DEF SessionInv, TypeOK, SilentUnasked
<1>6. TypeOK'
  BY <1>1, <1>2, <1>4, <1>5 DEF SessionInv, TypeOK, Session, EXIT_UNCLEAN
<1>7. NothingBefore'
  BY <1>1, <1>2 DEF NothingBefore
<1>8. SilentUnasked'
  BY <1>2, <1>3 DEF SessionInv, SilentUnasked
<1>9. ShownIsStored'
  BY <1>1, <1>2, <1>5, ClearedIsPublication DEF SessionInv, ShownIsStored
<1>10. ExitEnds'
  BY <1>1 DEF ExitEnds
<1>11. DiagnosticsCurrent'
  BY <1>2, <1>5 DEF SessionInv, DiagnosticsCurrent, Shown
<1>12. CancelledOnce' /\ NewestCancelHeld'
  BY <1>2, <1>4 DEF SessionInv, CancelledOnce, NewestCancelHeld, InLedger
<1>. QED
  BY <1>6, <1>7, <1>8, <1>9, <1>10, <1>11, <1>12 DEF SessionInv

LEMMA InitInv == Init => SessionInv
<1>. SUFFICES ASSUME Init PROVE SessionInv
  OBVIOUS
<1>. USE DEF Init
<1>1. NewSession \in Session /\ NewSession.cancelled = <<>> /\ DOMAIN NewSession.cancelled = {}
  BY DEF NewSession, Session
<1>2. TypeOK
  BY <1>1 DEF TypeOK, Declaration
<1>3. NothingBefore /\ SilentUnasked /\ ShownIsStored /\ ExitEnds /\ DiagnosticsCurrent
  BY DEF NothingBefore, SilentUnasked, ShownIsStored, ExitEnds, DiagnosticsCurrent, NewSession
<1>4. CancelledOnce
  BY <1>1 DEF CancelledOnce, InLedger
<1>5. NewestCancelHeld
  BY <1>1, LspConstants DEF NewestCancelHeld, InLedger
<1>. QED
  BY <1>2, <1>3, <1>4, <1>5 DEF SessionInv

LEMMA StepInv == SessionInv /\ [Next]_vars => SessionInv'
<1>. SUFFICES ASSUME SessionInv, [Next]_vars PROVE SessionInv'
  OBVIOUS
<1>1. ASSUME NEW m \in Message, Receive(m)
      PROVE  SessionInv'
  BY <1>1, Kinds, LifecycleKeeps, CancellationKeeps, RefusalKeeps, StoringKeeps, ClosingKeeps
     DEF SessionInv, TypeOK
<1>2. CASE EndOfInput
  <2>. USE <1>2 DEF EndOfInput
  <2>1. TypeOK'
    BY DEF SessionInv, TypeOK
  <2>2. ExitEnds'
    BY DEF SessionInv, ExitEnds
  <2>3. NothingBefore' /\ SilentUnasked' /\ ShownIsStored'
    BY DEF SessionInv, NothingBefore, SilentUnasked, ShownIsStored
  <2>4. DiagnosticsCurrent' /\ CancelledOnce' /\ NewestCancelHeld'
    BY DEF SessionInv, DiagnosticsCurrent, CancelledOnce, NewestCancelHeld, InLedger, Shown
  <2>. QED
    BY <2>1, <2>2, <2>3, <2>4 DEF SessionInv
<1>3. CASE UNCHANGED vars
  <2>. USE <1>3 DEF vars
  <2>1. TypeOK' /\ ExitEnds'
    BY DEF SessionInv, TypeOK, ExitEnds
  <2>2. NothingBefore' /\ SilentUnasked' /\ ShownIsStored'
    BY DEF SessionInv, NothingBefore, SilentUnasked, ShownIsStored
  <2>3. DiagnosticsCurrent' /\ CancelledOnce' /\ NewestCancelHeld'
    BY DEF SessionInv, DiagnosticsCurrent, CancelledOnce, NewestCancelHeld, InLedger, Shown
  <2>. QED
    BY <2>1, <2>2, <2>3 DEF SessionInv
<1>. QED
  BY <1>1, <1>2, <1>3 DEF Next

LEMMA AlwaysInv == Spec => []SessionInv
<1>. QED
  BY InitInv, StepInv, PTL DEF Spec

-----------------------------------------------------------------------------
(* The theorems.                                                           *)

(* The session, what the client is shown and the histories keep the shape  *)
(* that run_language_server gives them, whatever is received.              *)
THEOREM SessionTypes == Spec => []TypeOK
<1>. QED
  BY AlwaysInv, PTL DEF SessionInv

(* After every message the client's last publication of a document is the  *)
(* diagnostics of what the store holds, or nothing for a closed one.       *)
THEOREM ShownIsCurrent == Spec => []DiagnosticsCurrent
<1>. QED
  BY AlwaysInv, PTL DEF SessionInv

(* _consume_cancelled_request: a cancellation refuses one request at most. *)
THEOREM RefusedOnce == Spec => []CancelledOnce
<1>. QED
  BY AlwaysInv, PTL DEF SessionInv

(* The ledger of cancelled ids stays within its limit, whatever the limit, *)
(* repeats no id, and never drops the cancellation that came last.         *)
THEOREM LedgerBounded == Spec => []NewestCancelHeld
<1>. QED
  BY AlwaysInv, PTL DEF SessionInv

\* What one message may do to the documents, the capabilities and the exit.
LEMMA ServedStep ==
  ASSUME SessionInv, [Next]_vars
  PROVE  /\ session'.documents # session.documents => InSession
         /\ session.initialized => session'.enabled = session.enabled
         /\ process' = 0 /\ process # 0 => session.shutdown
<1>. DEFINE Goal == /\ session'.documents # session.documents => InSession
                    /\ session.initialized => session'.enabled = session.enabled
                    /\ process' = 0 /\ process # 0 => session.shutdown
<1>1. ASSUME NEW m \in Message, Receive(m)
      PROVE  Goal
  <2>. DEFINE outcome == Processed(session, m)
  <2>1. /\ session \in Session /\ process = None /\ session.exitCode = None
        /\ session' = outcome.session /\ process' = outcome.session.exitCode
    BY <1>1 DEF Receive, SessionInv, TypeOK, ExitEnds
  <2>2. \/ Lifecycle(session, m, outcome) \/ Cancellation(session, m, outcome)
        \/ Refusal(session, m, outcome) \/ Storing(session, m, outcome)
        \/ Closing(session, m, outcome)
    BY <2>1, Kinds
  <2>. HIDE DEF outcome
  <2>3. CASE Lifecycle(session, m, outcome)
    BY <2>1, <2>3 DEF Lifecycle
  <2>4. CASE Cancellation(session, m, outcome)
    BY <2>1, <2>4 DEF Cancellation, Session
  <2>5. CASE Refusal(session, m, outcome)
    BY <2>1, <2>5 DEF Refusal, Session
  <2>6. CASE Storing(session, m, outcome)
    BY <2>1, <2>6 DEF Storing, Stored, InSession, Session
  <2>7. CASE Closing(session, m, outcome)
    BY <2>1, <2>7 DEF Closing, InSession, Session
  <2>. QED
    BY <2>2, <2>3, <2>4, <2>5, <2>6, <2>7
<1>2. CASE EndOfInput
  BY <1>2 DEF EndOfInput, EXIT_UNCLEAN, EXIT_TRANSPORT_ERROR
<1>3. CASE UNCHANGED vars
  BY <1>3 DEF vars
<1>. QED
  BY <1>1, <1>2, <1>3 DEF Next

(* Documents change between initialize and shutdown only, the capabilities *)
(* are fixed by initialize, and exit is clean only after shutdown.         *)
THEOREM Served == Spec => ServedInSession
<1>1. SessionInv /\ [Next]_vars =>
        [ /\ session'.documents # session.documents => InSession
          /\ session.initialized => session'.enabled = session.enabled
          /\ process' = 0 /\ process # 0 => session.shutdown ]_vars
  BY ServedStep
<1>. QED
  BY <1>1, AlwaysInv, PTL DEF Spec, ServedInSession

\* What one message may do to the versions the client is shown.
LEMMA AscendStep ==
  ASSUME SessionInv, [Next]_vars, NEW u \in Uri,
         session.documents[u] # None, session'.documents[u] # None, shown'[u] # shown[u]
  PROVE  shown[u] = None \/ shown[u].version = None \/ shown'[u].version > shown[u].version
<1>1. PICK m \in Message : Receive(m)
  BY DEF Next, EndOfInput, vars
<1>. DEFINE outcome == Processed(session, m)
<1>2. /\ session \in Session /\ session' = outcome.session /\ Remembered(m, outcome.output)
      /\ shown \in [Uri -> AnyPublication \cup {None}] /\ SessionInv'
  BY <1>1, StepInv DEF Receive, SessionInv, TypeOK
<1>3. \/ Lifecycle(session, m, outcome) \/ Cancellation(session, m, outcome)
      \/ Refusal(session, m, outcome) \/ Storing(session, m, outcome)
      \/ Closing(session, m, outcome)
  BY <1>2, Kinds
<1>. HIDE DEF outcome
<1>4. ASSUME \A v \in Uri : PublicationsOf(v, outcome.output) = {}
      PROVE  FALSE
  BY <1>2, <1>4 DEF Remembered, ShownAfter
<1>5. CASE Lifecycle(session, m, outcome)
  BY <1>4, <1>5 DEF Lifecycle, Quiet, PublicationsOf
<1>6. CASE Cancellation(session, m, outcome)
  BY <1>4, <1>6 DEF Cancellation, PublicationsOf
<1>7. CASE Refusal(session, m, outcome)
  BY <1>4, <1>7 DEF Refusal, PublicationsOf
<1>8. CASE Closing(session, m, outcome)
  <2>1. u # m.uri
    BY <1>2, <1>8 DEF Closing, Session
  <2>2. PublicationsOf(u, outcome.output) = {}
    BY <1>8, <2>1, ClearedIsPublication DEF Closing, PublicationsOf
  <2>. QED
    BY <1>2, <2>2 DEF Remembered, ShownAfter
<1>9. CASE Storing(session, m, outcome)
  <2>1. /\ m.uri \in Uri /\ m.version \in Version /\ m.text \in Text
        /\ session' = Stored(session, m)
        /\ session.documents[m.uri] = None \/ m.version > session.documents[m.uri].version
        /\ outcome.output = PublishDocumentDiagnostics(session', m.uri)
    BY <1>2, <1>9 DEF Storing
  <2>2. /\ session'.documents[m.uri] = [version |-> m.version, text |-> m.text]
        /\ session'.enabled = session.enabled /\ session' \in Session
    BY <1>2, <2>1 DEF Stored, Session, SessionInv, TypeOK
  <2>3. outcome.output # <<>>
    BY <1>4 DEF PublicationsOf
  <2>4. /\ outcome.output = <<Shown(session', m.uri)>>
        /\ Analysis[session'.documents[m.uri].text] # Raised
    BY <2>1, <2>3 DEF PublishDocumentDiagnostics
  <2>5. session'.documents[m.uri] # None
    BY <2>1, <2>2, LspConstants
  <2>6. /\ Shown(session', m.uri).reply = "publishDiagnostics"
        /\ Shown(session', m.uri).uri = m.uri
        /\ Shown(session', m.uri).version = IF "versionSupport" \in session.enabled
                                            THEN m.version ELSE None
    BY <2>1, <2>2, <2>4, <2>5, ShownIsPublication
  <2>7. shown' = [shown EXCEPT ![m.uri] = Shown(session', m.uri)]
    BY <1>2, <2>1, <2>4, <2>6, PublishedHistory DEF Remembered
  <2>8. u = m.uri /\ shown'[u].version = IF "versionSupport" \in session.enabled
                                         THEN m.version ELSE None
    BY <1>2, <2>1, <2>6, <2>7
  <2>. SUFFICES ASSUME shown[u] # None, shown[u].version # None
                PROVE  shown'[u].version > shown[u].version
    OBVIOUS
  <2>9. /\ "versionSupport" \in session.enabled
        /\ shown[u].version <= session.documents[u].version
    BY DEF SessionInv, ShownIsStored
  <2>10. shown[u].version \in Int /\ session.documents[u].version \in Int
    <3>1. session.documents[u] \in Document /\ shown[u] \in AnyPublication
      BY <1>2 DEF Session
    <3>. QED
      BY <3>1, LspConstants DEF Document, AnyPublication
  <2>. QED
    <3>1. m.version > session.documents[u].version
      BY <2>1, <2>8
    <3>2. shown'[u].version = m.version /\ m.version \in Int
      BY <2>1, <2>8, <2>9, LspConstants
    <3>. QED
      BY <2>9, <2>10, <3>1, <3>2
<1>. QED
  BY <1>3, <1>5, <1>6, <1>7, <1>8, <1>9

(* While a document is open the versions it is published with increase.    *)
THEOREM VersionsIncrease == Spec => VersionsAscend
<1>1. SessionInv /\ [Next]_vars =>
        [ \A u \in Uri :
            /\ session.documents[u] # None /\ session'.documents[u] # None
            /\ shown'[u] # shown[u]
            => shown[u] = None \/ shown[u].version = None \/ shown'[u].version > shown[u].version ]_vars
  BY AscendStep
<1>. QED
  BY <1>1, AlwaysInv, PTL DEF Spec, VersionsAscend

-----------------------------------------------------------------------------
(* Requests and their answers.                                             *)

\* The answers among the messages written: one for a request, none otherwise.
AnsweredBy(m, output) ==
  LET answers == {i \in DOMAIN output : output[i].reply # "publishDiagnostics"}
  IN  IF IsRequest(m) THEN answers = {1} /\ output[1].id = m.id ELSE answers = {}

LEMMA BuildersAnswer ==
  ASSUME NEW m
  PROVE  /\ IsRequest(m) => \A s : AnsweredBy(m, Answered(s, m).output)
         /\ ~IsRequest(m) => \A s : AnsweredBy(m, Silent(s).output)
         /\ ~IsRequest(m) => \A s, u : AnsweredBy(m, PublishDocumentDiagnostics(s, u))
         /\ ~IsRequest(m) => \A u : AnsweredBy(m, <<Cleared(u)>>) /\ AnsweredBy(m, <<>>)
<1>1. ASSUME NEW r, r # "publishDiagnostics", IsRequest(m)
      PROVE  AnsweredBy(m, <<[reply |-> r, id |-> m.id]>>)
  BY <1>1 DEF AnsweredBy
<1>2. ASSUME ~IsRequest(m)
      PROVE  AnsweredBy(m, <<>>)
  BY <1>2 DEF AnsweredBy
<1>3. ASSUME NEW p, p.reply = "publishDiagnostics", ~IsRequest(m)
      PROVE  AnsweredBy(m, <<p>>)
  BY <1>3 DEF AnsweredBy
<1>4. \A s, u : Shown(s, u).reply = "publishDiagnostics" /\ Cleared(u).reply = "publishDiagnostics"
  BY DEF Shown, Cleared, Publication
<1>5. IsRequest(m) => \A s : AnsweredBy(m, Answered(s, m).output)
  BY <1>1 DEF Answered
<1>6. ~IsRequest(m) => \A s : AnsweredBy(m, Silent(s).output)
  BY <1>2 DEF Silent
<1>7. ~IsRequest(m) => \A s, u : AnsweredBy(m, PublishDocumentDiagnostics(s, u))
  BY <1>2, <1>3, <1>4 DEF PublishDocumentDiagnostics
<1>8. ~IsRequest(m) => \A u : AnsweredBy(m, <<Cleared(u)>>) /\ AnsweredBy(m, <<>>)
  BY <1>2, <1>3, <1>4
<1>. QED
  BY <1>5, <1>6, <1>7, <1>8

LEMMA RefusalsAnswer ==
  ASSUME NEW m, NEW s, NEW code, code # "publishDiagnostics"
  PROVE  AnsweredBy(m, Refused(s, m, code).output)
BY DEF Refused, AnsweredBy

\* What is dispatched once the session is in service.
LEMMA InServiceAnswers ==
  ASSUME NEW s \in Session, NEW m \in Message,
         m.method \notin {"malformed", "$/cancelRequest", "$/setTrace"}
  PROVE  AnsweredBy(m, InService(s, m).output)
<1>1. CASE \/ m.method = "initialize"
           \/ m.method \in Notifications /\ IsRequest(m)
           \/ m.method \in Requests /\ ~IsRequest(m)
  BY <1>1, RefusalsAnswer DEF InService
<1>. DEFINE Right == ~(\/ m.method = "initialize"
                       \/ m.method \in Notifications /\ IsRequest(m)
                       \/ m.method \in Requests /\ ~IsRequest(m))
<1>2. CASE Right /\ m.method = "initialized"
  <2>1. InService(s, m) = Silent(s) /\ ~IsRequest(m)
    BY <1>2 DEF InService, Notifications
  <2>. QED
    BY <2>1, BuildersAnswer
<1>3. CASE Right /\ m.method = "shutdown"
  <2>1. InService(s, m) = Shutdown(s, m) /\ IsRequest(m)
    BY <1>3 DEF InService, Requests
  <2>. QED
    BY <2>1, BuildersAnswer, RefusalsAnswer DEF Shutdown
<1>4. CASE Right /\ m.method = "exit"
  <2>1. InService(s, m) = Exit(s, m) /\ ~IsRequest(m)
    BY <1>4 DEF InService, Notifications
  <2>. QED
    BY <2>1, BuildersAnswer DEF Exit, Exited
<1>5. CASE Right /\ m.method = "didOpen"
  <2>1. InService(s, m) = DidOpen(s, m) /\ ~IsRequest(m)
    BY <1>5 DEF InService, Notifications
  <2>. QED
    BY <2>1, BuildersAnswer DEF DidOpen, Publishing
<1>6. CASE Right /\ m.method = "didChange"
  <2>1. InService(s, m) = DidChange(s, m) /\ ~IsRequest(m)
    BY <1>6 DEF InService, Notifications
  <2>. QED
    BY <2>1, BuildersAnswer DEF DidChange, Publishing
<1>7. CASE Right /\ m.method = "didClose"
  <2>1. InService(s, m) = DidClose(s, m) /\ ~IsRequest(m)
    BY <1>7 DEF InService, Notifications
  <2>. QED
    BY <2>1, BuildersAnswer DEF DidClose, Publishing
<1>8. CASE Right /\ m.method = "feature"
  <2>1. InService(s, m) = Serve(s, m) /\ IsRequest(m)
    BY <1>8 DEF InService, Requests
  <2>. QED
    BY <2>1, BuildersAnswer, RefusalsAnswer DEF Serve
<1>9. CASE Right /\ m.method = "unknown"
  <2>1. InService(s, m) = Refused(s, m, "MethodNotFound")
    BY <1>9 DEF InService
  <2>. QED
    BY <2>1, RefusalsAnswer
<1>. QED
  BY <1>1, <1>2, <1>3, <1>4, <1>5, <1>6, <1>7, <1>8, <1>9, MessageParts

LEMMA ProcessedAnswers ==
  ASSUME NEW s \in Session, NEW m \in Message
  PROVE  AnsweredBy(m, Processed(s, m).output)
<1>1. CASE m.method \in {"malformed", "$/setTrace"}
  BY <1>1, RefusalsAnswer DEF Processed, SetTrace
<1>2. CASE m.method = "$/cancelRequest"
  <2>1. Processed(s, m) = CancelRequest(s, m)
    BY <1>2 DEF Processed
  <2>2. CASE IsRequest(m)
    BY <2>1, <2>2, RefusalsAnswer DEF CancelRequest
  <2>3. CASE ~IsRequest(m)
    BY <2>1, <2>3, BuildersAnswer DEF CancelRequest
  <2>. QED
    BY <2>2, <2>3
<1>3. CASE m.method \notin {"malformed", "$/cancelRequest", "$/setTrace"}
  <2>1. Processed(s, m) = Dispatched(s, m)
    BY <1>3 DEF Processed
  <2>2. CASE IsRequest(m) /\ InLedger(s, m.id)
    BY <2>1, <2>2, RefusalsAnswer DEF Dispatched, RefuseCancelled
  <2>3. CASE ~(IsRequest(m) /\ InLedger(s, m.id)) /\ ~s.initialized
    <3>1. Processed(s, m) = BeforeInitialize(s, m)
      BY <2>1, <2>3 DEF Dispatched
    <3>2. CASE m.method = "initialize" /\ IsRequest(m)
      <4>1. Processed(s, m) = Initialize(s, m)
        BY <3>1, <3>2 DEF BeforeInitialize
      <4>. QED
        BY <3>2, <4>1, BuildersAnswer, RefusalsAnswer DEF Initialize
    <3>3. CASE m.method = "exit" /\ ~IsRequest(m)
      BY <3>1, <3>3, BuildersAnswer DEF BeforeInitialize, Exited
    <3>4. CASE /\ ~(m.method = "initialize" /\ IsRequest(m))
               /\ ~(m.method = "exit" /\ ~IsRequest(m))
      BY <3>1, <3>4, RefusalsAnswer DEF BeforeInitialize
    <3>. QED
      BY <3>2, <3>3, <3>4
  <2>4. CASE ~(IsRequest(m) /\ InLedger(s, m.id)) /\ s.initialized /\ s.shutdown
    <3>1. Processed(s, m) = AfterShutdown(s, m)
      BY <2>1, <2>4 DEF Dispatched
    <3>. QED
      BY <3>1, BuildersAnswer, RefusalsAnswer DEF AfterShutdown, Exited
  <2>5. CASE ~(IsRequest(m) /\ InLedger(s, m.id)) /\ s.initialized /\ ~s.shutdown
    <3>1. Processed(s, m) = InService(s, m)
      BY <2>1, <2>5 DEF Dispatched
    <3>. QED
      BY <1>3, <3>1, InServiceAnswers
  <2>. QED
    BY <2>2, <2>3, <2>4, <2>5 DEF Session
<1>. QED
  BY <1>1, <1>2, <1>3

(* Whatever the session has come to, process answers every request exactly *)
(* once, first and with its id, and never answers a notification.          *)
THEOREM EachAnswered == Spec => []OneAnswerEach
<1>1. SessionInv => OneAnswerEach
  BY ProcessedAnswers DEF SessionInv, TypeOK, OneAnswerEach, AnsweredBy
<1>. QED
  BY <1>1, AlwaysInv, PTL

=============================================================================
