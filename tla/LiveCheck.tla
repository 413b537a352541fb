----------------------------- MODULE LiveCheck -----------------------------
(***************************************************************************)
(* The desktop's dry run: workbooks are imported into a local SQLite event *)
(* store, codes are looked up through the live read-only True API client,  *)
(* and each event gets a preview (a decision that may later be acted on).  *)
(* FastAPI runs the handlers of wbcz_ui/api.py in a thread pool, all over  *)
(* one store file and one client object; every store call is one           *)
(* transaction, the lookup is a network call between them.                 *)
(*                                                                         *)
(* External: the registry (`ver'), the certificate, the TLS tunnel.        *)
(***************************************************************************)
EXTENDS Naturals, FiniteSets

CONSTANTS
  Events,      \* events a workbook may carry
  KizOf,       \* the code of an event
  DateOf,      \* its date, NoDate when the row has none
  NoDate,
  Workbooks,   \* file fingerprints
  RowsOf,      \* the events of a workbook's accepted rows
  Threads,     \* requests the UI server works on at once
  MaxChanges,  \* bound on changes of a code in the registry
  MaxLogins    \* bound on authentications

Kizes == {KizOf[e] : e \in Events}

ASSUME LiveCheckAssumption ==
  /\ IsFiniteSet(Events)
  /\ RowsOf \in [Workbooks -> SUBSET Events]
  /\ MaxChanges \in Nat /\ MaxLogins \in Nat

VARIABLES
  imports,   \* imported workbooks
  events,    \* rows of the events table
  preview,   \* the current preview of each event
  ver,       \* how often the registry changed a code; even = in circulation
  session,   \* _session: "none", "live", "expired"
  preflight, \* preflight_ok
  usable,    \* the selected certificate passes the inspector
  logins,
  cache,     \* _cache: per code nothing, an exception, or the state read
  thread,    \* what each request is in the middle of
  cut        \* events whose check was cut off between its two writes

liveVars == <<imports, events, preview, ver, session, preflight, usable,
              logins, cache, thread, cut>>

storeVars == <<imports, events>>
clientVars == <<session, preflight, usable, logins>>

Nothing == [is |-> "nothing", ver |-> 0]
Failed == [is |-> "exception", ver |-> 0]
State(k) == [is |-> "state", ver |-> ver[k]]
Entries == [is : {"state"}, ver : 0 .. MaxChanges] \cup {Nothing, Failed}

Decisions == {"none", "READY", "DONE", "ERROR", "MANUAL_REVIEW"}

NoAnswer == [k \in Kizes |-> Nothing]

Waiting == [at |-> "idle", todo |-> {}, need |-> {}, got |-> NoAnswer,
            used |-> Nothing]

Requests == [at : {"idle", "prime", "fill", "check", "lookup", "save", "guard", "demote"},
             todo : SUBSET Events, need : SUBSET Kizes, got : [Kizes -> Entries],
             used : Entries]

LiveTypeOK ==
  /\ imports \in SUBSET Workbooks
  /\ events \in SUBSET Events
  /\ preview \in [Events -> Decisions]
  /\ ver \in [Kizes -> 0 .. MaxChanges]
  /\ session \in {"none", "live", "expired"}
  /\ preflight \in BOOLEAN /\ usable \in BOOLEAN
  /\ logins \in 0 .. MaxLogins
  /\ cache \in [Kizes -> Entries]
  /\ thread \in [Threads -> Requests]
  /\ cut \in SUBSET Events
  /\ \A e \in Events : preview[e] # "none" => e \in events

LiveInit ==
  /\ imports = {} /\ events = {} /\ cut = {}
  /\ preview = [e \in Events |-> "none"]
  /\ ver = [k \in Kizes |-> 0]
  /\ session = "none" /\ preflight = FALSE /\ usable = TRUE /\ logins = 0
  /\ cache = [k \in Kizes |-> Nothing]
  /\ thread = [t \in Threads |-> Waiting]

----------------------------------------------------------------------------
(* The event store                                                         *)

History(k) == {e \in events : KizOf[e] = k}

\* history_order_ambiguous: a missing date, or two equal ones, among several.
Ambiguous(k) ==
  /\ Cardinality(History(k)) >= 2
  /\ \/ \E e \in History(k) : DateOf[e] = NoDate
     \/ \E e, f \in History(k) : e # f /\ DateOf[e] = DateOf[f]

\* Wrong variant: only the new row's own preview is dropped.
OwnPreviewDropped(w) ==
  /\ w \notin imports
  /\ imports' = imports \cup {w}
  /\ events' = events \cup RowsOf[w]
  /\ preview' = [e \in Events |-> IF e \in RowsOf[w] \ events THEN "none" ELSE preview[e]]
  /\ cut' = cut
  /\ UNCHANGED <<ver, clientVars, cache, thread>>

\* import_workbook: known rows are duplicates; every row that is new drops the
\* previews of all events of its code.  A known file is only audited.
ImportWorkbook(w) ==
  /\ w \notin imports
  /\ imports' = imports \cup {w}
  /\ events' = events \cup RowsOf[w]
  /\ LET changed == {KizOf[e] : e \in RowsOf[w] \ events}
         stale == {e \in Events : KizOf[e] \in changed}
     IN  /\ preview' = [e \in Events |-> IF e \in stale THEN "none" ELSE preview[e]]
         /\ cut' = cut \ stale
  /\ UNCHANGED <<ver, clientVars, cache, thread>>

----------------------------------------------------------------------------
(* The live client                                                         *)

\* External: an operation elsewhere withdraws or returns the code.
RegistryChanges(k) ==
  /\ ver[k] < MaxChanges
  /\ ver' = [ver EXCEPT ![k] = @ + 1]
  /\ UNCHANGED <<storeVars, preview, clientVars, cache, thread, cut>>

CertificateLapses ==
  /\ usable /\ usable' = FALSE
  /\ UNCHANGED <<storeVars, preview, ver, session, preflight, logins, cache, thread, cut>>

\* WindowsCryptoProCertificateInspector.inspect: the certificate is in the
\* store with its private key, valid now, a GOST key of a CryptoPro provider,
\* and cryptcp is installed.
Inspect == usable

\* Challenge, inspection and cryptcp's attached signature.
SignAuthChallenge == Inspect

\* One challenge over the tunnel, then the certificate inspector; a failure
\* of either raises before the flag is set.
Preflight ==
  /\ Inspect /\ ~preflight
  /\ preflight' = TRUE
  /\ UNCHANGED <<storeVars, preview, ver, session, usable, logins, cache, thread, cut>>

\* Challenge, attached signature with the inspected certificate, sign-in; a
\* new session empties the cache.
Authenticate ==
  /\ preflight /\ SignAuthChallenge
  /\ logins < MaxLogins
  /\ logins' = logins + 1
  /\ session' = "live"
  /\ cache' = [k \in Kizes |-> Nothing]
  /\ UNCHANGED <<storeVars, preview, ver, preflight, usable, thread, cut>>

SessionExpires ==
  /\ session = "live" /\ session' = "expired"
  /\ UNCHANGED <<storeVars, preview, ver, preflight, usable, logins, cache, thread, cut>>

----------------------------------------------------------------------------
(* A check request                                                         *)

Missing(todo) == {k \in {KizOf[e] : e \in todo} : cache[k] = Nothing}

\* check_import: the selected events of an import are loaded; without a live
\* session the request is refused.
BeginCheck(t, w, sel) ==
  /\ thread[t].at = "idle"
  /\ w \in imports /\ sel # {} /\ sel \subseteq RowsOf[w]
  /\ session = "live"
  /\ thread' = [thread EXCEPT ![t] =
       [Waiting EXCEPT !.at = "prime", !.todo = sel, !.need = Missing(sel)]]
  /\ UNCHANGED <<storeVars, preview, ver, clientVars, cache, cut>>

\* prime: _bearer refuses an expired session and forgets it; otherwise one
\* cises/info request per batch of the codes that are not cached.
PrimeRefused(t) ==
  /\ thread[t].at = "prime" /\ session # "live"
  /\ session' = "none"
  /\ thread' = [thread EXCEPT ![t] = Waiting]
  /\ UNCHANGED <<storeVars, preview, ver, preflight, usable, logins, cache, cut>>

\* Whatever goes wrong with the request (the tunnel does not start, no GOST
\* session is proven, a transport or HTTP error, no JSON) becomes the cached
\* answer of every code of the batch.
PrimeRequest(t, ok) ==
  /\ thread[t].at \in {"prime", "lookup"} /\ session = "live"
  /\ ok \/ thread[t].need # {}
  /\ thread' = [thread EXCEPT
       ![t].at = "fill",
       ![t].got = [k \in Kizes |-> IF k \notin thread[t].need THEN Nothing
                                   ELSE IF ok THEN State(k) ELSE Failed]]
  /\ UNCHANGED <<storeVars, preview, ver, clientVars, cache, cut>>

PrimeStores(t) ==
  /\ thread[t].at = "fill"
  /\ cache' = [k \in Kizes |-> IF k \in thread[t].need THEN thread[t].got[k] ELSE cache[k]]
  /\ thread' = [thread EXCEPT ![t].at = "check", ![t].got = NoAnswer, ![t].need = {}]
  /\ UNCHANGED <<storeVars, preview, ver, clientVars, cut>>

Current(t) == CHOOSE e \in thread[t].todo : TRUE

\* get_ki_state: a code another request's login dropped from the cache is
\* looked up again; a refused session is an exception of the lookup.
GetKiState(t) ==
  /\ thread[t].at = "check" /\ thread[t].todo # {}
  /\ LET k == KizOf[Current(t)]
     IN  IF cache[k] # Nothing
         THEN /\ thread' = [thread EXCEPT ![t].at = "save", ![t].used = cache[k]]
              /\ session' = session
         ELSE IF session = "live"
         THEN /\ thread' = [thread EXCEPT ![t].at = "lookup", ![t].need = {k}]
              /\ session' = session
         ELSE /\ thread' = [thread EXCEPT ![t].at = "save", ![t].used = Failed]
              /\ session' = "none"
  /\ UNCHANGED <<storeVars, preview, ver, preflight, usable, logins, cache, cut>>

\* A session that expires between the two looks of get_ki_state.
LookupRefused(t) ==
  /\ thread[t].at = "lookup" /\ session # "live"
  /\ session' = "none"
  /\ thread' = [thread EXCEPT ![t].at = "save", ![t].used = Failed, ![t].need = {}]
  /\ UNCHANGED <<storeVars, preview, ver, preflight, usable, logins, cache, cut>>

\* What decide makes of a sale with its receipt: ready while the code is in
\* circulation, already done once it is withdrawn.
Decide(entry) ==
  IF entry.is = "exception" THEN "ERROR"
  ELSE IF entry.ver % 2 = 0 THEN "READY" ELSE "DONE"

SaveCheck(t) ==
  /\ thread[t].at = "save"
  /\ preview' = [preview EXCEPT ![Current(t)] = Decide(thread[t].used)]
  /\ cut' = cut \ {Current(t)}
  /\ thread' = [thread EXCEPT ![t].at = "guard"]
  /\ UNCHANGED <<storeVars, ver, clientVars, cache>>

Finished(t) ==
  LET rest == thread[t].todo \ {Current(t)}
  IN  IF rest = {} THEN Waiting
      ELSE [thread[t] EXCEPT !.at = "check", !.todo = rest, !.used = Nothing]

HistoryGuard(t) ==
  /\ thread[t].at = "guard"
  /\ thread' = [thread EXCEPT ![t] =
       IF Ambiguous(KizOf[Current(t)]) THEN [@ EXCEPT !.at = "demote"] ELSE Finished(t)]
  /\ UNCHANGED <<storeVars, preview, ver, clientVars, cache, cut>>

Demote(t) ==
  /\ thread[t].at = "demote"
  /\ preview' = [preview EXCEPT ![Current(t)] = "MANUAL_REVIEW"]
  /\ cut' = cut \ {Current(t)}
  /\ thread' = [thread EXCEPT ![t] = Finished(t)]
  /\ UNCHANGED <<storeVars, ver, clientVars, cache>>

\* The server stops: requests and client are gone, the file stays.
ServerStops ==
  /\ \E t \in Threads : thread[t].at # "idle"
  /\ cut' = cut \cup {Current(t) : t \in {u \in Threads : thread[u].at \in {"guard", "demote"}}}
  /\ thread' = [t \in Threads |-> Waiting]
  /\ session' = "none" /\ preflight' = FALSE
  /\ cache' = [k \in Kizes |-> Nothing]
  /\ UNCHANGED <<storeVars, preview, ver, usable, logins>>

ThreadNext(t) ==
  \/ \E w \in Workbooks : \E sel \in SUBSET RowsOf[w] : BeginCheck(t, w, sel)
  \/ PrimeRefused(t) \/ LookupRefused(t)
  \/ \E ok \in BOOLEAN : PrimeRequest(t, ok)
  \/ PrimeStores(t) \/ GetKiState(t) \/ SaveCheck(t)
  \/ HistoryGuard(t) \/ Demote(t)

LiveNext ==
  \/ \E w \in Workbooks : ImportWorkbook(w)
  \/ \E k \in Kizes : RegistryChanges(k)
  \/ CertificateLapses \/ Preflight \/ Authenticate \/ SessionExpires
  \/ \E t \in Threads : ThreadNext(t)
  \/ ServerStops

LiveSpec == LiveInit /\ [][LiveNext]_liveVars

----------------------------------------------------------------------------

\* An event whose code has a history that cannot be put in order is never
\* left ready to act on, however imports and checks interleave: the import
\* drops the previews of the code, and a check that raced it finds the new
\* row when it looks at the history after its own write.  Only a request
\* that is between its two writes, or that the server's end cut off there,
\* may leave such a preview behind.
ReadyMeansOrdered ==
  \A e \in Events :
    preview[e] = "READY" /\ Ambiguous(KizOf[e])
      => \/ \E t \in Threads : thread[t].at \in {"guard", "demote"} /\ Current(t) = e
         \/ e \in cut
============================================================================
