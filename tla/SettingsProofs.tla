--------------------------- MODULE SettingsProofs ---------------------------
(***************************************************************************)
(* The participant's connections, for any administrators, agents, callers  *)
(* and limits: a rotation never leaves a credential that cannot be read,   *)
(* a certificate is called active only if the agent applied it, and the    *)
(* stored request budgets are kept.                                        *)
(***************************************************************************)
EXTENDS IntegrationSettings, FiniteSetTheorems, SequenceTheorems, TLAPS

(* Secret rotation                                                         *)

\* Served now, or withdrawn because an administrator asked for it.
InUse(v, P, R) == (v \in Versions /\ P[v] = "active") \/ v \in R

\* A request works on a version that exists; an activated one stays served
\* until it is revoked, so adopting it late is safe.
SecretInv ==
  /\ SecretTypeOK
  /\ \A a \in Admins : req[a].at # "idle" => req[a].ver \in Versions
  /\ \A a \in Admins : req[a].at = "activated" => InUse(req[a].ver, provider, resting)
  /\ ActiveSecretIsServed

\* The shape of a request in progress.
RequestSet == [at : {"idle", "staged", "activated"}, ver : 0..MaxVersion, pending : 0..MaxVersion]

SecretRow == [active : 0..MaxVersion, pending : 0..MaxVersion, legacy : BOOLEAN,
              rotation : {"NONE", "PENDING", "PENDING_FAILED", "ACTIVE", "REVOKED"}]

LEMMA SecretShape == SecretTypeOK => secret \in SecretRow /\ req \in [Admins -> RequestSet]
  BY DEF SecretTypeOK, SecretRow, RequestSet

LEMMA NoVersionShape == NoVersion \in 0..MaxVersion
  BY SecretConstants DEF NoVersion

LEMMA IdleRequest == Idle \in RequestSet /\ Idle.at = "idle"
  BY SecretConstants DEF Idle, RequestSet, NoVersion

\* A provider step that takes a version out of service only when it is asked to
\* and the requests' own steps.
LEMMA SecretKept ==
  ASSUME SecretInv, SecretTypeOK',
         \A v \in Versions : InUse(v, provider, resting) => InUse(v, provider', resting'),
         secret'.active # NoVersion => InUse(secret'.active, provider', resting'),
         \A a \in Admins :
           \/ req'[a] = req[a]
           \/ req'[a].at = "idle"
           \/ /\ req'[a].ver \in Versions
              /\ req'[a].at = "activated" => InUse(req'[a].ver, provider', resting')
  PROVE  SecretInv'
<1>1. (\A a \in Admins : req[a].at # "idle" => req[a].ver \in Versions)'
  BY DEF SecretInv
<1>2. (\A a \in Admins : req[a].at = "activated" => InUse(req[a].ver, provider, resting))'
  BY DEF SecretInv
<1>3. ActiveSecretIsServed'
  BY DEF ActiveSecretIsServed, InUse, Served
<1> QED
  BY <1>1, <1>2, <1>3 DEF SecretInv

\* The provider and what was revoked are as before.
LEMMA SameService ==
  ASSUME UNCHANGED <<provider, resting>>
  PROVE  \A v : InUse(v, provider', resting') = InUse(v, provider, resting)
  BY DEF InUse

\* A version that was never staged is written; no other is touched.
LEMMA FreshWritten ==
  ASSUME SecretInv, NEW v \in Fresh, NEW s \in {"absent", "staged", "active", "gone"},
         provider' = [provider EXCEPT ![v] = s], resting' = resting
  PROVE  /\ v \in Versions
         /\ provider' \in [Versions -> {"absent", "staged", "active", "gone"}]
         /\ \A w \in Versions : InUse(w, provider, resting) => InUse(w, provider', resting')
  BY DEF SecretInv, SecretTypeOK, Fresh, InUse, Served

LEMMA StageKeeps ==
  ASSUME SecretInv, NEW a \in Admins, SetSecretStage(a)
  PROVE  SecretInv'
<1>1. PICK v \in Fresh : /\ Stage(v)
                         /\ secret' = [secret EXCEPT !.pending = v, !.rotation = "PENDING"]
                         /\ req' = [req EXCEPT ![a] = [at |-> "staged", ver |-> v, pending |-> v]]
  BY Zenon DEF SetSecretStage
<1>2. UNCHANGED <<wbHealth, resting>>
  BY DEF SetSecretStage
<1>3. /\ v \in Versions
      /\ provider' \in [Versions -> {"absent", "staged", "active", "gone"}]
      /\ \A w \in Versions : InUse(w, provider, resting) => InUse(w, provider', resting')
  BY <1>1, <1>2, FreshWritten DEF Stage
<1>4. v \in 0..MaxVersion
  BY <1>3, SecretConstants DEF Versions
<1>5. secret'.active = secret.active
  BY <1>1 DEF SecretInv, SecretTypeOK
<1>6. [at |-> "staged", ver |-> v, pending |-> v] \in RequestSet
  BY <1>4 DEF RequestSet
<1>7. SecretTypeOK'
  <2>1. req' \in [Admins -> RequestSet]
    BY <1>1, <1>6 DEF SecretInv, SecretTypeOK, RequestSet
  <2> QED
    BY <1>1, <1>2, <1>3, <1>4, <2>1 DEF SecretInv, SecretTypeOK, RequestSet
<1>8. secret'.active # NoVersion => InUse(secret'.active, provider', resting')
  BY <1>3, <1>5, SecretConstants
     DEF SecretInv, SecretTypeOK, ActiveSecretIsServed, InUse, Served, Versions, NoVersion
<1>9. \A b \in Admins : req'[b] = req[b] \/ (req'[b].ver = v /\ req'[b].at = "staged")
  BY <1>1 DEF SecretInv, SecretTypeOK
<1> QED
  BY <1>3, <1>7, <1>8, <1>9, SecretKept

LEMMA StageFailsKeeps ==
  ASSUME SecretInv, NEW a \in Admins, SetSecretStageFails(a)
  PROVE  SecretInv'
<1>1. PICK v \in Fresh, left \in {"gone", "staged"} : provider' = [provider EXCEPT ![v] = left]
  BY DEF SetSecretStageFails
<1>2. UNCHANGED <<secret, req, wbHealth, resting>>
  BY DEF SetSecretStageFails
<1>3. /\ v \in Versions
      /\ provider' \in [Versions -> {"absent", "staged", "active", "gone"}]
      /\ \A w \in Versions : InUse(w, provider, resting) => InUse(w, provider', resting')
  BY <1>1, <1>2, FreshWritten
<1>4. SecretTypeOK'
  BY <1>2, <1>3 DEF SecretInv, SecretTypeOK
<1>5. secret'.active # NoVersion => InUse(secret'.active, provider', resting')
  BY <1>2, <1>3, SecretConstants
     DEF SecretInv, SecretTypeOK, ActiveSecretIsServed, InUse, Served, Versions, NoVersion
<1> QED
  BY <1>2, <1>3, <1>4, <1>5, SecretKept

LEMMA ActivateKeeps ==
  ASSUME SecretInv, NEW a \in Admins, SetSecretActivate(a)
  PROVE  SecretInv'
<1> DEFINE v == req[a].ver
<1>1. v \in Versions /\ req[a] \in RequestSet
  BY DEF SecretInv, SecretTypeOK, SetSecretActivate, RequestSet
<1>2. /\ provider' = [provider EXCEPT ![v] = "active"]
      /\ req' = [req EXCEPT ![a].at = "activated"]
      /\ UNCHANGED <<secret, wbHealth, resting>>
  BY DEF SetSecretActivate, Activate
<1>3. PICK x \in RequestSet : x = [req[a] EXCEPT !.at = "activated"]
        /\ x.ver = v
  <2>1. [req[a] EXCEPT !.at = "activated"] \in RequestSet
    BY <1>1 DEF RequestSet
  <2>2. [req[a] EXCEPT !.at = "activated"].ver = v
    BY <1>1 DEF RequestSet
  <2> QED
    BY <2>1, <2>2
<1>4. req' = [req EXCEPT ![a] = x]
  BY <1>2, <1>3
<1>5. SecretTypeOK'
  <2>1. req' \in [Admins -> RequestSet]
    BY <1>3, <1>4 DEF SecretInv, SecretTypeOK, RequestSet
  <2> QED
    BY <1>1, <1>2, <2>1 DEF SecretInv, SecretTypeOK, RequestSet
<1>6. /\ InUse(v, provider', resting')
      /\ \A w \in Versions : InUse(w, provider, resting) => InUse(w, provider', resting')
  <2>1. /\ provider' \in [Versions -> {"absent", "staged", "active", "gone"}]
        /\ provider'[v] = "active"
        /\ \A w \in Versions : provider[w] = "active" => provider'[w] = "active"
    BY <1>1, <1>2 DEF SecretInv, SecretTypeOK
  <2> QED
    BY <1>1, <1>2, <2>1 DEF InUse, Served
<1>7. secret'.active # NoVersion => InUse(secret'.active, provider', resting')
  BY <1>2, <1>6, SecretConstants
     DEF SecretInv, SecretTypeOK, ActiveSecretIsServed, InUse, Served, Versions, NoVersion
<1>8. \A b \in Admins : req'[b] = req[b] \/ req'[b].ver = v
  BY <1>3, <1>4 DEF SecretInv, SecretTypeOK
<1> QED
  BY <1>1, <1>5, <1>6, <1>7, <1>8, SecretKept

\* A step that leaves the provider alone and ends a request, or none.
LEMMA RowKeeps ==
  ASSUME SecretInv, UNCHANGED <<provider, resting>>,
         secret' \in SecretRow,
         secret'.active # NoVersion => InUse(secret'.active, provider, resting),
         wbHealth' \in {"none", "READY", "ERROR"},
         req' = req \/ \E a \in Admins : req' = [req EXCEPT ![a] = Idle]
  PROVE  SecretInv'
<1>1. req' \in [Admins -> RequestSet] /\ \A a \in Admins : req'[a] = req[a] \/ req'[a].at = "idle"
  BY IdleRequest DEF SecretInv, SecretTypeOK, RequestSet
<1>2. SecretTypeOK'
  BY <1>1 DEF SecretInv, SecretTypeOK, RequestSet, SecretRow
<1>3. \A v : InUse(v, provider', resting') = InUse(v, provider, resting)
  BY SameService
<1> QED
  BY <1>1, <1>2, <1>3, SecretKept

LEMMA ActiveNow ==
  ASSUME SecretInv
  PROVE  secret.active # NoVersion => InUse(secret.active, provider, resting)
  BY DEF SecretInv, ActiveSecretIsServed, InUse, Served

LEMMA AdoptKeeps ==
  ASSUME SecretInv, NEW a \in Admins, SetSecretAdopt(a)
  PROVE  SecretInv'
<1> DEFINE v == req[a].ver
<1>1. v \in Versions /\ InUse(v, provider, resting)
  BY DEF SecretInv, SetSecretAdopt
<1>2. v \in 0..MaxVersion
  BY <1>1, SecretConstants DEF Versions
<1>3. /\ secret' = Adopted(secret, v)
      /\ req' = [req EXCEPT ![a] = Idle]
      /\ UNCHANGED <<provider, wbHealth, resting>>
  BY DEF SetSecretAdopt
<1>4. /\ secret' \in SecretRow
      /\ secret'.active = v
  <2>1. secret \in SecretRow
    BY SecretShape DEF SecretInv
  <2>2. Adopted(secret, v) \in SecretRow
    BY <1>2, <2>1, NoVersionShape DEF Adopted, SecretRow
  <2>3. Adopted(secret, v).active = v
    BY <2>1 DEF Adopted, SecretRow
  <2> QED
    BY <1>3, <2>2, <2>3
<1>5. wbHealth' \in {"none", "READY", "ERROR"}
  BY <1>3 DEF SecretInv, SecretTypeOK
<1> QED
  BY <1>1, <1>3, <1>4, <1>5, RowKeeps

\* Revocation withdraws the active version and remembers that it was asked for.
LEMMA RevokeKeeps ==
  ASSUME SecretInv, RevokeSecret
  PROVE  SecretInv'
<1> DEFINE v == secret.active
<1>1. v \in Versions
  BY SecretConstants DEF RevokeSecret, SecretInv, SecretTypeOK, Versions, NoVersion
<1>2. /\ provider' = [provider EXCEPT ![v] = "gone"] /\ resting' = resting \cup {v}
      /\ UNCHANGED <<req, wbHealth>>
  BY DEF RevokeSecret, Withdraw
<1>3. \/ secret' = [active |-> NoVersion, pending |-> NoVersion, legacy |-> FALSE, rotation |-> "REVOKED"]
      \/ secret' = secret
  BY DEF RevokeSecret
<1>4. /\ secret' \in SecretRow
      /\ secret'.active \in {NoVersion, v}
  <2>1. secret \in SecretRow
    BY SecretShape DEF SecretInv
  <2>2. [active |-> NoVersion, pending |-> NoVersion, legacy |-> FALSE, rotation |-> "REVOKED"]
          \in SecretRow
    BY NoVersionShape DEF SecretRow
  <2>3. CASE secret' = secret
    BY <2>1, <2>3
  <2>4. CASE secret' # secret
    <3>1. secret' = [active |-> NoVersion, pending |-> NoVersion, legacy |-> FALSE,
                     rotation |-> "REVOKED"]
      BY <1>3, <2>4
    <3> QED
      BY <2>2, <3>1
  <2> QED
    BY <2>3, <2>4
<1>5. SecretTypeOK'
  BY <1>1, <1>2, <1>4 DEF SecretInv, SecretTypeOK, SecretRow
<1>6. \A w \in Versions : InUse(w, provider, resting) => InUse(w, provider', resting')
  BY <1>1, <1>2 DEF InUse, Served, SecretInv, SecretTypeOK
<1>7. secret'.active # NoVersion => InUse(secret'.active, provider', resting')
  BY <1>2, <1>4 DEF InUse
<1> QED
  BY <1>2, <1>5, <1>6, <1>7, SecretKept

LEMMA SecretStep == SecretInv /\ [SecretNext]_secretVars => SecretInv'
<1> SUFFICES ASSUME SecretInv, [SecretNext]_secretVars PROVE SecretInv'
  OBVIOUS
<1>1. ASSUME NEW a \in Admins, SetSecretActivateFails(a) PROVE SecretInv'
  <2>1. /\ secret' = [secret EXCEPT !.rotation = "PENDING_FAILED"]
        /\ req' = [req EXCEPT ![a] = Idle] /\ UNCHANGED <<provider, wbHealth, resting>>
    BY <1>1 DEF SetSecretActivateFails
  <2>2. /\ secret' \in SecretRow
        /\ secret'.active = secret.active /\ wbHealth' \in {"none", "READY", "ERROR"}
    BY <2>1 DEF SecretInv, SecretTypeOK, SecretRow
  <2> QED
    BY <2>1, <2>2, ActiveNow, RowKeeps
<1>2. ASSUME NEW a \in Admins, SetSecretDies(a) PROVE SecretInv'
  <2>1. req' = [req EXCEPT ![a] = Idle] /\ UNCHANGED <<secret, provider, wbHealth, resting>>
    BY <1>2 DEF SetSecretDies
  <2>2. /\ secret' \in SecretRow
        /\ wbHealth' \in {"none", "READY", "ERROR"}
    BY <2>1 DEF SecretInv, SecretTypeOK, SecretRow
  <2> QED
    BY <2>1, <2>2, ActiveNow, RowKeeps
<1>3. CASE ReconcileSecretRotation
  <2>1. /\ secret' = [secret EXCEPT !.active = secret.pending, !.pending = NoVersion,
                                    !.rotation = "ACTIVE"]
        /\ Served(secret.pending) /\ UNCHANGED <<provider, req, wbHealth, resting>>
    BY <1>3 DEF ReconcileSecretRotation
  <2>2. /\ secret' \in SecretRow
        /\ secret'.active = secret.pending /\ wbHealth' \in {"none", "READY", "ERROR"}
    <3>1. secret \in SecretRow /\ wbHealth' \in {"none", "READY", "ERROR"}
      BY <2>1, SecretShape DEF SecretInv, SecretTypeOK
    <3>2. PICK p \in 0..MaxVersion : p = secret.pending
      BY <3>1 DEF SecretRow
    <3>3. secret' = [secret EXCEPT !.active = p, !.pending = NoVersion, !.rotation = "ACTIVE"]
      BY <2>1, <3>2
    <3>4. secret' \in SecretRow /\ secret'.active = p
      BY <3>1, <3>3, NoVersionShape DEF SecretRow
    <3> QED
      BY <3>1, <3>2, <3>4
  <2> QED
    BY <2>1, <2>2, RowKeeps DEF InUse, Served
<1>4. CASE CheckSecret \/ UNCHANGED secretVars
  <2>1. UNCHANGED <<secret, provider, req, resting>> /\ wbHealth' \in {"none", "READY", "ERROR"}
    BY <1>4 DEF CheckSecret, secretVars, SecretInv, SecretTypeOK
  <2>2. secret' \in SecretRow
    BY <2>1 DEF SecretInv, SecretTypeOK, SecretRow
  <2> QED
    BY <2>1, <2>2, ActiveNow, RowKeeps
<1> QED
  BY <1>1, <1>2, <1>3, <1>4, StageKeeps, StageFailsKeeps, ActivateKeeps, AdoptKeeps, RevokeKeeps
     DEF SecretNext

\* Whatever rotations of set_secret race, fail or die, the version the row calls
\* active is served by the provider or was revoked by an administrator, for any
\* number of administrators and versions.
THEOREM SecretsServed == SecretSpec => []ActiveSecretIsServed
<1>1. SecretInit => SecretInv
  <2> SUFFICES ASSUME SecretInit PROVE SecretInv
    OBVIOUS
  <2>1. SecretTypeOK
    <3>1. req \in [Admins -> RequestSet]
      BY IdleRequest DEF SecretInit
    <3> QED
      BY <3>1, SecretConstants DEF SecretInit, SecretTypeOK, RequestSet, NoVersion
  <2>2. secret.active = NoVersion /\ \A a \in Admins : req[a].at = "idle"
    BY IdleRequest DEF SecretInit
  <2> QED
    BY <2>1, <2>2 DEF SecretInv, ActiveSecretIsServed
<1>2. SecretInv => ActiveSecretIsServed
  BY DEF SecretInv
<1> QED
  BY <1>1, <1>2, SecretStep, PTL DEF SecretSpec

----------------------------------------------------------------------------

(* Request budgets                                                         *)

\* A reading of the clock is not from the future, and a caller of the window
\* does not wait longer than Lag with it.
ReadingsInv ==
  /\ \A c \in Callers : call[c].now <= clock
  /\ limiter = "window" => \A c \in Callers : call[c].pc = "waiting" => clock - call[c].now <= Lag

\* Requests are sent in the order of the clock, and the history still holds
\* every request of the last Window - Lag seconds.
HistoryInv ==
  /\ \A i \in 1 .. Len(sent) : sent[i] <= clock
  /\ \A i, j \in 1 .. Len(sent) : i <= j => sent[i] <= sent[j]
  /\ \A i \in 1 .. Len(sent) : sent[i] > clock - Window + Lag =>
       i \in DOMAIN stamps /\ stamps[i] >= sent[i] - Lag

Spaced == \A i \in 1 .. Len(sent) - PerWindow : sent[i + PerWindow] - sent[i] >= Window - Lag

\* The bucket earned what it gave out by the time its row names.
BucketInv ==
  /\ bucket.updated <= clock
  /\ spent + bucket.tokens <= Burst + bucket.updated + setBack

RateInv == RateTypeOK /\ ReadingsInv /\ HistoryInv /\ Spaced /\ BucketInv

\* A caller's own step: the budgets are as they were.
LEMMA CallerMoves ==
  ASSUME RateInv, NEW c \in Callers,
         NEW x \in [pc : {"idle", "waiting", "sending", "charging"}, now : 0 .. MaxTime],
         call' = [call EXCEPT ![c] = x], x.now <= clock,
         limiter = "window" /\ x.pc = "waiting" => clock - x.now <= Lag,
         UNCHANGED <<limiter, clock, stamps, sent, bucket, spent, setBack>>
  PROVE  RateInv'
<1>1. RateTypeOK'
  BY DEF RateInv, RateTypeOK
<1>2. ReadingsInv'
  BY DEF RateInv, RateTypeOK, ReadingsInv
<1>3. HistoryInv' /\ Spaced' /\ BucketInv'
  BY DEF RateInv, HistoryInv, Spaced, BucketInv
<1> QED
  BY <1>1, <1>2, <1>3 DEF RateInv

LEMMA CallShape ==
  /\ NoCall \in [pc : {"idle", "waiting", "sending", "charging"}, now : 0 .. MaxTime]
  /\ NoCall.pc = "idle" /\ NoCall.now = 0
  /\ [NoCall EXCEPT !.pc = "sending"] \in
       [pc : {"idle", "waiting", "sending", "charging"}, now : 0 .. MaxTime]
  /\ [NoCall EXCEPT !.pc = "sending"].pc = "sending" /\ [NoCall EXCEPT !.pc = "sending"].now = 0
  BY RateAssumption DEF NoCall

LEMMA Elements ==
  ASSUME NEW S, NEW q \in Seq(S)
  PROVE  Len(q) \in Nat /\ \A i \in 1 .. Len(q) : q[i] \in S
  OBVIOUS

\* A later request of the period, and what its reading says.
LEMMA Later ==
  \A a, b, s, k, w, l, m \in Int :
    a > k - w + l /\ a <= b =>
      b > k - w + l /\ (s >= b - l /\ m <= k => s > m - w)
  OBVIOUS

LEMMA SentShape ==
  ASSUME RateInv
  PROVE  /\ clock \in 0 .. MaxTime /\ clock \in Int /\ 0 <= clock
         /\ Len(sent) \in Nat /\ sent \in Seq(0 .. MaxTime)
         /\ \A i \in 1 .. Len(sent) : sent[i] \in 0 .. MaxTime /\ sent[i] \in Int
         /\ \A i \in DOMAIN stamps : stamps[i] \in 0 .. MaxTime /\ stamps[i] \in Int
<1>1. clock \in 0 .. MaxTime /\ sent \in Seq(0 .. MaxTime) /\ stamps \in [DOMAIN stamps -> 0 .. MaxTime]
  BY DEF RateInv, RateTypeOK
<1>2. \A x \in 0 .. MaxTime : x \in Int /\ 0 <= x
  BY RateAssumption
<1>3. Len(sent) \in Nat /\ \A i \in 1 .. Len(sent) : sent[i] \in 0 .. MaxTime
  BY <1>1, Elements
<1>4. \A i \in DOMAIN stamps : stamps[i] \in 0 .. MaxTime
  BY <1>1
<1> QED
  BY <1>1, <1>2, <1>3, <1>4

LEMMA TickKeeps ==
  ASSUME RateInv, Tick
  PROVE  RateInv'
<1>1. clock' = clock + 1 /\ clock \in 0 .. MaxTime /\ clock' \in 0 .. MaxTime
      /\ UNCHANGED <<limiter, call, stamps, sent, bucket, spent, setBack>>
  BY RateAssumption DEF Tick, RateInv, RateTypeOK
<1>2. RateTypeOK'
  BY <1>1 DEF RateInv, RateTypeOK
<1>3. ReadingsInv'
  <2>1. \A c \in Callers : call[c].now \in 0 .. MaxTime
    BY DEF RateInv, RateTypeOK
  <2> QED
    BY <1>1, <2>1, RateAssumption DEF Tick, RateInv, ReadingsInv
<1>4. HistoryInv'
  <2>1. \A i \in 1 .. Len(sent) : sent[i] \in Int
    BY SentShape
  <2> QED
    BY <1>1, <2>1, RateAssumption DEF RateInv, HistoryInv
<1>5. Spaced'
  BY <1>1 DEF RateInv, Spaced
<1>6. BucketInv'
  BY <1>1 DEF RateInv, RateTypeOK, BucketInv
<1> QED
  BY <1>2, <1>3, <1>4, <1>5, <1>6 DEF RateInv

LEMMA KeptShape ==
  ASSUME RateInv, NEW now
  PROVE  /\ Kept(now) \subseteq DOMAIN stamps /\ DOMAIN stamps \subseteq 1 .. Len(sent)
         /\ Len(sent) \in Nat
         /\ IsFiniteSet(Kept(now)) /\ Cardinality(Kept(now)) \in Nat
<1>1. /\ Kept(now) \subseteq DOMAIN stamps /\ DOMAIN stamps \subseteq 1 .. Len(sent)
      /\ Len(sent) \in Nat
  BY DEF RateInv, RateTypeOK, Kept
<1>2. IsFiniteSet(1 .. Len(sent))
  BY <1>1, FS_Interval
<1>3. IsFiniteSet(Kept(now))
  BY <1>1, <1>2, FS_Subset
<1> QED
  BY <1>1, <1>3, FS_CardinalityType

\* The request before the last PerWindow ones is too old to count.
LEMMA RoomInWindow ==
  ASSUME RateInv, NEW now \in 0 .. MaxTime, now <= clock, Cardinality(Kept(now)) < PerWindow,
         NEW i \in 1 .. Len(sent), i + PerWindow = Len(sent) + 1
  PROVE  clock - sent[i] >= Window - Lag
<1> SUFFICES ASSUME sent[i] > clock - Window + Lag PROVE FALSE
  <2>1. sent[i] \in Int /\ clock \in Int
    BY SentShape
  <2> QED
    BY <2>1, RateAssumption
<1>1. clock \in Int /\ Len(sent) \in Nat /\ \A j \in 1 .. Len(sent) : sent[j] \in Int
  BY SentShape
<1>2. ASSUME NEW j \in i .. Len(sent) PROVE j \in Kept(now)
  <2>1. j \in 1 .. Len(sent) /\ i <= j
    BY <1>1
  <2>2. sent[j] > clock - Window + Lag
    <3>1. sent[i] <= sent[j]
      BY <2>1 DEF RateInv, HistoryInv
    <3>2. sent[i] \in Int /\ sent[j] \in Int
      BY <1>1, <2>1
    <3>3. Window \in Int /\ Lag \in Int
      BY RateAssumption
    <3> QED
      BY <1>1, <3>1, <3>2, <3>3, Later
  <2>3. j \in DOMAIN stamps /\ stamps[j] >= sent[j] - Lag
    BY <2>1, <2>2 DEF RateInv, HistoryInv
  <2>4. stamps[j] \in Int /\ sent[j] \in Int
    BY <1>1, <2>1, <2>3, SentShape
  <2>5. stamps[j] > now - Window
    <3>1. Window \in Int /\ Lag \in Int /\ now \in Int
      BY RateAssumption
    <3>2. sent[j] <= sent[j]
      BY <2>4
    <3> QED
      BY <1>1, <2>2, <2>3, <2>4, <3>1, <3>2, Later
  <2> QED
    BY <2>3, <2>5 DEF Kept
<1>3. i .. Len(sent) \in SUBSET Kept(now)
  BY <1>2
<1>4. Cardinality(i .. Len(sent)) <= Cardinality(Kept(now))
  BY <1>3, KeptShape, FS_Subset
<1>5. Cardinality(i .. Len(sent)) = Len(sent) - i + 1
  BY <1>1, FS_Interval
<1> QED
  BY <1>1, <1>4, <1>5, KeptShape, RateAssumption

LEMMA WindowKeeps ==
  ASSUME RateInv, NEW c \in Callers, ConsumeWindow(c)
  PROVE  RateInv'
<1> DEFINE now == call[c].now
           n == Len(sent) + 1
<1>1. /\ now \in 0 .. MaxTime /\ now <= clock /\ clock - now <= Lag
      /\ clock \in 0 .. MaxTime /\ clock \in Int /\ Len(sent) \in Nat /\ n \in Nat
  <2>1. now \in 0 .. MaxTime
    BY DEF RateInv, RateTypeOK
  <2>2. now <= clock /\ clock - now <= Lag
    BY DEF RateInv, ReadingsInv, ConsumeWindow
  <2> QED
    BY <2>1, <2>2, SentShape
<1>2. call' = [call EXCEPT ![c] = NoCall] /\ UNCHANGED <<limiter, clock, bucket, spent, setBack>>
  BY DEF ConsumeWindow
<1>3. CASE ~(Cardinality(Kept(now)) < PerWindow)
  <2>1. UNCHANGED <<stamps, sent>>
    BY <1>3 DEF ConsumeWindow
  <2> QED
    <3>1. NoCall.now <= clock
      BY CallShape, SentShape
    <3>2. limiter = "window" /\ NoCall.pc = "waiting" => clock - NoCall.now <= Lag
      BY CallShape
    <3> QED
      BY <1>2, <2>1, <3>1, <3>2, CallShape, CallerMoves
<1>4. CASE Cardinality(Kept(now)) < PerWindow
  <2>1. /\ stamps' = [i \in Kept(now) \cup {n} |-> IF i \in Kept(now) THEN stamps[i] ELSE now]
        /\ sent' = Append(sent, clock)
    BY <1>4 DEF ConsumeWindow, Stamped
  <2>2. /\ sent' \in Seq(0 .. MaxTime) /\ Len(sent') = n /\ sent'[n] = clock
        /\ \A i \in 1 .. Len(sent) : sent'[i] = sent[i] /\ sent[i] \in 0 .. MaxTime
    BY <1>1, <2>1, SentShape
  <2>3. /\ Kept(now) \subseteq DOMAIN stamps /\ DOMAIN stamps \subseteq 1 .. Len(sent)
        /\ IsFiniteSet(Kept(now)) /\ Cardinality(Kept(now)) \in Nat
    BY KeptShape
  <2>4. DOMAIN stamps' = Kept(now) \cup {n} /\ stamps'[n] = now
        /\ \A i \in Kept(now) : stamps'[i] = stamps[i]
    BY <1>1, <2>1, <2>3
  <2>5. RateTypeOK'
    <3>1. Cardinality(DOMAIN stamps') <= PerWindow
      <4>1. Cardinality(Kept(now) \cup {n}) <= Cardinality(Kept(now)) + 1
        <5>1. Cardinality(Kept(now) \cup {n}) =
                IF n \in Kept(now) THEN Cardinality(Kept(now)) ELSE Cardinality(Kept(now)) + 1
          BY <2>3, FS_AddElement
        <5> HIDE DEF n
        <5> QED
          BY <2>3, <5>1
      <4> QED
        <5> DEFINE a == Cardinality(Kept(now))
                   b == Cardinality(Kept(now) \cup {n})
        <5>1. a \in Nat /\ b \in Nat /\ PerWindow \in Nat /\ a < PerWindow /\ b <= a + 1
          BY <1>4, <2>3, <4>1, FS_AddElement, FS_CardinalityType, RateAssumption
        <5>2. Cardinality(DOMAIN stamps') = b
          BY <2>4
        <5> HIDE DEF a, b
        <5> QED
          BY <5>1, <5>2
    <3>2. DOMAIN stamps' \subseteq 1 .. Len(sent')
      BY <1>1, <2>2, <2>3, <2>4
    <3>3. \A i \in DOMAIN stamps : stamps[i] \in 0 .. MaxTime
      BY DEF RateInv, RateTypeOK
    <3>4. stamps' \in [DOMAIN stamps' -> 0 .. MaxTime]
      BY <1>1, <2>1, <2>3, <3>3
    <3>5. call' \in [Callers -> [pc : {"idle", "waiting", "sending", "charging"}, now : 0 .. MaxTime]]
      BY <1>2, CallShape DEF RateInv, RateTypeOK
    <3> QED
      BY <1>2, <2>2, <3>1, <3>2, <3>4, <3>5 DEF RateInv, RateTypeOK
  <2>6. ReadingsInv'
    BY <1>1, <1>2, CallShape DEF RateInv, RateTypeOK, ReadingsInv
  <2>7. HistoryInv'
    <3>1. ASSUME NEW i \in 1 .. n
          PROVE  /\ sent'[i] <= clock
                 /\ \A j \in 1 .. n : i <= j => sent'[i] <= sent'[j]
      <4>1. \A k \in 1 .. Len(sent) : sent'[k] = sent[k] /\ sent[k] <= clock /\ sent[k] \in Int
        BY <2>2, SentShape DEF RateInv, HistoryInv
      <4>2. \A k \in 1 .. n : k \in 1 .. Len(sent) \/ k = n
        BY <1>1
      <4>3. sent'[n] = clock
        BY <2>2
      <4>4. CASE i = n
        <5>1. \A j \in 1 .. n : i <= j => j = n
          BY <1>1, <4>4
        <5> QED
          BY <1>1, <4>3, <4>4, <5>1
      <4>5. CASE i \in 1 .. Len(sent)
        <5>1. \A j \in 1 .. Len(sent) : i <= j => sent[i] <= sent[j]
          BY <4>5 DEF RateInv, HistoryInv
        <5> QED
          BY <4>1, <4>2, <4>3, <4>5, <5>1
      <4> QED
        BY <4>2, <4>4, <4>5
    <3>2. ASSUME NEW i \in 1 .. n, sent'[i] > clock - Window + Lag
          PROVE  i \in DOMAIN stamps' /\ stamps'[i] >= sent'[i] - Lag
      <4>1. CASE i = n
        BY <1>1, <2>2, <2>4, <4>1, RateAssumption
      <4>2. CASE i # n
        <5>0. i \in 1 .. Len(sent)
          BY <1>1, <4>2
        <5>1. i \in 1 .. Len(sent) /\ sent'[i] = sent[i] /\ sent[i] \in Int
          BY <2>2, <5>0, SentShape
        <5>2. i \in DOMAIN stamps /\ stamps[i] >= sent[i] - Lag
          BY <3>2, <5>1 DEF RateInv, HistoryInv
        <5>3. stamps[i] \in Int /\ now \in Int
          BY <1>1, <5>2, SentShape
        <5>4. stamps[i] > now - Window
          <6> HIDE DEF now
          <6>1. now <= clock /\ clock \in Int /\ sent[i] > clock - Window + Lag
            BY <1>1, <3>2, <5>1
          <6> QED
            BY <6>1, <5>1, <5>2, <5>3, RateAssumption
        <5> QED
          BY <2>4, <5>1, <5>2, <5>4 DEF Kept
      <4> QED
        BY <4>1, <4>2
    <3> QED
      BY <1>2, <2>2, <3>1, <3>2 DEF HistoryInv
  <2>8. Spaced'
    <3> SUFFICES ASSUME NEW i \in 1 .. n - PerWindow
        PROVE  sent'[i + PerWindow] - sent'[i] >= Window - Lag
      BY <2>2 DEF Spaced
    <3>0. i \in 1 .. Len(sent)
      BY <1>1, RateAssumption
    <3>1. i \in 1 .. Len(sent) /\ sent'[i] = sent[i]
      BY <2>2, <3>0
    <3>2. CASE i + PerWindow = n
      <4>1. clock - sent[i] >= Window - Lag
        BY <1>1, <1>4, <3>1, <3>2, RoomInWindow
      <4> QED
        BY <2>2, <3>1, <3>2, <4>1
    <3>3. CASE i + PerWindow # n
      <4>1. i + PerWindow \in 1 .. Len(sent) /\ i \in 1 .. Len(sent) - PerWindow
        <5>1. i \in Int /\ PerWindow \in Nat /\ 1 <= i /\ i <= n - PerWindow
          BY <1>1, RateAssumption
        <5>2. Len(sent) \in Nat /\ i <= Len(sent) + 1 - PerWindow /\ i + PerWindow # Len(sent) + 1
          BY <1>1, <5>1, <3>3
        <5>3. PICK m \in Nat : m = Len(sent)
          BY <5>2
        <5>4. i + PerWindow \in 1 .. m /\ i \in 1 .. m - PerWindow
          BY <5>1, <5>2, <5>3
        <5> QED
          BY <5>3, <5>4
      <4> QED
        BY <2>2, <3>1, <4>1 DEF RateInv, Spaced
    <3> QED
      BY <3>2, <3>3
  <2>9. BucketInv'
    BY <1>2 DEF RateInv, BucketInv
  <2> QED
    BY <2>5, <2>6, <2>7, <2>8, <2>9 DEF RateInv
<1> QED
  BY <1>3, <1>4

\* A charge of k at a caller's own reading of the clock.
LEMMA BucketCharged ==
  ASSUME RateInv, NEW c \in Callers, NEW k \in Nat,
         NEW x \in [pc : {"idle", "waiting", "sending", "charging"}, now : 0 .. MaxTime],
         x.pc # "waiting", x.now <= clock, call' = [call EXCEPT ![c] = x],
         bucket' = [tokens |-> Refilled(call[c].now) - k, updated |-> call[c].now],
         spent' = spent + k, setBack' = setBack + Backwards(call[c].now),
         UNCHANGED <<limiter, clock, stamps, sent>>
  PROVE  RateInv'
<1> DEFINE now == call[c].now
<1>1. now \in 0 .. MaxTime /\ now <= clock
  BY DEF RateInv, RateTypeOK, ReadingsInv
<1>2. /\ bucket.tokens \in Int /\ bucket.tokens <= Burst /\ bucket.updated \in 0 .. MaxTime
      /\ spent \in Nat /\ setBack \in Nat /\ clock \in 0 .. MaxTime
      /\ spent + bucket.tokens <= Burst + bucket.updated + setBack
  BY DEF RateInv, RateTypeOK, BucketInv
<1>3. /\ Backwards(now) \in Nat /\ Refilled(now) \in Int /\ Refilled(now) <= Burst
      /\ Refilled(now) + bucket.updated <= bucket.tokens + now + Backwards(now)
  BY <1>1, <1>2, RateAssumption DEF Backwards, Refilled
<1>4. bucket'.tokens = Refilled(now) - k /\ bucket'.updated = now
  OBVIOUS
<1>5. RateTypeOK'
  <2>1. bucket' \in [tokens : Int, updated : 0 .. MaxTime] /\ bucket'.tokens <= Burst
    BY <1>1, <1>3, <1>4, RateAssumption
  <2>2. call' \in [Callers -> [pc : {"idle", "waiting", "sending", "charging"}, now : 0 .. MaxTime]]
    BY DEF RateInv, RateTypeOK
  <2>3. spent' \in Nat /\ setBack' \in Nat
    BY <1>2, <1>3
  <2> QED
    BY <2>1, <2>2, <2>3 DEF RateInv, RateTypeOK
<1>6. ReadingsInv'
  BY DEF RateInv, RateTypeOK, ReadingsInv
<1>7. HistoryInv' /\ Spaced'
  BY DEF RateInv, HistoryInv, Spaced
<1>8. BucketInv'
  BY <1>1, <1>2, <1>3, <1>4, RateAssumption DEF BucketInv
<1> QED
  BY <1>5, <1>6, <1>7, <1>8 DEF RateInv

LEMMA BucketKeeps ==
  ASSUME RateInv, NEW c \in Callers, ConsumeBucket(c)
  PROVE  RateInv'
<1> DEFINE now == call[c].now
           admit == Refilled(now) >= 1
           x == IF admit THEN [NoCall EXCEPT !.pc = "sending"] ELSE NoCall
<1>1. PICK k \in Nat : k = IF admit THEN 1 ELSE 0
  OBVIOUS
<1>2. /\ bucket' = [tokens |-> Refilled(now) - k, updated |-> now]
      /\ spent' = spent + k /\ setBack' = setBack + Backwards(now)
      /\ call' = [call EXCEPT ![c] = x] /\ UNCHANGED <<limiter, clock, stamps, sent>>
  BY <1>1 DEF ConsumeBucket
<1>3. /\ x \in [pc : {"idle", "waiting", "sending", "charging"}, now : 0 .. MaxTime]
      /\ x.pc # "waiting" /\ x.now <= clock
  BY CallShape, RateAssumption DEF RateInv, RateTypeOK
<1> QED
  BY <1>2, <1>3, BucketCharged

LEMMA RateStep == RateInv /\ [RateNext]_rateVars => RateInv'
<1> SUFFICES ASSUME RateInv, [RateNext]_rateVars PROVE RateInv'
  OBVIOUS
<1>1. clock \in 0 .. MaxTime /\ 0 <= clock
  BY RateAssumption DEF RateInv, RateTypeOK
<1>2. ASSUME NEW c \in Callers, NEW x, call' = [call EXCEPT ![c] = x],
             x = NoCall \/ x = [pc |-> "charging", now |-> clock]
               \/ x = [pc |-> "waiting", now |-> clock],
             UNCHANGED <<limiter, clock, stamps, sent, bucket, spent, setBack>>
      PROVE  RateInv'
  <2>1. /\ x \in [pc : {"idle", "waiting", "sending", "charging"}, now : 0 .. MaxTime]
        /\ x.now <= clock
    BY <1>1, <1>2, CallShape
  <2>2. x.pc = "waiting" => clock - x.now <= Lag
    BY <1>1, <1>2, CallShape, RateAssumption
  <2> QED
    BY <1>2, <2>1, <2>2, CallerMoves
<1>3. ASSUME NEW c \in Callers, ReadClock(c) \/ GiveUp(c) PROVE RateInv'
  BY <1>2, <1>3 DEF ReadClock, GiveUp
<1>4. ASSUME NEW c \in Callers, NEW weighs \in BOOLEAN, WbAnswers(c, weighs) PROVE RateInv'
  BY <1>2, <1>4 DEF WbAnswers
<1>5. ASSUME NEW c \in Callers, ChargeResponse(c) PROVE RateInv'
  BY <1>1, <1>5, CallShape, RateAssumption, BucketCharged DEF ChargeResponse
<1>6. CASE UNCHANGED rateVars
  <2>1. UNCHANGED <<limiter, clock, call, stamps, sent, bucket, spent, setBack>>
    BY <1>6 DEF rateVars
  <2> QED
    BY <2>1 DEF RateInv, RateTypeOK, ReadingsInv, HistoryInv, Spaced, BucketInv
<1> QED
  BY <1>3, <1>4, <1>5, <1>6, TickKeeps, WindowKeeps, BucketKeeps DEF RateNext

LEMMA RateStart == RateInit => RateInv
<1> SUFFICES ASSUME RateInit PROVE RateInv
  OBVIOUS
<1>1. DOMAIN stamps = {} /\ Len(sent) = 0 /\ sent \in Seq(0 .. MaxTime)
  BY DEF RateInit
<1>2. RateTypeOK
  <2>1. stamps \in [DOMAIN stamps -> 0 .. MaxTime]
    BY <1>1 DEF RateInit
  <2>2. Cardinality(DOMAIN stamps) <= PerWindow
    BY <1>1, FS_EmptySet, RateAssumption
  <2> QED
    BY <1>1, <2>1, <2>2, CallShape, RateAssumption DEF RateInit, RateTypeOK
<1>3. ReadingsInv
  BY CallShape, RateAssumption DEF RateInit, ReadingsInv
<1>4. HistoryInv /\ Spaced
  BY <1>1, RateAssumption DEF HistoryInv, Spaced
<1>5. BucketInv
  BY RateAssumption DEF RateInit, BucketInv
<1> QED
  BY <1>2, <1>3, <1>4, <1>5 DEF RateInv

\* Readings, the stored history and the bucket row have their listed shapes; the
\* history never holds more entries than the window admits.
THEOREM RatesTyped == RateSpec => []RateTypeOK
<1>1. RateInv => RateTypeOK
  BY DEF RateInv
<1> QED
  BY <1>1, RateStart, RateStep, PTL DEF RateSpec

\* consume_m11_rate and PostgresWbRateLimiter keep their budgets, for any number
\* of callers and any window, limit, burst and penalty.
THEOREM BudgetsKept == RateSpec => []RatesRespected
<1>1. RateInv => RatesRespected
  <2> SUFFICES ASSUME RateInv PROVE RatesRespected
    OBVIOUS
  <2>1. spent + bucket.tokens <= Burst + clock + setBack
    BY RateAssumption DEF RateInv, RateTypeOK, BucketInv
  <2> QED
    BY <2>1 DEF RateInv, Spaced, RatesRespected
<1> QED
  BY <1>1, RateStart, RateStep, PTL DEF RateSpec

----------------------------------------------------------------------------

(* Agents and certificates                                                 *)

Actives(B) == {b \in Bindings : B[b].state = "ACTIVE"}

\* There is one active agent, the primary one; an agent that does not exist has
\* no inventory.
AgentInv ==
  /\ BindingTypeOK
  /\ \A b \in Actives(binding) : binding[b].primary
  /\ \A b, c \in Actives(binding) : b = c
  /\ \A b \in Bindings : binding[b].state = "none" => current[b] = {}

\* A check that waits was sent to an agent for a connection.
CheckInv ==
  \A k \in Checks : check[k].state = "CHECKING" => check[k].by \in Bindings /\ check[k].conn \in Conns

\* Connection r calls a certificate of the set `listed' active.
Claims(r, listed) ==
  /\ r.state \in {"ENABLED", "DISABLED"} /\ r.sel = "READY"
  /\ r.desired # NoCert /\ r.desired \in listed

\* What the active agent's list makes ready was applied at its last inventory.
AppliedInv ==
  \A i \in Conns, b \in Actives(binding) :
    Claims(conn[i], current[b]) => conn[i].desired = last.applied /\ conn[i].desired \in last.ready

TrueApiInv == AgentInv /\ CertTypeOK /\ CheckInv /\ AppliedInv

LEMMA PrimaryIsActive ==
  Primary # NoBinding => Primary \in Bindings /\ Primary \in Actives(binding)
<1> SUFFICES ASSUME Primary # NoBinding PROVE Primary \in Bindings /\ Primary \in Actives(binding)
  OBVIOUS
<1>1. PrimaryOf(binding) # {} /\ Primary = CHOOSE b \in PrimaryOf(binding) : TRUE
  BY DEF Primary
<1>2. Primary \in PrimaryOf(binding)
  BY <1>1
<1> QED
  BY <1>2 DEF PrimaryOf, Actives

\* An agent that authenticates is the primary one.
LEMMA AnswersAsPrimary ==
  ASSUME AgentInv, NEW b \in Bindings, Authenticates(b)
  PROVE  b \in Actives(binding) /\ b = Primary /\ Actives(binding) = {b}
<1>1. b \in Actives(binding)
  BY DEF Authenticates, Actives
<1>2. Actives(binding) = {b}
  BY <1>1 DEF AgentInv
<1>3. PrimaryOf(binding) = {b}
  BY <1>1, <1>2 DEF AgentInv, PrimaryOf, Actives
<1>4. Primary = b
  BY <1>3 DEF Primary
<1> QED
  BY <1>1, <1>2, <1>4

\* The agents change, their inventories do not: who is active stays, or nobody
\* is, or one that has sent no inventory.
LEMMA AgentsChange ==
  ASSUME TrueApiInv, BindingTypeOK',
         \A b \in Actives(binding)' : binding'[b].primary,
         \A b \in Bindings : binding'[b].state = "none" => binding[b].state = "none",
         \/ Actives(binding)' = Actives(binding)
         \/ \E b \in Bindings : Actives(binding)' \subseteq {b} /\ current[b] = {}
         \/ Actives(binding)' = {},
         UNCHANGED <<conn, rows, current, check, realRead>>,
         last' = IF PrimaryOf(binding') = PrimaryOf(binding) THEN last ELSE NoReport
  PROVE  TrueApiInv'
<1>1. PrimaryOf(binding) = Actives(binding) /\ PrimaryOf(binding') = Actives(binding)'
  BY DEF TrueApiInv, AgentInv, PrimaryOf, Actives
<1>2. AgentInv'
  <2>1. \A b, c \in Actives(binding)' : b = c
    BY DEF TrueApiInv, AgentInv
  <2> QED
    BY <2>1 DEF TrueApiInv, AgentInv
<1>3. CertTypeOK'
  <2>1. last' \in [ready : SUBSET Certs, applied : Certs \cup {NoCert}]
    BY DEF TrueApiInv, CertTypeOK, NoReport
  <2> QED
    BY <2>1 DEF TrueApiInv, CertTypeOK
<1>4. CheckInv'
  BY DEF TrueApiInv, CheckInv
<1>5. AppliedInv'
  <2>1. CASE Actives(binding)' = Actives(binding)
    <3>1. last' = last
      BY <1>1, <2>1
    <3> QED
      BY <2>1, <3>1 DEF TrueApiInv, AppliedInv, Claims
  <2>2. CASE \E b \in Bindings : Actives(binding)' \subseteq {b} /\ current[b] = {}
    BY <2>2 DEF AppliedInv, Claims
  <2>3. CASE Actives(binding)' = {}
    BY <2>3 DEF AppliedInv
  <2> QED
    BY <2>1, <2>2, <2>3
<1> QED
  BY <1>2, <1>3, <1>4, <1>5 DEF TrueApiInv

LEMMA BindingCreated ==
  ASSUME TrueApiInv, NEW b \in Unused, NEW activate \in BOOLEAN, NEW primary \in BOOLEAN,
         MayCreate(activate, primary), activate => primary,
         binding' = Created(b, activate, primary), BindingTypeOK',
         UNCHANGED <<conn, rows, current, check, realRead>>,
         last' = IF PrimaryOf(binding') = PrimaryOf(binding) THEN last ELSE NoReport
  PROVE  TrueApiInv'
<1>1. b \in Bindings /\ binding[b].state = "none" /\ current[b] = {}
  BY DEF Unused, TrueApiInv, AgentInv
<1>2. DOMAIN binding = Bindings
  BY DEF TrueApiInv, AgentInv, BindingTypeOK
<1>3. /\ binding'[b].state = IF activate THEN "ACTIVE" ELSE "PENDING"
      /\ binding'[b].primary = (primary /\ activate)
      /\ \A c \in Bindings \ {b} : binding'[c] = binding[c]
  BY <1>1, <1>2 DEF Created
<1>4. CASE activate
  <2>1. Actives(binding) = {}
    BY <1>4 DEF MayCreate, TrueApiInv, AgentInv, Actives, PrimaryOf
  <2>2. Actives(binding)' \subseteq {b}
    BY <1>3, <2>1 DEF Actives
  <2>3. \A c \in Actives(binding)' : binding'[c].primary
    BY <1>3, <1>4, <2>2
  <2>4. \A c \in Bindings : binding'[c].state = "none" => binding[c].state = "none"
    BY <1>1, <1>3
  <2> QED
    BY <1>1, <2>2, <2>3, <2>4, AgentsChange
<1>5. CASE ~activate
  <2>1. Actives(binding)' = Actives(binding)
    BY <1>1, <1>3, <1>5 DEF Actives
  <2>2. \A c \in Actives(binding)' : binding'[c].primary
    BY <1>1, <1>3, <1>5 DEF Actives, TrueApiInv, AgentInv
  <2>3. \A c \in Bindings : binding'[c].state = "none" => binding[c].state = "none"
    BY <1>1, <1>3
  <2> QED
    BY <2>1, <2>2, <2>3, AgentsChange
<1> QED
  BY <1>4, <1>5

LEMMA BindingRest ==
  ASSUME TrueApiInv, BindingTypeOK', binding' = binding,
         UNCHANGED <<conn, rows, current, check, realRead>>,
         last' = IF PrimaryOf(binding') = PrimaryOf(binding) THEN last ELSE NoReport
  PROVE  TrueApiInv'
<1>1. Actives(binding)' = Actives(binding)
  BY DEF Actives
<1>2. \A b \in Actives(binding)' : binding'[b].primary
  BY <1>1 DEF TrueApiInv, AgentInv
<1> QED
  BY <1>1, <1>2, AgentsChange

LEMMA CreatedShape ==
  ASSUME BindingTypeOK, NEW b \in Unused, NEW activate \in BOOLEAN, NEW primary \in BOOLEAN
  PROVE  Created(b, activate, primary) \in
           [Bindings -> [state : {"none", "PENDING", "ACTIVE", "DISABLED"}, primary : BOOLEAN]]
<1>1. [state |-> IF activate THEN "ACTIVE" ELSE "PENDING", primary |-> primary /\ activate]
        \in [state : {"none", "PENDING", "ACTIVE", "DISABLED"}, primary : BOOLEAN]
  <2>1. (primary /\ activate) \in BOOLEAN
    BY Zenon
  <2> QED
    BY <2>1
<1> QED
  BY <1>1 DEF BindingTypeOK, Created

LEMMA BindingKeeps ==
  ASSUME TrueApiInv, ~AllowSecondary, BindingNext,
         UNCHANGED <<conn, rows, current, check, realRead>>,
         last' = IF PrimaryOf(binding') = PrimaryOf(binding) THEN last ELSE NoReport
  PROVE  TrueApiInv'
<1>1. BindingTypeOK
  BY DEF TrueApiInv, AgentInv
<1>2. ASSUME NEW b \in Bindings, NEW activate \in BOOLEAN, NEW primary \in BOOLEAN,
             activate => primary, CreateBinding(b, activate, primary)
      PROVE  TrueApiInv'
  <2>1. b \in Unused /\ MayCreate(activate, primary) /\ binding' = Created(b, activate, primary)
    BY <1>2 DEF CreateBinding
  <2>2. PICK got \in BOOLEAN : holds' = [holds EXCEPT ![b] = got] /\ token' = token
    BY <1>2 DEF CreateBinding
  <2>3. BindingTypeOK'
    BY <1>1, <2>1, <2>2, CreatedShape DEF BindingTypeOK
  <2> QED
    BY <1>2, <2>1, <2>3, BindingCreated
<1>3. ASSUME NEW t \in Tokens, CreateIntent(t) PROVE TrueApiInv'
  <2>1. binding' = binding /\ BindingTypeOK'
    BY <1>1, <1>3 DEF CreateIntent, BindingTypeOK
  <2> QED
    BY <2>1, BindingRest
<1>4. ASSUME NEW t \in Tokens, NEW cp, Exchange(t, cp) PROVE TrueApiInv'
  <2>1. CASE UNCHANGED <<binding, holds>> /\ token' = [token EXCEPT ![t].state = "USED"]
    <3>1. binding' = binding /\ BindingTypeOK'
      BY <1>1, <2>1 DEF BindingTypeOK
    <3> QED
      BY <3>1, BindingRest
  <2>2. CASE /\ MayCreate(TRUE, TRUE)
             /\ \E b \in Unused, got \in BOOLEAN :
                  /\ binding' = Created(b, TRUE, TRUE)
                  /\ holds' = [holds EXCEPT ![b] = got]
                  /\ token' = [token EXCEPT ![t] = [state |-> "USED", made |-> b]]
    <3>1. PICK b \in Unused, got \in BOOLEAN :
            /\ binding' = Created(b, TRUE, TRUE)
            /\ holds' = [holds EXCEPT ![b] = got]
            /\ token' = [token EXCEPT ![t] = [state |-> "USED", made |-> b]]
      BY <2>2
    <3>2. b \in Bindings
      BY DEF Unused
    <3>3. BindingTypeOK'
      BY <1>1, <3>1, <3>2, CreatedShape DEF BindingTypeOK
    <3> QED
      BY <2>2, <3>1, <3>3, BindingCreated
  <2> QED
    BY <1>4, <2>1, <2>2 DEF Exchange
<1>5. ASSUME NEW b \in Bindings, RotateCredential(b) PROVE TrueApiInv'
  <2>1. PICK got \in BOOLEAN : holds' = [holds EXCEPT ![b] = got] /\ UNCHANGED <<binding, token>>
    BY <1>5 DEF RotateCredential
  <2>2. binding' = binding /\ BindingTypeOK'
    BY <1>1, <2>1 DEF BindingTypeOK
  <2> QED
    BY <2>2, BindingRest
<1>6. ASSUME NEW b \in Bindings, DisableBinding(b) PROVE TrueApiInv'
  <2>1. /\ binding[b].state \in {"PENDING", "ACTIVE"} /\ UNCHANGED <<token, holds>>
        /\ binding' = [binding EXCEPT ![b] = [state |-> "DISABLED", primary |-> FALSE]]
    BY <1>6 DEF DisableBinding
  <2>2. BindingTypeOK'
    BY <1>1, <2>1 DEF BindingTypeOK
  <2>3. binding'[b].state = "DISABLED" /\ \A c \in Bindings \ {b} : binding'[c] = binding[c]
    BY <1>1, <2>1 DEF BindingTypeOK
  <2>4. Actives(binding)' = Actives(binding) \ {b}
    BY <2>3 DEF Actives
  <2>5. Actives(binding)' = Actives(binding) \/ Actives(binding)' = {}
    BY <2>4 DEF TrueApiInv, AgentInv
  <2>6. \A c \in Actives(binding)' : binding'[c].primary
    BY <2>3, <2>4 DEF TrueApiInv, AgentInv, Actives
  <2>7. \A c \in Bindings : binding'[c].state = "none" => binding[c].state = "none"
    BY <2>3
  <2> QED
    BY <2>2, <2>5, <2>6, <2>7, AgentsChange
<1> QED
  <2>1. CASE \E b \in Bindings : CreateBinding(b, TRUE, TRUE)
    BY <1>2, <2>1
  <2>2. CASE \E b \in Bindings, activate \in BOOLEAN :
               (activate => AllowSecondary) /\ CreateBinding(b, activate, FALSE)
    BY <1>2, <2>2
  <2>3. CASE \E t \in Tokens, c \in {EvaluateProtocol(o, 2, 1, 1, 1) : o \in 0..3} : Exchange(t, c)
    BY <1>4, <2>3
  <2> QED
    BY <1>3, <1>5, <1>6, <2>1, <2>2, <2>3 DEF BindingNext

\* A connection's own step that leaves the lists and the inventories alone.
LEMMA ConnectionMoves ==
  ASSUME TrueApiInv, NEW i \in Conns, NEW r \in Connections,
         conn' = [conn EXCEPT ![i] = r],
         r.sel = "READY" /\ r.state \in {"ENABLED", "DISABLED"}
           => r.desired = conn[i].desired /\ conn[i].sel = "READY"
              /\ conn[i].state \in {"ENABLED", "DISABLED"},
         UNCHANGED <<bindingVars, rows, current, realRead, last>>,
         check' \in [Checks -> CheckRows],
         \A k \in Checks : check'[k].state = "CHECKING" => check'[k].by \in Bindings /\ check'[k].conn \in Conns
  PROVE  TrueApiInv'
<1>1. AgentInv'
  BY DEF TrueApiInv, AgentInv, BindingTypeOK, Actives, bindingVars
<1>2. CertTypeOK'
  BY DEF TrueApiInv, CertTypeOK
<1>3. CheckInv'
  BY DEF CheckInv
<1>4. AppliedInv'
  <2> SUFFICES ASSUME NEW j \in Conns, NEW b \in Actives(binding)', Claims(conn'[j], current'[b])
      PROVE conn'[j].desired = last'.applied /\ conn'[j].desired \in last'.ready
    BY DEF AppliedInv
  <2>1. b \in Actives(binding) /\ current' = current /\ last' = last
    BY DEF Actives, bindingVars
  <2>2. conn'[j] = IF j = i THEN r ELSE conn[j]
    BY DEF TrueApiInv, CertTypeOK
  <2>3. Claims(conn[j], current[b]) /\ conn'[j].desired = conn[j].desired
    BY <2>1, <2>2 DEF Claims
  <2> QED
    BY <2>1, <2>3 DEF TrueApiInv, AppliedInv
<1> QED
  BY <1>1, <1>2, <1>3, <1>4 DEF TrueApiInv

LEMMA ConnectionKeeps ==
  ASSUME TrueApiInv, NEW i \in Conns, UNCHANGED bindingVars,
         \/ CreateTrueApi(i)
         \/ \E to \in {"ENABLED", "DISABLED", "ARCHIVED"} : Lifecycle(i, to)
         \/ \E c \in Certs : SelectCertificate(i, c)
         \/ \E k \in Checks : CheckTrueApi(i, k)
  PROVE  TrueApiInv'
<1>1. conn \in [Conns -> Connections] /\ conn[i] \in Connections /\ check \in [Checks -> CheckRows]
      /\ (\A k \in Checks : check[k].state = "CHECKING" => check[k].by \in Bindings /\ check[k].conn \in Conns)
  BY DEF TrueApiInv, CertTypeOK, CheckInv
<1>2. ASSUME CreateTrueApi(i) PROVE TrueApiInv'
  <2>1. PICK b \in {NoBinding, Primary} :
          conn' = [conn EXCEPT ![i] = [NoConn EXCEPT !.state = "ENABLED", !.bound = b]]
    BY <1>2 DEF CreateTrueApi
  <2>2. b \in Bindings \cup {NoBinding}
    BY PrimaryIsActive
  <2>3. PICK r : r = [NoConn EXCEPT !.state = "ENABLED", !.bound = b]
    OBVIOUS
  <2>4. r \in Connections /\ r.sel = "NONE"
    BY <2>2, <2>3 DEF NoConn, Connections
  <2> QED
    BY <1>1, <1>2, <2>1, <2>3, <2>4, ConnectionMoves DEF CreateTrueApi
<1>3. ASSUME NEW to \in {"ENABLED", "DISABLED", "ARCHIVED"}, Lifecycle(i, to) PROVE TrueApiInv'
  <2>1. PICK r : r = [conn[i] EXCEPT !.state = to]
    OBVIOUS
  <2>2. r \in Connections /\ r.sel = conn[i].sel /\ r.desired = conn[i].desired /\ r.state = to
    BY <1>1, <2>1 DEF Connections
  <2>3. conn' = [conn EXCEPT ![i] = r] /\ UNCHANGED <<rows, current, check, realRead, last>>
    BY <1>1, <1>3, <2>1 DEF Lifecycle
  <2>4. to \in {"ENABLED", "DISABLED"} => conn[i].state \in {"ENABLED", "DISABLED"}
    BY <1>1, <1>3 DEF Lifecycle, Connections
  <2> QED
    BY <1>1, <2>2, <2>3, <2>4, ConnectionMoves
<1>4. ASSUME NEW c \in Certs, SelectCertificate(i, c) PROVE TrueApiInv'
  <2>1. PICK r : r = [conn[i] EXCEPT !.desired = c, !.sel = "PENDING_LOCAL_APPLY"]
    OBVIOUS
  <2>2. r \in Connections /\ r.sel = "PENDING_LOCAL_APPLY"
    BY <1>1, <2>1 DEF Connections
  <2>3. conn' = [conn EXCEPT ![i] = r] /\ UNCHANGED <<rows, current, check, realRead, last>>
    <3>1. PICK d : d = [conn EXCEPT ![i] = [conn[i] EXCEPT !.desired = c]]
      OBVIOUS
    <3>2. d[i] = [conn[i] EXCEPT !.desired = c] /\ DOMAIN d = Conns /\ DOMAIN conn = Conns
          /\ \A j \in Conns \ {i} : d[j] = conn[j]
      BY <1>1, <3>1
    <3>3. conn' = [d EXCEPT ![i] = [d[i] EXCEPT !.sel = "PENDING_LOCAL_APPLY"]]
      BY <1>4, <3>1 DEF SelectCertificate
    <3>4. [d[i] EXCEPT !.sel = "PENDING_LOCAL_APPLY"] = r
      BY <1>1, <2>1, <3>2 DEF Connections
    <3>5. conn' = [conn EXCEPT ![i] = r]
      BY <3>2, <3>3, <3>4
    <3> QED
      BY <1>4, <3>5 DEF SelectCertificate
  <2> QED
    BY <1>1, <2>2, <2>3, ConnectionMoves
<1>5. ASSUME NEW k \in Checks, CheckTrueApi(i, k) PROVE TrueApiInv'
  <2>1. PICK r : r = [conn[i] EXCEPT !.bound = Primary]
    OBVIOUS
  <2>2. Primary \in Bindings /\ conn[i].state = "ENABLED"
    BY <1>5, PrimaryIsActive DEF CheckTrueApi
  <2>3. r \in Connections /\ r.sel = conn[i].sel /\ r.desired = conn[i].desired /\ r.state = conn[i].state
    BY <1>1, <2>1, <2>2 DEF Connections
  <2>4. conn' = [conn EXCEPT ![i] = r] /\ UNCHANGED <<rows, current, realRead, last>>
    BY <1>1, <1>5, <2>1 DEF CheckTrueApi
  <2>5. PICK st \in {"CHECKING", "BLOCKED", "ERROR"} :
          check' = [check EXCEPT ![k] = [state |-> st, conn |-> i, by |-> Primary]]
    BY <1>5 DEF CheckTrueApi
  <2>6. check' \in [Checks -> CheckRows]
    <3>1. [state |-> st, conn |-> i, by |-> Primary] \in CheckRows
      BY <2>2 DEF CheckRows
    <3> QED
      BY <1>1, <2>5, <3>1
  <2>7. \A m \in Checks : check'[m].state = "CHECKING" => check'[m].by \in Bindings /\ check'[m].conn \in Conns
    BY <1>1, <2>2, <2>5
  <2> QED
    BY <2>2, <2>3, <2>4, <2>6, <2>7, ConnectionMoves
<1> QED
  BY <1>2, <1>3, <1>4, <1>5

Lists == [Bindings -> [Certs -> Seq({"READY", "NOT_READY"})]]

LEMMA RowChanged ==
  ASSUME NEW q \in Seq({"READY", "NOT_READY"}), NEW x \in {"READY", "NOT_READY"}
  PROVE  <<x>> \in Seq({"READY", "NOT_READY"}) /\ Append(q, x) \in Seq({"READY", "NOT_READY"})
         /\ [q EXCEPT ![Len(q)] = x] \in Seq({"READY", "NOT_READY"})
<1>1. PICK S : S = {"READY", "NOT_READY"}
  OBVIOUS
<1>2. q \in Seq(S) /\ x \in S
  BY <1>1
<1>3. <<x>> \in Seq(S) /\ Append(q, x) \in Seq(S)
  BY <1>2
<1>4. Len(q) \in Nat /\ q \in [1..Len(q) -> S]
  BY <1>2
<1>5. [q EXCEPT ![Len(q)] = x] \in [1..Len(q) -> S]
  BY <1>2, <1>4
<1>6. [q EXCEPT ![Len(q)] = x] \in Seq(S)
  BY <1>4, <1>5, SeqDef
<1> QED
  BY <1>1, <1>3, <1>6

LEMMA ObservedShape ==
  ASSUME rows \in Lists, NEW b \in Bindings, NEW said \in [Certs -> {"ready", "bad", "absent"}]
  PROVE  Observed(b, said) \in Lists
<1>1. ASSUME NEW c \in Certs
      PROVE  (IF said[c] = "absent" THEN rows[b][c]
              ELSE IF rows[b][c] = <<>> THEN <<Readiness(said[c])>>
              ELSE [rows[b][c] EXCEPT ![Len(rows[b][c])] = Readiness(said[c])])
               \in Seq({"READY", "NOT_READY"})
  <2>1. rows[b][c] \in Seq({"READY", "NOT_READY"}) /\ Readiness(said[c]) \in {"READY", "NOT_READY"}
    BY DEF Lists, Readiness
  <2> QED
    BY <2>1, RowChanged
<1> QED
  BY <1>1 DEF Lists, Observed

\* What the inventory makes of a connection: it is called ready only for the
\* certificate that is ready and applied.
LEMMA ReconsideredShape ==
  ASSUME NEW r \in Connections, NEW b \in Bindings,
         NEW said \in [Certs -> {"ready", "bad", "absent"}], NEW applied \in Certs \cup {NoCert},
         NEW newRows \in Lists
  PROVE  LET x == Reconsidered(r, b, said, applied, newRows)
         IN  /\ x \in Connections
             /\ x.sel = "READY" /\ x.desired # NoCert =>
                  x.desired \in Certs /\ x.desired = applied /\ said[x.desired] = "ready"
<1>1. PICK d \in Connections : d = DesiredDropped(r, said)
  <2>1. [r EXCEPT !.desired = NoCert, !.sel = "NONE", !.observed = NoObservation] \in Connections
    BY DEF Connections
  <2> QED
    BY <2>1 DEF DesiredDropped
<1>2. PICK a \in Connections : a = AutoSelected(d, said)
  <2> DEFINE eligible == {c \in Certs : said[c] = "ready"}
  <2>1. ASSUME Cardinality(eligible) = 1
        PROVE  [d EXCEPT !.desired = CHOOSE c \in eligible : TRUE, !.sel = "PENDING_LOCAL_APPLY"] \in Connections
    <3>1. eligible # {}
      BY <2>1, FS_EmptySet
    <3>2. PICK z \in Certs : z = CHOOSE c \in eligible : TRUE
      BY <3>1
    <3>3. [d EXCEPT !.desired = z, !.sel = "PENDING_LOCAL_APPLY"] \in Connections
      BY DEF Connections
    <3> QED
      BY <3>2, <3>3
  <2>2. AutoSelected(d, said) =
          IF d.desired = NoCert /\ Cardinality(eligible) = 1
          THEN [d EXCEPT !.desired = CHOOSE c \in eligible : TRUE, !.sel = "PENDING_LOCAL_APPLY"]
          ELSE d
    BY Zenon DEF AutoSelected
  <2> HIDE DEF eligible
  <2>3. AutoSelected(d, said) \in Connections
    BY <2>1, <2>2, Zenon
  <2> QED
    BY <2>3
<1>3. a.desired \in Certs \cup {NoCert}
  BY DEF Connections
<1> DEFINE x == Compared(a, b, said, applied, newRows)
           Right(y) == /\ y \in Connections
                       /\ y.sel = "READY" /\ y.desired # NoCert =>
                            y.desired \in Certs /\ y.desired = applied /\ said[y.desired] = "ready"
<1>4. ASSUME a.desired = NoCert PROVE Right(x)
  BY <1>4 DEF Compared
<1>5. ASSUME a.desired # NoCert /\ applied = NoCert
      PROVE  Right(x)
  <2>1. [a EXCEPT !.sel = "PENDING_LOCAL_APPLY", !.observed = NoObservation] \in Connections
        /\ [a EXCEPT !.sel = "PENDING_LOCAL_APPLY", !.observed = NoObservation].sel = "PENDING_LOCAL_APPLY"
    BY DEF Connections
  <2> QED
    BY <1>5, <2>1 DEF Compared
<1>6. ASSUME a.desired # NoCert /\ applied # NoCert /\ applied = a.desired /\ said[a.desired] = "ready"
      PROVE  Right(x)
  <2>1. a.desired \in Certs
    BY <1>3, <1>6
  <2>2. Len(newRows[b][a.desired]) \in Nat
    BY <2>1 DEF Lists
  <2>3. PICK o \in {NoObservation} \cup (Bindings \X Certs \X Nat) : o = <<b, a.desired, Len(newRows[b][a.desired])>>
    BY <2>1, <2>2
  <2>4. PICK y : y = [a EXCEPT !.sel = "READY", !.observed = o]
    OBVIOUS
  <2>5. y \in Connections /\ y.desired = a.desired
    BY <2>4 DEF Connections
  <2>6. x = y
    BY <1>6, <2>3, <2>4 DEF Compared
  <2> QED
    BY <1>6, <2>1, <2>5, <2>6
<1>7. ASSUME a.desired # NoCert /\ applied # NoCert /\ ~(applied = a.desired /\ said[a.desired] = "ready")
      PROVE  Right(x)
  <2>1. [a EXCEPT !.sel = "MISMATCH", !.observed = NoObservation] \in Connections
        /\ [a EXCEPT !.sel = "MISMATCH", !.observed = NoObservation].sel = "MISMATCH"
    BY DEF Connections
  <2> QED
    BY <1>7, <2>1 DEF Compared
<1>8. Right(x)
  <2> HIDE DEF Right, x
  <2> QED
    BY <1>4, <1>5, <1>6, <1>7
<1> QED
  BY <1>1, <1>2, <1>8 DEF Reconsidered

LEMMA InventoryKeeps ==
  ASSUME TrueApiInv, UNCHANGED bindingVars, NEW b \in Bindings,
         NEW said \in [Certs -> {"ready", "bad", "absent"}], NEW applied \in Certs \cup {NoCert},
         RecordCertificateInventory(b, said, applied)
  PROVE  TrueApiInv'
<1>1. /\ b \in Actives(binding) /\ b = Primary /\ Actives(binding) = {b}
      /\ binding[b].state = "ACTIVE" /\ Actives(binding)' = {b}
  BY AnswersAsPrimary DEF RecordCertificateInventory, TrueApiInv, Authenticates, Actives, bindingVars
<1>2. rows \in Lists /\ rows' = Observed(b, said) /\ rows' \in Lists
  BY ObservedShape DEF RecordCertificateInventory, TrueApiInv, CertTypeOK, Lists
<1>3. /\ current' = [current EXCEPT ![b] = {c \in Certs : said[c] # "absent"}]
      /\ current' \in [Bindings -> SUBSET Certs]
      /\ \A c \in Bindings \ {b} : current'[c] = current[c]
  BY DEF RecordCertificateInventory, TrueApiInv, CertTypeOK
<1>4. /\ last' = [ready |-> {c \in Certs : said[c] = "ready"}, applied |-> applied]
      /\ last'.applied = applied /\ \A c \in Certs : said[c] = "ready" => c \in last'.ready
      /\ last' \in [ready : SUBSET Certs, applied : Certs \cup {NoCert}]
  BY <1>1 DEF RecordCertificateInventory
<1>5. ASSUME NEW i \in Conns
      PROVE  /\ conn'[i] \in Connections
             /\ conn'[i].state \in {"ENABLED", "DISABLED"} /\ conn'[i].sel = "READY"
                  /\ conn'[i].desired # NoCert =>
                     conn'[i].desired = last'.applied /\ conn'[i].desired \in last'.ready
  <2>1. conn[i] \in Connections
    BY DEF TrueApiInv, CertTypeOK
  <2>2. CASE i \in Live
    <3>1. conn'[i] = Reconsidered(conn[i], b, said, applied, rows')
      BY <1>2, <2>2 DEF RecordCertificateInventory
    <3> QED
      BY <1>2, <1>4, <2>1, <3>1, ReconsideredShape
  <2>3. CASE i \notin Live
    <3>1. conn'[i] = conn[i] /\ conn[i].state \notin {"ENABLED", "DISABLED"}
      BY <2>3 DEF RecordCertificateInventory, Live
    <3> QED
      BY <2>1, <3>1
  <2> QED
    BY <2>2, <2>3
<1>6. AgentInv'
  <2>1. BindingTypeOK' /\ \A c \in Actives(binding)' : binding'[c].primary
    BY DEF TrueApiInv, AgentInv, BindingTypeOK, Actives, bindingVars
  <2>2. \A c \in Bindings : binding'[c].state = "none" => current'[c] = {}
    BY <1>1, <1>3 DEF TrueApiInv, AgentInv, bindingVars
  <2> QED
    BY <1>1, <2>1, <2>2 DEF AgentInv
<1>7. CertTypeOK'
  <2>1. conn' \in [Conns -> Connections]
    BY <1>5 DEF RecordCertificateInventory
  <2> QED
    BY <1>2, <1>3, <1>4, <2>1 DEF CertTypeOK, Lists, TrueApiInv, RecordCertificateInventory
<1>8. CheckInv'
  BY DEF TrueApiInv, CheckInv, RecordCertificateInventory
<1>9. AppliedInv'
  BY <1>5 DEF AppliedInv, Claims
<1> QED
  BY <1>6, <1>7, <1>8, <1>9 DEF TrueApiInv

LEMMA AnsweredShape ==
  ASSUME NEW r \in Connections, NEW b \in Bindings, NEW c \in Certs, NEW ready \in BOOLEAN,
         NEW newRows \in Lists
  PROVE  Answered(r, b, c, ready, newRows) \in Connections
<1>0. Len(newRows[b][c]) \in Nat
  BY DEF Lists
<1>1. PICK o \in {NoObservation} \cup (Bindings \X Certs \X Nat) : o = <<b, c, Len(newRows[b][c])>>
  BY <1>0
<1>2. PICK s \in Connections : s = [r EXCEPT !.observed = o]
  BY DEF Connections
<1>3. \A x \in {"READY", "MISMATCH"} : [s EXCEPT !.sel = x] \in Connections
  BY DEF Connections
<1> QED
  BY <1>1, <1>2, <1>3 DEF Answered

LEMMA HealthKeeps ==
  ASSUME TrueApiInv, UNCHANGED bindingVars, NEW k \in Checks, NEW said \in Answers,
         NEW auth \in BOOLEAN, NEW outcome \in Outcomes,
         ApplyAgentHealthResult(k, said, auth, outcome)
  PROVE  TrueApiInv'
<1> DEFINE b == check[k].by
           i == check[k].conn
           c == IF said = NoObservation THEN NoCert ELSE said[1]
           ready == c # NoCert /\ said[2] /\ conn[i].desired \in {NoCert, c}
           newRows == IF c = NoCert THEN rows
                      ELSE [rows EXCEPT ![b][c] = Append(@, IF ready THEN "READY" ELSE "NOT_READY")]
           newConn == IF c = NoCert THEN conn[i] ELSE Answered(conn[i], b, c, ready, newRows)
<1>1. check[k].state = "CHECKING" /\ Authenticates(b)
  BY Zenon DEF ApplyAgentHealthResult
<1>2. b \in Bindings /\ i \in Conns
  BY <1>1 DEF TrueApiInv, CheckInv
<1>3. /\ b \in Actives(binding) /\ Actives(binding) = {b} /\ Actives(binding)' = {b}
  BY <1>1, <1>2, AnswersAsPrimary DEF TrueApiInv, Actives, bindingVars
<1>4. c \in Certs \cup {NoCert} /\ ready \in BOOLEAN
  <2>1. c \in Certs \cup {NoCert}
    BY DEF Answers
  <2>2. ready \in BOOLEAN
    BY Zenon
  <2> QED
    BY <2>1, <2>2
<1>5. /\ rows' = newRows /\ conn' = [conn EXCEPT ![i] = newConn]
      /\ current' = [current EXCEPT ![b] = {}] /\ UNCHANGED <<realRead, last>>
  BY Zenon DEF ApplyAgentHealthResult
<1>6. PICK st \in {"READY", "DEGRADED", "ERROR"} : check' = [check EXCEPT ![k].state = st]
  BY Zenon DEF ApplyAgentHealthResult
<1> HIDE DEF ready
<1>7. newRows \in Lists
  <2>1. rows \in Lists
    BY DEF TrueApiInv, CertTypeOK, Lists
  <2>2. CASE c # NoCert
    <3>1. PICK x \in {"READY", "NOT_READY"} : x = IF ready THEN "READY" ELSE "NOT_READY"
      OBVIOUS
    <3>2. c \in Certs
      BY <1>4, <2>2
    <3>3. Append(rows[b][c], x) \in Seq({"READY", "NOT_READY"})
      BY <1>2, <2>1, <3>2, RowChanged DEF Lists
    <3>4. newRows = [rows EXCEPT ![b] = [rows[b] EXCEPT ![c] = Append(rows[b][c], x)]]
      BY <2>2, <3>1
    <3> HIDE DEF newRows, c, b
    <3>5. [rows[b] EXCEPT ![c] = Append(rows[b][c], x)] \in [Certs -> Seq({"READY", "NOT_READY"})]
      BY <1>2, <2>1, <3>2, <3>3 DEF Lists
    <3> QED
      BY <1>2, <2>1, <3>4, <3>5 DEF Lists
  <2> QED
    BY <2>1, <2>2
<1>8. newConn \in Connections
  <2>1. conn[i] \in Connections
    BY <1>2 DEF TrueApiInv, CertTypeOK
  <2> HIDE DEF newRows, c, b, i
  <2>2. c # NoCert => c \in Certs
    BY <1>4
  <2> QED
    BY <1>2, <1>4, <1>7, <2>1, <2>2, AnsweredShape
<1> HIDE DEF newRows, newConn, c, b, i
<1>9. AgentInv'
  <2>1. BindingTypeOK' /\ \A a \in Actives(binding)' : binding'[a].primary
    BY DEF TrueApiInv, AgentInv, BindingTypeOK, Actives, bindingVars
  <2>2. \A a \in Bindings : binding'[a].state = "none" => current'[a] = {}
    BY <1>2, <1>5 DEF TrueApiInv, AgentInv, CertTypeOK, bindingVars
  <2> QED
    BY <1>3, <2>1, <2>2 DEF AgentInv
<1>10. check' \in [Checks -> CheckRows] /\ CheckInv'
  <2>1. check \in [Checks -> CheckRows]
    BY DEF TrueApiInv, CertTypeOK
  <2>2. PICK y : y = [check[k] EXCEPT !.state = st]
    OBVIOUS
  <2>3. y \in CheckRows /\ y.state = st
    BY <2>1, <2>2 DEF CheckRows
  <2>4. check' = [check EXCEPT ![k] = y]
    BY <1>6, <2>1, <2>2
  <2> QED
    BY <2>1, <2>3, <2>4 DEF TrueApiInv, CheckInv
<1>11. CertTypeOK'
  BY <1>2, <1>5, <1>7, <1>8, <1>10 DEF TrueApiInv, CertTypeOK, Lists
<1>12. AppliedInv'
  <2>1. current'[b] = {}
    BY <1>2, <1>5 DEF TrueApiInv, CertTypeOK
  <2> QED
    BY <1>3, <2>1 DEF AppliedInv, Claims
<1> QED
  BY <1>9, <1>10, <1>11, <1>12 DEF TrueApiInv

LEMMA TrueApiStep ==
  ~AllowSecondary /\ TrueApiInv /\ [TrueApiNext]_<<bindingVars, certVars, budget>> => TrueApiInv'
<1> SUFFICES ASSUME ~AllowSecondary, TrueApiInv, [TrueApiNext]_<<bindingVars, certVars, budget>>
    PROVE TrueApiInv'
  OBVIOUS
<1>1. CASE UNCHANGED <<bindingVars, certVars, budget>>
  <2>1. UNCHANGED <<binding, token, holds, conn, rows, current, check, realRead, last>>
    BY <1>1 DEF bindingVars, certVars
  <2> QED
    BY <2>1 DEF TrueApiInv, AgentInv, BindingTypeOK, Actives, CertTypeOK, CheckInv, AppliedInv, Claims
<1>2. CASE CertNext /\ UNCHANGED bindingVars
  <2>1. ASSUME NEW i \in Conns, NEW k \in Checks, CheckTrueApi(i, k) PROVE TrueApiInv'
    BY <1>2, <2>1, ConnectionKeeps
  <2>2. CASE \E i \in Conns : \/ CreateTrueApi(i)
                              \/ \E to \in {"ENABLED", "DISABLED", "ARCHIVED"} : Lifecycle(i, to)
                              \/ \E c \in Certs : SelectCertificate(i, c)
    BY <1>2, <2>2, ConnectionKeeps
  <2>3. CASE \E b \in Bindings, said \in [Certs -> {"ready", "bad", "absent"}], applied \in Certs \cup {NoCert} :
               RecordCertificateInventory(b, said, applied)
    BY <1>2, <2>3, InventoryKeeps
  <2>4. CASE \E k \in Checks, said \in Answers, auth \in BOOLEAN, outcome \in Outcomes :
               ApplyAgentHealthResult(k, said, auth, outcome)
    BY <1>2, <2>4, HealthKeeps
  <2> QED
    BY <1>2, <2>1, <2>2, <2>3, <2>4 DEF CertNext
<1> QED
  BY <1>1, <1>2, BindingKeeps DEF TrueApiNext

LEMMA TrueApiStart == BindingInit /\ CertInit => TrueApiInv
<1> SUFFICES ASSUME BindingInit, CertInit PROVE TrueApiInv
  OBVIOUS
<1>1. Actives(binding) = {}
  BY DEF Actives, BindingInit
<1>2. AgentInv
  <2>1. BindingTypeOK
    BY DEF BindingInit, BindingTypeOK
  <2> QED
    BY <1>1, <2>1 DEF AgentInv, CertInit
<1>3. CertTypeOK
  <2>1. NoConn \in Connections /\ NoCheck \in CheckRows
    BY DEF NoConn, NoCheck, Connections, CheckRows
  <2> QED
    BY <2>1 DEF CertInit, CertTypeOK, NoReport
<1>4. CheckInv
  BY DEF CertInit, CheckInv, NoCheck
<1> QED
  BY <1>1, <1>2, <1>3, <1>4 DEF TrueApiInv, AppliedInv

\* The participant's agents, connections, observations and checks have their
\* listed shapes.
THEOREM TrueApiTyped == ~AllowSecondary /\ TrueApiSpec => [](BindingTypeOK /\ CertTypeOK)
<1>1. TrueApiInv => BindingTypeOK /\ CertTypeOK
  BY DEF TrueApiInv, AgentInv
<1>2. CASE AllowSecondary
  BY <1>2
<1>3. CASE ~AllowSecondary
  <2>1. TrueApiInv /\ [TrueApiNext]_<<bindingVars, certVars, budget>> => TrueApiInv'
    BY <1>3, TrueApiStep
  <2> QED
    BY <1>1, <2>1, TrueApiStart, PTL DEF TrueApiSpec
<1> QED
  BY <1>2, <1>3

\* While no second agent is activated beside the primary one, certificate_status
\* calls a certificate active only if the primary agent's latest inventory found
\* it ready and had applied it.
THEOREM CertificateIsApplied == ~AllowSecondary /\ TrueApiSpec => []ActiveReadyIsApplied
<1>1. TrueApiInv => ActiveReadyIsApplied
  <2> SUFFICES ASSUME TrueApiInv, CertificateStatus = "ACTIVE_READY"
      PROVE \E i \in Live : conn[i].desired = last.applied /\ conn[i].desired \in last.ready
    BY DEF ActiveReadyIsApplied
  <2>1. Live # {}
    BY DEF CertificateStatus
  <2>2. PICK i \in Live : i = CHOOSE j \in Live : TRUE
    BY <2>1
  <2>3. /\ Primary # NoBinding /\ conn[i].desired # NoCert /\ conn[i].sel = "READY"
        /\ conn[i].desired \in Eligible(Primary)
    BY <2>1, <2>2 DEF CertificateStatus
  <2>4. conn[i].desired \in current[Primary] /\ i \in Conns /\ conn[i].state \in {"ENABLED", "DISABLED"}
    BY <2>3 DEF Eligible, Live
  <2>5. Primary \in Actives(binding)
    BY <2>3, PrimaryIsActive
  <2> QED
    BY <2>3, <2>4, <2>5 DEF TrueApiInv, AppliedInv, Claims
<1>2. CASE AllowSecondary
  BY <1>2
<1>3. CASE ~AllowSecondary
  <2>1. TrueApiInv /\ [TrueApiNext]_<<bindingVars, certVars, budget>> => TrueApiInv'
    BY <1>3, TrueApiStep
  <2> QED
    BY <1>1, <2>1, TrueApiStart, PTL DEF TrueApiSpec
<1> QED
  BY <1>2, <1>3

----------------------------------------------------------------------------

\* The settings as one program: a behaviour of all of it is one of each part.
THEOREM SettingsAreSound ==
  ~AllowSecondary /\ Spec => [](ActiveSecretIsServed /\ RatesRespected /\ ActiveReadyIsApplied)
<1>1. Init => SecretInit /\ RateInit /\ BindingInit /\ CertInit
  BY DEF Init
<1>2. [Next]_vars => [SecretNext]_secretVars
  BY DEF Next, vars
<1>3. [Next]_vars => [RateNext]_rateVars
  BY DEF Next, vars
<1>4. [Next]_vars => [TrueApiNext]_<<bindingVars, certVars, budget>>
  BY DEF Next, vars
<1>5. Spec => SecretSpec /\ RateSpec /\ TrueApiSpec
  BY <1>1, <1>2, <1>3, <1>4, PTL DEF Spec, SecretSpec, RateSpec, TrueApiSpec
<1> QED
  BY <1>5, SecretsServed, BudgetsKept, CertificateIsApplied, PTL

=============================================================================
