----------------------------- MODULE AuditChain -----------------------------
(***************************************************************************)
(* The tamper-evident audit history: one hash chain for the SYSTEM scope   *)
(* and one per organisation, appended to by concurrent database            *)
(* transactions, anchored by daily checkpoints and read back by the        *)
(* verifier (services/audit_history.py, repositories/audit.py,             *)
(* api/audit_routes.py, admin.py).                                         *)
(*                                                                         *)
(* A hash is the sequence of everything it was computed from, so that two  *)
(* hashes are equal exactly when their inputs are: SHA-256 without         *)
(* collisions.  `disk' is what is committed, `work[t]' what transaction t  *)
(* has flushed, `held[t]' the chain heads whose row lock t has, `loaded[t]'  *)
(* the heads t's session keeps in memory.                                  *)
(***************************************************************************)
EXTENDS Integers, Sequences, FiniteSets, FiniteSetsExt

CONSTANTS Orgs, Txns, Cli, Keys, Types, Def, Roles, NoRole, MaxRows, MaxDay

\* Def says what the event registry holds of a type: its tenant requirement,
\* the kinds of actor allowed, whether permissions are snapshot.
ASSUME AuditConstants ==
  /\ Cli \in Txns /\ "SYSTEM" \notin Orgs /\ NoRole \notin Roles
  /\ MaxRows \in Nat /\ MaxDay \in Nat
  /\ Types \cap {"GENESIS", "LEGACY", "CHECKPOINT", "VERIFICATION_FAILED"} = {}
  /\ \A key \in Keys : key[1] # "checkpoint"
  /\ \A type \in Types : Def[type].actors \subseteq {"USER", "WORKER", "CLI_ADMIN", "WINDOWS_AGENT"}

VARIABLES disk, work, held, loaded, role, day, ver,
          tampered  \* ghost: "TRACED" when the rows must show it, else "HIDDEN"

auditVars == <<disk, work, held, loaded, role, day, ver, tampered>>

Chains == Orgs \cup {"SYSTEM"}
ZeroHash == << >>
NoKey == <<"none">>
NoHead == [seq |-> 0, hash |-> <<"unread">>]

------------------------------------------------------------------------------
\* What an event is checked for before the chain is touched.

\* AuditService._validate_tenant, for a scope that is the chain's own
ValidateTenant(d, c) ==
  /\ d.tenant = "SYSTEM" => c = "SYSTEM"
  /\ d.tenant = "ORGANISATION" => c \in Orgs

\* AuditService._actor_snapshot: a USER needs an active membership of the
\* organisation, whose role becomes part of the event.
ActorAllowed(d, actor, c) ==
  /\ actor \in d.actors
  /\ actor = "USER" /\ c \in Orgs => role[c] # NoRole

RoleSnapshot(actor, c) == IF actor = "USER" /\ c \in Orgs THEN role[c] ELSE NoRole

\* AuditService._semantic_payload
Semantic(type, actor, r) == [type |-> type, actor |-> actor, role |-> r]

------------------------------------------------------------------------------
\* The locked part: a table is the chain's head row, its events, its checkpoints.

EventHash(seq, key, sem, prev) == Append(prev, <<seq, key, sem>>)
CheckpointHash(through, head, prev, d) == Append(prev, <<through, head, d>>)

Event(seq, key, sem, prev) ==
  [seq |-> seq, key |-> key, sem |-> sem, prev |-> prev,
   hash |-> EventHash(seq, key, sem, prev)]

EmptyTable == [head |-> [seq |-> 0, hash |-> ZeroHash], rows |-> << >>, cps |-> << >>]

\* AuditService._insert_locked after the key check: the row, then the head.
\* h is the head as the session has it in memory.
Inserted(T, h, key, sem) ==
  LET e == Event(h.seq + 1, key, sem, h.hash) IN
  [T EXCEPT !.rows = Append(@, e), !.head = [seq |-> e.seq, hash |-> e.hash]]

\* AuditService._append_genesis_locked, when the chain has no event yet
WithGenesis(T) ==
  IF T.head.seq > 0 THEN T
  ELSE Inserted(T, T.head, <<"genesis">>, Semantic("GENESIS", "SYSTEM", NoRole))

LastCheckpointHash(T) == IF T.cps = << >> THEN ZeroHash ELSE T.cps[Len(T.cps)].hash

\* The first ordinary append of a day is due a checkpoint.
CheckpointDue(T) == T.cps = << >> \/ T.cps[Len(T.cps)].day < day

\* Wrong variant: the checkpoint anchors the head after its own event.
CheckpointAnchorsItself(T) ==
  IF ~CheckpointDue(T) THEN T
  ELSE LET U == Inserted(T, T.head, <<"checkpoint", T.head.seq>>,
                         Semantic("CHECKPOINT", "SYSTEM", NoRole))
           c == [through |-> T.head.seq, head |-> U.head.hash, prev |-> LastCheckpointHash(T), day |-> day,
                 hash |-> CheckpointHash(T.head.seq, U.head.hash, LastCheckpointHash(T), day)]
       IN  [U EXCEPT !.cps = Append(@, c)]

\* AuditService._maybe_checkpoint_locked: anchor the event just written, then
\* record the checkpoint itself as an event that starts no other checkpoint.
Checkpointed(T) ==
  IF ~CheckpointDue(T) THEN T
  ELSE LET c == [through |-> T.head.seq, head |-> T.head.hash,
                 prev |-> LastCheckpointHash(T), day |-> day,
                 hash |-> CheckpointHash(T.head.seq, T.head.hash, LastCheckpointHash(T), day)]
       IN  Inserted([T EXCEPT !.cps = Append(@, c)], T.head, <<"checkpoint", c.through>>,
                    Semantic("CHECKPOINT", "SYSTEM", NoRole))

\* The rows of T that carry a key.
WithKey(T, key) == {i \in 1..Len(T.rows) : key # NoKey /\ T.rows[i].key = key}

\* uq_audit_events_chain_sequence
SequenceFree(T, seq) == \A i \in 1..Len(T.rows) : T.rows[i].seq # seq

------------------------------------------------------------------------------
Idle == [phase |-> "idle", chain |-> "SYSTEM", head |-> NoHead, rows |-> << >>,
         verdict |-> "NONE", clean |-> TRUE, raced |-> FALSE]

AuditInit ==
  /\ disk = [c \in Chains |-> EmptyTable]
  /\ work = [t \in Txns |-> [c \in Chains |-> EmptyTable]]
  /\ held = [t \in Txns |-> {}]
  /\ loaded = [t \in Txns |-> [c \in Chains |-> NoHead]]
  /\ role \in [Orgs -> Roles \cup {NoRole}]
  /\ day = 0
  /\ ver = Idle
  /\ tampered = [c \in Chains |-> "NO"]

\* What t reads of chain c: its own writes, else what is committed.
View(t, c) == IF c \in held[t] THEN work[t][c] ELSE disk[c]

\* The bound: room for n more events in all chains together, flushed ones included.
Room(n) ==
  LET used == {p \in Chains \X (1..MaxRows) :
                 p[2] <= disk[p[1]].head.seq \/ \E t \in Txns : p[2] <= work[t][p[1]].head.seq}
  IN  Cardinality(used) + n <= MaxRows

\* An append writes an event, the genesis before the first and, if it
\* checkpoints, the event of a checkpoint that is due.
Growth(t, c, checkpoints) ==
  1 + (IF View(t, c).head.seq = 0 THEN 1 ELSE 0)
    + (IF checkpoints /\ CheckpointDue(View(t, c)) THEN 1 ELSE 0)

LockFree(t, c) == \A u \in Txns \ {t} : c \notin held[u]

\* The head object t's session works with after SELECT ... FOR UPDATE: a row
\* already loaded in the session keeps the attributes it was loaded with.
HeadOf(t, c) == IF loaded[t][c] # NoHead THEN loaded[t][c] ELSE View(t, c).head

\* system_chain(), chain_for_organisation(): the head is read without a lock
\* before the request decides what to append.
Peek(t, c) ==
  /\ disk[c].head.seq > 0 /\ loaded[t][c] = NoHead
  /\ loaded' = [loaded EXCEPT ![t][c] = View(t, c).head]
  /\ UNCHANGED <<disk, work, held, role, day, ver, tampered>>

Rolled(t) ==
  /\ held' = [held EXCEPT ![t] = {}]
  /\ work' = [work EXCEPT ![t] = [c \in Chains |-> EmptyTable]]
  /\ loaded' = [loaded EXCEPT ![t] = [c \in Chains |-> NoHead]]

\* What an append does once the head is locked: converge on a row with the same
\* key and meaning, fail on one with another meaning, else write; TRUE in
\* `checkpoints' for an ordinary event.
AppendLocked(t, c, key, sem, checkpoints) ==
  LET T == WithGenesis(View(t, c))
      h == IF View(t, c).head.seq = 0 THEN T.head ELSE HeadOf(t, c)
      old == WithKey(T, key)
      U == Inserted(T, h, key, sem)
      Write(V) == /\ work' = [work EXCEPT ![t][c] = V]
                  /\ loaded' = [loaded EXCEPT ![t][c] = V.head]
                  /\ held' = [held EXCEPT ![t] = @ \cup {c}]
  IN  \/ /\ old # {} /\ \A i \in old : T.rows[i].sem = sem
         /\ work' = [work EXCEPT ![t][c] = T]
         /\ held' = [held EXCEPT ![t] = @ \cup {c}]
         /\ loaded' = [loaded EXCEPT ![t][c] = h]
      \/ /\ old # {} /\ \E i \in old : T.rows[i].sem # sem
         /\ Rolled(t)
      \/ /\ old = {} /\ ~SequenceFree(T, h.seq + 1)
         /\ Rolled(t)
      \/ /\ old = {} /\ SequenceFree(T, h.seq + 1)
         /\ Write(IF checkpoints THEN Checkpointed(U) ELSE U)

\* AuditService.append, called by the repositories' and services' own audit
\* helpers with the key of the business step.
AppendEvent(t, c, type, actor, key) ==
  /\ Room(Growth(t, c, TRUE))
  /\ ValidateTenant(Def[type], c)
  /\ ActorAllowed(Def[type], actor, c)
  /\ LockFree(t, c)
  /\ AppendLocked(t, c, key, Semantic(type, actor, RoleSnapshot(actor, c)), TRUE)
  /\ UNCHANGED <<disk, role, day, ver, tampered>>

\* LegacyHistorySealer._seal_scope
SealLegacy(t, c) ==
  /\ Room(Growth(t, c, FALSE))
  /\ LockFree(t, c)
  /\ AppendLocked(t, c, <<"legacy">>, Semantic("LEGACY", "SYSTEM", NoRole), FALSE)
  /\ UNCHANGED <<disk, role, day, ver, tampered>>

Commit(t) ==
  /\ held[t] # {} \/ \E c \in Chains : loaded[t][c] # NoHead
  /\ disk' = [c \in Chains |-> IF c \in held[t] THEN work[t][c] ELSE disk[c]]
  /\ Rolled(t)
  /\ ver' = IF ver.phase # "idle" /\ ver.chain \in held[t] THEN [ver EXCEPT !.raced = TRUE] ELSE ver
  /\ UNCHANGED <<role, day, tampered>>

\* An exception of the handler, a deadlock victim, a lost connection.
Rollback(t) ==
  /\ held[t] # {} \/ \E c \in Chains : loaded[t][c] # NoHead
  /\ Rolled(t)
  /\ UNCHANGED <<disk, role, day, ver, tampered>>

\* Membership administration, whose own audit event is AppendEvent.
RoleChanges(o) ==
  /\ \E r \in Roles \cup {NoRole} : r # role[o] /\ role' = [role EXCEPT ![o] = r]
  /\ UNCHANGED <<disk, work, held, loaded, day, ver, tampered>>

DayPasses ==
  /\ day < MaxDay
  /\ day' = day + 1
  /\ UNCHANGED <<disk, work, held, loaded, role, ver, tampered>>

\* Someone with the database owner's rights changes a committed event and
\* leaves its hash, or removes the last event and leaves the head.  A session
\* that still works with the head before the removed event takes its place.
Tamper(c) ==
  LET n == Len(disk[c].rows)
      hides == \E t \in Txns : loaded[t][c] # NoHead /\ loaded[t][c].seq = n - 1
  IN  /\ (\A d \in Chains : tampered[d] = "NO") /\ n > 0 /\ \A t \in Txns : c \notin held[t]
      /\ \/ /\ \E i \in 1..n : disk' = [disk EXCEPT ![c].rows[i].sem.actor = "FORGED"]
            /\ tampered' = [tampered EXCEPT ![c] = "TRACED"]
         \/ /\ disk' = [disk EXCEPT ![c].rows = SubSeq(@, 1, n - 1)]
            /\ tampered' = [tampered EXCEPT ![c] = IF hides THEN "HIDDEN" ELSE "TRACED"]
      /\ UNCHANGED <<work, held, loaded, role, day, ver>>

------------------------------------------------------------------------------
\* The verifier: three reads, each of what is committed at its time.

\* verify_chain's loop over the rows and the two checks of the head.
RowsVerified(rows, head) ==
  /\ \A i \in 1..Len(rows) :
       /\ rows[i].seq = i
       /\ rows[i].prev = IF i = 1 THEN ZeroHash ELSE rows[i-1].hash
       /\ rows[i].hash = EventHash(rows[i].seq, rows[i].key, rows[i].sem, rows[i].prev)
       /\ i = 1 => rows[i].sem.type = "GENESIS"
  /\ rows # << >> /\ rows[Len(rows)].seq = head.seq => rows[Len(rows)].hash = head.hash

\* Wrong variant: a chain that ends before its head passes.
TailUnchecked(rows, head) == TRUE

TailVerified(rows, head) ==
  head.seq > 0 => rows # << >> /\ rows[Len(rows)].seq = head.seq

\* AuditService._verify_checkpoints
CheckpointsVerified(T) ==
  \A i \in 1..Len(T.cps) :
    LET c == T.cps[i] IN
    /\ \E j \in 1..Len(T.rows) : T.rows[j].seq = c.through /\ T.rows[j].hash = c.head
    /\ c.prev = IF i = 1 THEN ZeroHash ELSE T.cps[i-1].hash
    /\ c.hash = CheckpointHash(c.through, c.head, c.prev, c.day)

VerifyReadsHead(c) ==
  /\ ver.phase = "idle" /\ disk[c].head.seq > 0
  /\ ver' = [Idle EXCEPT !.phase = "head", !.chain = c, !.head = disk[c].head, !.clean = tampered[c] # "TRACED"]
  /\ UNCHANGED <<disk, work, held, loaded, role, day, tampered>>

VerifyReadsRows ==
  /\ ver.phase = "head"
  /\ ver' = [ver EXCEPT !.phase = "rows", !.rows = disk[ver.chain].rows]
  /\ UNCHANGED <<disk, work, held, loaded, role, day, tampered>>

VerifyConcludes ==
  /\ ver.phase = "rows"
  /\ ver' = [ver EXCEPT !.phase = "done",
               !.verdict = IF /\ RowsVerified(ver.rows, ver.head)
                              /\ TailVerified(ver.rows, ver.head)
                              /\ CheckpointsVerified(disk[ver.chain])
                           THEN "VALID" ELSE "INVALID"]
  /\ UNCHANGED <<disk, work, held, loaded, role, day, tampered>>

\* admin._verify_audit_chain: a bad organisation chain is noted in the SYSTEM
\* chain, never in the chain itself; a good one is not noted.
ReportVerdict ==
  /\ ver.phase = "done" /\ held[Cli] = {}
  /\ ver' = Idle
  /\ \/ /\ ver.verdict = "INVALID" /\ ver.chain # "SYSTEM"
        /\ Room(Growth(Cli, "SYSTEM", TRUE))
        /\ LockFree(Cli, "SYSTEM")
        /\ AppendLocked(Cli, "SYSTEM", <<"verification", ver.chain>>,
                        Semantic("VERIFICATION_FAILED", "CLI_ADMIN", NoRole), TRUE)
     \/ /\ ver.verdict = "VALID" \/ ver.chain = "SYSTEM"
        /\ UNCHANGED <<work, held, loaded>>
  /\ UNCHANGED <<disk, role, day, tampered>>

AuditNext ==
  \/ \E t \in Txns, c \in Chains : Peek(t, c)
  \/ \E t \in Txns, c \in Chains : SealLegacy(t, c)
  \/ \E t \in Txns, c \in Chains, type \in Types, key \in Keys :
       \E actor \in Def[type].actors : AppendEvent(t, c, type, actor, key)
  \/ \E t \in Txns : Commit(t)
  \/ \E t \in Txns : Rollback(t)
  \/ \E o \in Orgs : RoleChanges(o)
  \/ DayPasses
  \/ \E c \in Chains : Tamper(c)
  \/ \E c \in Chains : VerifyReadsHead(c)
  \/ VerifyReadsRows
  \/ VerifyConcludes
  \/ ReportVerdict

AuditSpec == AuditInit /\ [][AuditNext]_auditVars

------------------------------------------------------------------------------
\* A table whose events form one chain from the genesis to the head.
Linked(T) ==
  /\ Len(T.rows) = T.head.seq
  /\ T.head.hash = IF T.rows = << >> THEN ZeroHash ELSE T.rows[Len(T.rows)].hash
  /\ \A i \in 1..Len(T.rows) :
       /\ T.rows[i].seq = i
       /\ T.rows[i].prev = IF i = 1 THEN ZeroHash ELSE T.rows[i-1].hash
       /\ T.rows[i].hash = EventHash(i, T.rows[i].key, T.rows[i].sem, T.rows[i].prev)

\* No two events of a table carry one key.
KeysDistinct(T) ==
  \A i, j \in 1..Len(T.rows) : T.rows[i].key = T.rows[j].key => i = j \/ T.rows[i].key = NoKey

\* Every checkpoint anchors an event of the chain and continues the one before.
Anchored(T) ==
  /\ CheckpointsVerified(T)
  /\ \A i \in 2..Len(T.cps) : T.cps[i-1].through < T.cps[i].through /\ T.cps[i-1].day < T.cps[i].day

\* The shape of the state; at most one transaction holds a head's lock.
AuditTypeOK ==
  /\ \A c \in Chains : disk[c].head.seq \in 0..MaxRows /\ Len(disk[c].rows) <= MaxRows
  /\ held \in [Txns -> SUBSET Chains]
  /\ \A t, u \in Txns : t # u => held[t] \cap held[u] = {}
  /\ role \in [Orgs -> Roles \cup {NoRole}]
  /\ day \in 0..MaxDay
  /\ tampered \in [Chains -> {"NO", "TRACED", "HIDDEN"}]

\* ChainIntact: whatever transactions interleave, commit or roll back, a chain
\* nobody tampered with is one unbroken hash chain that ends at its head row,
\* with one event per key; so is what the holder of its lock has flushed.  Each
\* checkpoint anchors an event that is in the chain, and the checkpoints form a
\* chain of their own, one a day (_insert_locked, _chain, _maybe_checkpoint_locked
\* and the unique constraints of audit_events).
ChainIntact ==
  \A c \in Chains : tampered[c] = "NO" =>
    /\ Linked(disk[c]) /\ KeysDistinct(disk[c]) /\ Anchored(disk[c])
    /\ \A t \in Txns : c \in held[t] => Linked(work[t][c]) /\ KeysDistinct(work[t][c])

\* VerdictsSound: a full verification answers VALID only of a chain that was
\* untouched when it began (or whose last event was removed under a session that
\* had loaded the head before it, and so wrote its own event in that place), and
\* INVALID only of one that was tampered with or that gained an event between
\* the verifier's unlocked reads (verify_chain).
VerdictsSound ==
  /\ ver.verdict = "VALID" => ver.clean
  /\ ver.verdict = "INVALID" => tampered[ver.chain] # "NO" \/ ver.raced
==============================================================================
