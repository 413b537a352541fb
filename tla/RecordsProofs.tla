---------------------------- MODULE RecordsProofs ----------------------------
(***************************************************************************)
(* What the organisation keeps of its work, for any operations, chains,    *)
(* transactions and keys: an operation has one document, an audit chain    *)
(* stays one chain whoever appends to it, and the verifier's verdicts on a *)
(* chain are true.                                                         *)
(***************************************************************************)
EXTENDS Records, SequenceTheorems, TLAPS

(* Tables                                                                  *)

IsSeq(q) == \E S : q \in Seq(S)

LEMMA AppendFacts ==
  ASSUME NEW q, IsSeq(q), NEW x
  PROVE  /\ Len(q) \in Nat /\ IsSeq(Append(q, x)) /\ Len(Append(q, x)) = Len(q) + 1
         /\ Append(q, x)[Len(q) + 1] = x /\ \A i \in 1..Len(q) : Append(q, x)[i] = q[i]
         /\ Append(q, x) # << >>
<1>1. PICK S : q \in Seq(S)
  BY DEF IsSeq
<1>2. PICK R : R = S \cup {x}
  OBVIOUS
<1>3. q \in Seq(R) /\ x \in R
  BY <1>1, <1>2
<1>4. /\ Len(q) \in Nat /\ Append(q, x) \in Seq(R) /\ Len(Append(q, x)) = Len(q) + 1
      /\ Append(q, x)[Len(q) + 1] = x /\ \A i \in 1..Len(q) : Append(q, x)[i] = q[i]
  BY <1>3
<1>5. Append(q, x) # << >>
  BY <1>4
<1> QED
  BY <1>4, <1>5 DEF IsSeq

LEMMA EmptyIsSeq == IsSeq(<< >>) /\ Len(<< >>) = 0
<1>1. << >> \in Seq({})
  OBVIOUS
<1> QED
  BY <1>1 DEF IsSeq

LEMMA EmptyOrNot ==
  ASSUME NEW q, IsSeq(q)
  PROVE  Len(q) \in Nat /\ (q = << >> <=> Len(q) = 0)
  BY DEF IsSeq

\* A table is a head, a list of events and a list of checkpoints.
Shaped(T) ==
  \E Q, H, S, C : T \in [head : [seq : Q, hash : H], rows : Seq(S), cps : Seq(C)]

LEMMA ShapedLists == \A T : Shaped(T) => IsSeq(T.rows) /\ IsSeq(T.cps)
  BY DEF Shaped, IsSeq

\* Row i was written by _insert_locked at sequence i: nobody forged it, the
\* first one is the genesis, and a checkpoint's event names an earlier sequence.
Written(e, i) ==
  /\ e = Event(i, e.key, e.sem, e.prev)
  /\ e.sem = Semantic(e.sem.type, e.sem.actor, e.sem.role) /\ e.sem.actor # "FORGED"
  /\ i = 1 => e.sem.type = "GENESIS"
  /\ IsSeq(e.prev)
  /\ \A n : e.key = <<"checkpoint", n>> => n \in Nat /\ n < i

Sound(T) ==
  /\ Shaped(T) /\ Linked(T) /\ KeysDistinct(T) /\ Anchored(T)
  /\ \A i \in 1..Len(T.rows) : Written(T.rows[i], i)

\* U has the events of T and perhaps more.
Extends(T, U) ==
  Len(T.rows) <= Len(U.rows) /\ \A i \in 1..Len(T.rows) : U.rows[i] = T.rows[i]

\* U is T with the event e behind its rows.
Appended(T, h, U, e) ==
  /\ Shaped(U) /\ U.cps = T.cps /\ U.rows = Append(T.rows, e)
  /\ U.head.seq = h.seq + 1 /\ U.head.hash = e.hash
  /\ Len(T.rows) \in Nat /\ Len(U.rows) = Len(T.rows) + 1 /\ U.rows[Len(T.rows) + 1] = e
  /\ Extends(T, U) /\ \A i \in 1..Len(T.rows) : U.rows[i] = T.rows[i]
  /\ U.rows # << >>

LEMMA InsertedShape ==
  ASSUME NEW T, Shaped(T), NEW h, NEW key, NEW sem
  PROVE  Appended(T, h, Inserted(T, h, key, sem), Event(h.seq + 1, key, sem, h.hash))
<1> DEFINE e == Event(h.seq + 1, key, sem, h.hash)
           U == Inserted(T, h, key, sem)
<1>1. e.seq = h.seq + 1
  BY DEF Event
<1>2. U = [T EXCEPT !.rows = Append(T.rows, e), !.head = [seq |-> e.seq, hash |-> e.hash]]
  BY Zenon DEF Inserted
<1> HIDE DEF e, U
<1>3. PICK Q, H, S, C : T \in [head : [seq : Q, hash : H], rows : Seq(S), cps : Seq(C)]
  BY DEF Shaped
<1>4. PICK R, P : R = S \cup {e} /\ P = Append(T.rows, e)
  OBVIOUS
<1>5. P \in Seq(R)
  BY <1>3, <1>4
<1>6. PICK g : g = [seq |-> e.seq, hash |-> e.hash]
  OBVIOUS
<1>7. U = [T EXCEPT !.rows = P, !.head = g]
  BY <1>2, <1>4, <1>6
<1>8. /\ U.rows = P /\ U.head = g /\ U.cps = T.cps
      /\ U \in [head : {g}, rows : Seq(R), cps : Seq(C)]
  BY <1>3, <1>5, <1>7
<1>9. Shaped(U)
  <2>1. g \in [seq : {e.seq}, hash : {e.hash}]
    BY <1>6
  <2>2. U \in [head : [seq : {e.seq}, hash : {e.hash}], rows : Seq(R), cps : Seq(C)]
    BY <1>8, <2>1
  <2> QED
    BY <2>2 DEF Shaped
<1>10. /\ Len(T.rows) \in Nat /\ Len(P) = Len(T.rows) + 1 /\ P[Len(T.rows) + 1] = e
       /\ (\A i \in 1..Len(T.rows) : P[i] = T.rows[i]) /\ P # << >>
  BY <1>4, AppendFacts, ShapedLists
<1>11. Extends(T, U)
  BY <1>8, <1>10 DEF Extends
<1>12. g.seq = e.seq /\ g.hash = e.hash
  BY <1>6
<1> QED
  BY <1>1, <1>4, <1>6, <1>8, <1>9, <1>10, <1>11, <1>12 DEF Appended, e, U

LEMMA ExtendsMore ==
  ASSUME NEW T, NEW U, NEW V, Shaped(T), Shaped(U), Shaped(V), Extends(T, U), Extends(U, V)
  PROVE  Extends(T, V)
<1>1. Len(T.rows) \in Nat /\ Len(U.rows) \in Nat /\ Len(V.rows) \in Nat
  BY EmptyOrNot, ShapedLists
<1> QED
  BY <1>1 DEF Extends

\* What _insert_locked writes behind the true head keeps a table sound.
LEMMA InsertSound ==
  ASSUME NEW T, Sound(T), NEW h, h.seq = T.head.seq, h.hash = T.head.hash,
         NEW key, NEW type, NEW actor, actor # "FORGED", NEW r,
         key = NoKey \/ \A i \in 1..Len(T.rows) : T.rows[i].key # key,
         \A n : key = <<"checkpoint", n>> => n \in Nat /\ n <= T.head.seq,
         T.head.seq = 0 => type = "GENESIS"
  PROVE  Sound(Inserted(T, h, key, Semantic(type, actor, r)))
<1> DEFINE sem == Semantic(type, actor, r)
           n == Len(T.rows)
<1>1. sem.type = type /\ sem.actor = actor /\ sem = Semantic(sem.type, sem.actor, sem.role)
  BY DEF Semantic
<1> HIDE DEF sem
<1>0. PICK U, e : U = Inserted(T, h, key, sem) /\ e = Event(h.seq + 1, key, sem, h.hash)
  OBVIOUS
<1>2. Shaped(T)
  BY DEF Sound
<1>3. /\ Shaped(U) /\ U.cps = T.cps /\ U.head.seq = h.seq + 1 /\ U.head.hash = e.hash
      /\ n \in Nat /\ Len(U.rows) = n + 1 /\ U.rows[n + 1] = e
      /\ (\A i \in 1..n : U.rows[i] = T.rows[i]) /\ U.rows # << >>
  <2>1. Appended(T, h, U, e)
    BY <1>0, <1>2, InsertedShape
  <2> QED
    BY <2>1 DEF Appended
<1>4. /\ e.seq = h.seq + 1 /\ e.key = key /\ e.sem = sem /\ e.prev = h.hash
      /\ e.hash = EventHash(h.seq + 1, key, sem, h.hash)
      /\ e = Event(h.seq + 1, e.key, e.sem, e.prev)
  BY <1>0 DEF Event
<1>5. h.seq = n /\ h.hash = IF n = 0 THEN ZeroHash ELSE T.rows[n].hash
  BY <1>2, EmptyOrNot, ShapedLists DEF Sound, Linked
<1> HIDE DEF n
<1>6. \A i \in 1..n+1 : i \in 1..n \/ i = n + 1
  BY <1>3
<1>7. Linked(U)
  <2>1. ASSUME NEW i \in 1..n+1
        PROVE  /\ U.rows[i].seq = i
               /\ U.rows[i].prev = IF i = 1 THEN ZeroHash ELSE U.rows[i-1].hash
               /\ U.rows[i].hash = EventHash(i, U.rows[i].key, U.rows[i].sem, U.rows[i].prev)
    <3>1. CASE i \in 1..n
      <4>1. /\ T.rows[i].seq = i
            /\ T.rows[i].prev = IF i = 1 THEN ZeroHash ELSE T.rows[i-1].hash
            /\ T.rows[i].hash = EventHash(i, T.rows[i].key, T.rows[i].sem, T.rows[i].prev)
        BY <3>1 DEF Sound, Linked, n
      <4>2. i # 1 => i - 1 \in 1..n
        BY <1>3, <3>1
      <4> QED
        BY <1>3, <3>1, <4>1, <4>2
    <3>2. CASE i = n + 1
      <4>1. U.rows[i] = e /\ i = h.seq + 1
        BY <1>3, <1>5, <3>2
      <4>2. i # 1 => i - 1 = n /\ n \in 1..n /\ n # 0
        BY <1>3, <3>2
      <4>3. i = 1 => n = 0
        BY <1>3, <3>2
      <4>4. e.prev = IF i = 1 THEN ZeroHash ELSE U.rows[i-1].hash
        BY <1>3, <1>4, <1>5, <4>2, <4>3
      <4> QED
        BY <1>4, <4>1, <4>4
    <3> QED
      BY <1>6, <3>1, <3>2
  <2> QED
    BY <1>3, <1>5, <2>1 DEF Linked
<1>8. KeysDistinct(U)
  <2>1. ASSUME NEW i \in 1..n, T.rows[i].key = key PROVE key = NoKey
    BY <2>1 DEF n
  <2>2. \A i, j \in 1..n : T.rows[i].key = T.rows[j].key => i = j \/ T.rows[i].key = NoKey
    BY DEF Sound, KeysDistinct, n
  <2> QED
    BY <1>3, <1>4, <1>6, <2>1, <2>2 DEF KeysDistinct
<1>9. Anchored(U)
  <2>1. \A i \in 1..Len(T.cps) :
          /\ \E j \in 1..n : T.rows[j].seq = T.cps[i].through /\ T.rows[j].hash = T.cps[i].head
          /\ T.cps[i].prev = IF i = 1 THEN ZeroHash ELSE T.cps[i-1].hash
          /\ T.cps[i].hash = CheckpointHash(T.cps[i].through, T.cps[i].head, T.cps[i].prev, T.cps[i].day)
    BY DEF Sound, Anchored, CheckpointsVerified, n
  <2>2. \A j \in 1..n : j \in 1..n+1 /\ U.rows[j] = T.rows[j]
    BY <1>3
  <2>3. CheckpointsVerified(U)
    <3> SUFFICES ASSUME NEW i \in 1..Len(T.cps)
        PROVE  /\ \E j \in 1..Len(U.rows) : U.rows[j].seq = T.cps[i].through /\ U.rows[j].hash = T.cps[i].head
               /\ T.cps[i].prev = IF i = 1 THEN ZeroHash ELSE T.cps[i-1].hash
               /\ T.cps[i].hash = CheckpointHash(T.cps[i].through, T.cps[i].head, T.cps[i].prev, T.cps[i].day)
      BY <1>3 DEF CheckpointsVerified
    <3>1. PICK j \in 1..n : T.rows[j].seq = T.cps[i].through /\ T.rows[j].hash = T.cps[i].head
      BY <2>1
    <3>2. \E m \in 1..Len(U.rows) : U.rows[m].seq = T.cps[i].through /\ U.rows[m].hash = T.cps[i].head
      BY <1>3, <2>2, <3>1
    <3> QED
      BY <2>1, <3>2
  <2> QED
    BY <1>3, <2>3 DEF Sound, Anchored
<1>10. \A i \in 1..n+1 : Written(U.rows[i], i)
  <2>1. ASSUME NEW i \in 1..n PROVE Written(U.rows[i], i)
    BY <1>3 DEF Sound, n
  <2>2. Written(e, n + 1)
    <3>1. IsSeq(h.hash)
      <4>1. CASE n = 0
        BY <1>5, <4>1, EmptyIsSeq DEF ZeroHash
      <4>2. CASE n # 0
        <5>1. n \in 1..Len(T.rows)
          BY <1>3, <4>2 DEF n
        <5>2. T.rows[n].hash = EventHash(n, T.rows[n].key, T.rows[n].sem, T.rows[n].prev) /\ IsSeq(T.rows[n].prev)
          BY <5>1 DEF Sound, Linked, Written
        <5> QED
          BY <1>5, <4>2, <5>2, AppendFacts DEF EventHash
      <4> QED
        BY <4>1, <4>2
    <3>2. n + 1 = 1 => T.head.seq = 0
      BY <1>3, <1>5
    <3>3. \A m : e.key = <<"checkpoint", m>> => m \in Nat /\ m < n + 1
      BY <1>3, <1>4, <1>5
    <3> QED
      BY <1>1, <1>4, <1>5, <3>1, <3>2, <3>3 DEF Written
  <2> QED
    BY <1>3, <1>6, <2>1, <2>2
<1> QED
  BY <1>0, <1>3, <1>7, <1>8, <1>9, <1>10 DEF Sound, sem

LEMMA ThroughKnown ==
  ASSUME NEW T, Sound(T)
  PROVE  \A i \in 1..Len(T.cps) : T.cps[i].through \in 1..Len(T.rows)
  BY DEF Sound, Anchored, CheckpointsVerified, Linked

\* _maybe_checkpoint_locked, right after an event was written.
LEMMA CheckpointSound ==
  ASSUME NEW U, Sound(U), U.head.seq > 0,
         \A i \in 1..Len(U.cps) : U.cps[i].through < U.head.seq
  PROVE  Sound(Checkpointed(U)) /\ Extends(U, Checkpointed(U)) /\ Checkpointed(U).head.seq > 0
<1>1. Shaped(U) /\ Len(U.rows) \in Nat /\ U.head.seq = Len(U.rows)
  BY EmptyOrNot, ShapedLists DEF Sound, Linked
<1>2. CASE ~CheckpointDue(U)
  BY <1>1, <1>2 DEF Checkpointed, Extends
<1>3. CASE CheckpointDue(U)
  <2> DEFINE c == [through |-> U.head.seq, head |-> U.head.hash,
                   prev |-> LastCheckpointHash(U), day |-> day,
                   hash |-> CheckpointHash(U.head.seq, U.head.hash, LastCheckpointHash(U), day)]
             V == [U EXCEPT !.cps = Append(U.cps, c)]
             k == Len(U.cps)
  <2>0. PICK W : W = Inserted(V, U.head, <<"checkpoint", c.through>>, Semantic("CHECKPOINT", "SYSTEM", NoRole))
    OBVIOUS
  <2>1. Checkpointed(U) = W
    BY <1>3, <2>0, Zenon DEF Checkpointed
  <2>2. /\ c.through = U.head.seq /\ c.head = U.head.hash /\ c.prev = LastCheckpointHash(U) /\ c.day = day
        /\ c.hash = CheckpointHash(c.through, c.head, c.prev, c.day)
    OBVIOUS
  <2> HIDE DEF c
  <2>3. IsSeq(U.cps) /\ k \in Nat
    BY <1>1, ShapedLists, EmptyOrNot
  <2>4. /\ V.head = U.head /\ V.rows = U.rows /\ V.cps = Append(U.cps, c) /\ Shaped(V)
    <3>1. PICK Q, H, S, C : U \in [head : [seq : Q, hash : H], rows : Seq(S), cps : Seq(C)]
      BY <1>1 DEF Shaped
    <3>2. PICK D, P : D = C \cup {c} /\ P = Append(U.cps, c)
      OBVIOUS
    <3>3. P \in Seq(D)
      BY <3>1, <3>2
    <3>4. V = [U EXCEPT !.cps = P]
      BY <3>2
    <3> HIDE DEF V
    <3>5. V.head = U.head /\ V.rows = U.rows /\ V.cps = P
      BY <3>1, <3>4
    <3>6. V \in [head : [seq : Q, hash : H], rows : Seq(S), cps : Seq(D)]
      BY <3>1, <3>3, <3>4
    <3> QED
      BY <3>2, <3>5, <3>6 DEF Shaped
  <2> HIDE DEF V
  <2>5. /\ Len(V.cps) = k + 1 /\ V.cps[k + 1] = c /\ \A i \in 1..k : V.cps[i] = U.cps[i]
    BY <2>3, <2>4, AppendFacts
  <2>6. LastCheckpointHash(U) = IF k = 0 THEN ZeroHash ELSE U.cps[k].hash
    BY <2>3, EmptyOrNot DEF LastCheckpointHash
  <2>7. k # 0 => U.cps[k].day < day
    BY <1>3, <2>3, EmptyOrNot DEF CheckpointDue
  <2> HIDE DEF k
  <2>8. CheckpointsVerified(V)
    <3> SUFFICES ASSUME NEW i \in 1..k+1
        PROVE  /\ \E j \in 1..Len(V.rows) : V.rows[j].seq = V.cps[i].through /\ V.rows[j].hash = V.cps[i].head
               /\ V.cps[i].prev = IF i = 1 THEN ZeroHash ELSE V.cps[i-1].hash
               /\ V.cps[i].hash = CheckpointHash(V.cps[i].through, V.cps[i].head, V.cps[i].prev, V.cps[i].day)
      BY <2>5 DEF CheckpointsVerified
    <3>1. CASE i \in 1..k
      <4>1. /\ \E j \in 1..Len(U.rows) : U.rows[j].seq = U.cps[i].through /\ U.rows[j].hash = U.cps[i].head
            /\ U.cps[i].prev = IF i = 1 THEN ZeroHash ELSE U.cps[i-1].hash
            /\ U.cps[i].hash = CheckpointHash(U.cps[i].through, U.cps[i].head, U.cps[i].prev, U.cps[i].day)
        BY <3>1 DEF Sound, Anchored, CheckpointsVerified, k
      <4>2. i # 1 => i - 1 \in 1..k
        BY <2>3, <3>1
      <4> QED
        BY <2>4, <2>5, <3>1, <4>1, <4>2
    <3>2. CASE i = k + 1
      <4>1. V.cps[i] = c
        BY <2>5, <3>2
      <4>2. \E j \in 1..Len(V.rows) : V.rows[j].seq = c.through /\ V.rows[j].hash = c.head
        <5>1. Len(U.rows) \in 1..Len(U.rows) /\ U.rows # << >>
          BY <1>1, EmptyOrNot, ShapedLists
        <5>2. U.rows[Len(U.rows)].seq = Len(U.rows) /\ U.rows[Len(U.rows)].hash = U.head.hash
          BY <5>1 DEF Sound, Linked
        <5> QED
          BY <1>1, <2>2, <2>4, <5>1, <5>2
      <4>3. c.prev = IF i = 1 THEN ZeroHash ELSE V.cps[i-1].hash
        <5>1. CASE k = 0
          BY <2>2, <2>6, <3>2, <5>1
        <5>2. CASE k # 0
          <6>1. i # 1 /\ i - 1 = k /\ k \in 1..k
            BY <2>3, <3>2, <5>2
          <6> QED
            BY <2>2, <2>5, <2>6, <5>2, <6>1
        <5> QED
          BY <5>1, <5>2
      <4> QED
        BY <2>2, <4>1, <4>2, <4>3
    <3> QED
      BY <2>3, <3>1, <3>2
  <2>9. \A i \in 2..k+1 : V.cps[i-1].through < V.cps[i].through /\ V.cps[i-1].day < V.cps[i].day
    <3> SUFFICES ASSUME NEW i \in 2..k+1
        PROVE V.cps[i-1].through < V.cps[i].through /\ V.cps[i-1].day < V.cps[i].day
      OBVIOUS
    <3>1. CASE i \in 2..k
      <4>1. i \in 1..k /\ i - 1 \in 1..k
        BY <2>3, <3>1
      <4> QED
        BY <2>5, <3>1, <4>1 DEF Sound, Anchored, k
    <3>2. CASE i = k + 1
      <4>1. i - 1 = k /\ k \in 1..k /\ k # 0
        BY <2>3, <3>2
      <4> QED
        BY <2>2, <2>5, <2>7, <3>2, <4>1 DEF k
    <3> QED
      BY <2>3, <3>1, <3>2
  <2>10. Sound(V)
    <3>1. Linked(V) /\ KeysDistinct(V) /\ \A i \in 1..Len(V.rows) : Written(V.rows[i], i)
      BY <2>4 DEF Sound, Linked, KeysDistinct
    <3>2. Anchored(V)
      BY <2>5, <2>8, <2>9 DEF Anchored
    <3> QED
      BY <2>4, <3>1, <3>2 DEF Sound
  <2>11. Sound(W)
    <3>1. \A i \in 1..Len(V.rows) : V.rows[i].key # <<"checkpoint", c.through>>
      <4> SUFFICES ASSUME NEW i \in 1..Len(V.rows), V.rows[i].key = <<"checkpoint", c.through>> PROVE FALSE
        OBVIOUS
      <4>1. c.through < i
        BY <2>10 DEF Sound, Written
      <4> QED
        BY <1>1, <2>2, <2>4, <4>1
    <3>2. \A n : <<"checkpoint", c.through>> = <<"checkpoint", n>> => n \in Nat /\ n <= V.head.seq
      BY <1>1, <2>2, <2>4
    <3>3. V.head.seq # 0 /\ U.head.seq = V.head.seq /\ U.head.hash = V.head.hash
      BY <1>1, <2>4
    <3> QED
      BY <2>0, <2>10, <3>1, <3>2, <3>3, InsertSound
  <2>12. Extends(V, W) /\ W.head.seq = U.head.seq + 1
    <3>1. PICK x : x = Event(U.head.seq + 1, <<"checkpoint", c.through>>,
                             Semantic("CHECKPOINT", "SYSTEM", NoRole), U.head.hash)
      OBVIOUS
    <3>2. Appended(V, U.head, W, x)
      BY <2>0, <2>4, <3>1, InsertedShape
    <3> QED
      BY <3>2 DEF Appended
  <2>13. Extends(U, W) /\ W.head.seq > 0
    BY <1>1, <2>4, <2>12 DEF Extends
  <2> QED
    BY <2>1, <2>11, <2>13
<1> QED
  BY <1>2, <1>3

LEMMA CheckpointedShape ==
  ASSUME NEW U, Shaped(U)
  PROVE  Shaped(Checkpointed(U)) /\ Extends(U, Checkpointed(U))
<1>1. CASE ~CheckpointDue(U)
  BY <1>1, EmptyOrNot, ShapedLists DEF Checkpointed, Extends
<1>2. CASE CheckpointDue(U)
  <2> DEFINE c == [through |-> U.head.seq, head |-> U.head.hash,
                   prev |-> LastCheckpointHash(U), day |-> day,
                   hash |-> CheckpointHash(U.head.seq, U.head.hash, LastCheckpointHash(U), day)]
  <2>1. PICK V : V = [U EXCEPT !.cps = Append(U.cps, c)]
    OBVIOUS
  <2>2. PICK key, sem : key = <<"checkpoint", c.through>> /\ sem = Semantic("CHECKPOINT", "SYSTEM", NoRole)
    OBVIOUS
  <2>3. Checkpointed(U) = Inserted(V, U.head, key, sem)
    BY <1>2, <2>1, <2>2, Zenon DEF Checkpointed
  <2> HIDE DEF c
  <2>4. V.rows = U.rows /\ Shaped(V)
    <3>1. PICK Q, H, S, C : U \in [head : [seq : Q, hash : H], rows : Seq(S), cps : Seq(C)]
      BY DEF Shaped
    <3>2. PICK D, P : D = C \cup {c} /\ P = Append(U.cps, c)
      OBVIOUS
    <3>3. P \in Seq(D)
      BY <3>1, <3>2
    <3>4. V = [U EXCEPT !.cps = P]
      BY <2>1, <3>2
    <3>5. V.rows = U.rows /\ V \in [head : [seq : Q, hash : H], rows : Seq(S), cps : Seq(D)]
      BY <3>1, <3>3, <3>4
    <3> QED
      BY <3>5 DEF Shaped
  <2>5. Shaped(Inserted(V, U.head, key, sem)) /\ Extends(V, Inserted(V, U.head, key, sem))
    BY <2>4, InsertedShape DEF Appended
  <2> QED
    BY <2>3, <2>4, <2>5 DEF Extends
<1> QED
  BY <1>1, <1>2

LEMMA GenesisShape ==
  ASSUME NEW T, Shaped(T)
  PROVE  Shaped(WithGenesis(T)) /\ Extends(T, WithGenesis(T)) /\ (T.head.seq > 0 => WithGenesis(T) = T)
<1>1. CASE T.head.seq > 0
  BY <1>1, EmptyOrNot, ShapedLists DEF WithGenesis, Extends
<1>2. CASE ~(T.head.seq > 0)
  <2>1. PICK key, sem : key = <<"genesis">> /\ sem = Semantic("GENESIS", "SYSTEM", NoRole)
    OBVIOUS
  <2>2. WithGenesis(T) = Inserted(T, T.head, key, sem)
    BY <1>2, <2>1 DEF WithGenesis
  <2>3. Shaped(Inserted(T, T.head, key, sem)) /\ Extends(T, Inserted(T, T.head, key, sem))
    BY InsertedShape DEF Appended
  <2> QED
    BY <1>2, <2>2, <2>3
<1> QED
  BY <1>1, <1>2

LEMMA GenesisSound ==
  ASSUME NEW T, Sound(T)
  PROVE  Sound(WithGenesis(T)) /\ WithGenesis(T).head.seq > 0
<1>1. Shaped(T) /\ T.head.seq = Len(T.rows) /\ Len(T.rows) \in Nat
  BY EmptyOrNot, ShapedLists DEF Sound, Linked
<1>2. CASE T.head.seq > 0
  BY <1>2 DEF WithGenesis
<1>3. CASE ~(T.head.seq > 0)
  <2>1. T.head.seq = 0 /\ Len(T.rows) = 0
    BY <1>1, <1>3
  <2>2. PICK key, sem : key = <<"genesis">> /\ sem = Semantic("GENESIS", "SYSTEM", NoRole)
    OBVIOUS
  <2>3. WithGenesis(T) = Inserted(T, T.head, key, sem)
    BY <1>3, <2>2 DEF WithGenesis
  <2>4. \A n : key # <<"checkpoint", n>>
    BY <2>2
  <2>5. Sound(Inserted(T, T.head, key, sem))
    BY <2>1, <2>2, <2>4, InsertSound
  <2>6. Inserted(T, T.head, key, sem).head.seq = 1
    BY <1>1, <2>1, InsertedShape DEF Appended
  <2> QED
    BY <2>3, <2>5, <2>6
<1> QED
  BY <1>2, <1>3

\* An ordinary event behind the true head, with its checkpoint if one is due.
LEMMA EventSound ==
  ASSUME NEW T, Sound(T), T.head.seq > 0, NEW h, h.seq = T.head.seq, h.hash = T.head.hash,
         NEW key, NEW type, NEW actor, actor # "FORGED", NEW r,
         key = NoKey \/ \A i \in 1..Len(T.rows) : T.rows[i].key # key,
         \A n : key # <<"checkpoint", n>>,
         NEW U, U = Inserted(T, h, key, Semantic(type, actor, r))
  PROVE  /\ Sound(U) /\ Extends(T, U) /\ U.head.seq > 0
         /\ Sound(Checkpointed(U)) /\ Extends(T, Checkpointed(U)) /\ Checkpointed(U).head.seq > 0
<1>1. Sound(U)
  BY InsertSound
<1>2. Shaped(T) /\ T.head.seq = Len(T.rows) /\ Len(T.rows) \in Nat
  BY EmptyOrNot, ShapedLists DEF Sound, Linked
<1>3. PICK sem : sem = Semantic(type, actor, r)
  OBVIOUS
<1>4. Appended(T, h, U, Event(h.seq + 1, key, sem, h.hash))
  BY <1>2, <1>3, InsertedShape
<1>5. U.cps = T.cps /\ U.head.seq = T.head.seq + 1 /\ Extends(T, U)
  BY <1>4 DEF Appended
<1>6. \A i \in 1..Len(U.cps) : U.cps[i].through < U.head.seq
  BY <1>2, <1>5, ThroughKnown
<1>7. U.head.seq > 0
  BY <1>2, <1>5
<1>8. Sound(Checkpointed(U)) /\ Extends(U, Checkpointed(U)) /\ Checkpointed(U).head.seq > 0
  BY <1>1, <1>6, <1>7, CheckpointSound
<1>9. Extends(T, Checkpointed(U))
  BY <1>1, <1>2, <1>5, <1>8, ExtendsMore DEF Sound
<1> QED
  BY <1>1, <1>5, <1>7, <1>8, <1>9

----------------------------------------------------------------------------

(* Chains                                                                  *)

\* A session's head is an event of the chain it reads, perhaps an old one.
HeadKnown(h, T) ==
  h = NoHead \/ (h.seq \in 1..Len(T.rows) /\ h.hash = T.rows[h.seq].hash)

ChainOK(c) ==
  /\ Sound(disk[c])
  /\ \A t \in Txns : /\ Sound(View(t, c)) /\ Extends(disk[c], View(t, c))
                     /\ HeadKnown(loaded[t][c], View(t, c))

\* The rows give it away, whatever is appended behind them.
Broken(T) ==
  \/ \E i \in 1..Len(T.rows) : T.rows[i].seq # i
  \/ \E i \in 1..Len(T.rows) :
       T.rows[i].hash # EventHash(T.rows[i].seq, T.rows[i].key, T.rows[i].sem, T.rows[i].prev)

\* The last row is missing and the head says so.
Cut(T) ==
  T.head.seq = Len(T.rows) + 1 /\ \A i \in 1..Len(T.rows) : T.rows[i].seq = i

\* A head that cannot take the missing row's place.
Off(h, T) == h = NoHead \/ (h.seq \in Nat /\ h.seq # Len(T.rows))

TracedOK(c) ==
  /\ Shaped(disk[c]) /\ (Broken(disk[c]) \/ Cut(disk[c]))
  /\ \A t \in Txns :
       /\ Shaped(View(t, c))
       /\ Broken(View(t, c))
            \/ (View(t, c) = disk[c] /\ Cut(disk[c]) /\ Off(loaded[t][c], disk[c]))

ChainInv(c) ==
  (tampered[c] = "NO" => ChainOK(c)) /\ (tampered[c] = "TRACED" => TracedOK(c))

\* The lock of a head has one holder.
AuditShape ==
  /\ DOMAIN disk = Chains /\ DOMAIN work = Txns /\ DOMAIN loaded = Txns
  /\ \A t \in Txns : DOMAIN work[t] = Chains /\ DOMAIN loaded[t] = Chains
  /\ held \in [Txns -> SUBSET Chains]
  /\ \A t, u \in Txns : t # u => held[t] \cap held[u] = {}
  /\ tampered \in [Chains -> {"NO", "TRACED", "HIDDEN"}]

LEMMA BrokenStays ==
  ASSUME NEW T, NEW U, Shaped(T), Shaped(U), Extends(T, U), Broken(T)
  PROVE  Broken(U)
<1>1. Len(T.rows) \in Nat /\ Len(U.rows) \in Nat
  BY EmptyOrNot, ShapedLists
<1>2. \A i \in 1..Len(T.rows) : i \in 1..Len(U.rows) /\ U.rows[i] = T.rows[i]
  BY <1>1 DEF Extends
<1> QED
  BY <1>2 DEF Broken

LEMMA SelfExtends ==
  ASSUME NEW T, Shaped(T)
  PROVE  Extends(T, T)
  BY EmptyOrNot, ShapedLists DEF Extends

\* Sessions read what they read before, or start anew.
LEMMA ChainRests ==
  ASSUME NEW c \in Chains, ChainInv(c), disk'[c] = disk[c], tampered'[c] = tampered[c],
         \A t \in Txns : \/ View(t, c)' = View(t, c) /\ loaded'[t][c] = loaded[t][c]
                         \/ View(t, c)' = disk[c] /\ loaded'[t][c] = NoHead
  PROVE  ChainInv(c)'
<1>1. ASSUME tampered[c] = "NO" PROVE ChainOK(c)'
  <2>1. Sound(disk[c]) /\ Extends(disk[c], disk[c])
    BY <1>1, SelfExtends DEF ChainInv, ChainOK, Sound
  <2> QED
    BY <1>1, <2>1 DEF ChainInv, ChainOK, HeadKnown
<1>2. ASSUME tampered[c] = "TRACED" PROVE TracedOK(c)'
  BY <1>2 DEF ChainInv, TracedOK, Off
<1> QED
  BY <1>1, <1>2 DEF ChainInv

\* One session has a new table V and head g.
LEMMA ChainMoves ==
  ASSUME NEW c \in Chains, NEW t \in Txns, ChainInv(c),
         disk'[c] = disk[c], tampered'[c] = tampered[c], NEW V, NEW g,
         View(t, c)' = V, loaded'[t][c] = g,
         \A u \in Txns \ {t} : View(u, c)' = View(u, c) /\ loaded'[u][c] = loaded[u][c],
         tampered[c] = "NO" => Sound(V) /\ Extends(disk[c], V) /\ HeadKnown(g, V),
         tampered[c] = "TRACED" => Shaped(V) /\ (Broken(V) \/ (V = disk[c] /\ Cut(disk[c]) /\ Off(g, disk[c])))
  PROVE  ChainInv(c)'
<1>1. ASSUME tampered[c] = "NO" PROVE ChainOK(c)'
  BY <1>1 DEF ChainInv, ChainOK
<1>2. ASSUME tampered[c] = "TRACED" PROVE TracedOK(c)'
  BY <1>2 DEF ChainInv, TracedOK
<1> QED
  BY <1>1, <1>2 DEF ChainInv

\* t's session has flushed the table V of chain c and works with the head g.
Flushed(t, c, V, g) ==
  /\ work' = [work EXCEPT ![t][c] = V]
  /\ held' = [held EXCEPT ![t] = @ \cup {c}]
  /\ loaded' = [loaded EXCEPT ![t][c] = g]

LEMMA FlushedReads ==
  ASSUME AuditShape, NEW t \in Txns, NEW c \in Chains, LockFree(t, c), NEW V, NEW g,
         Flushed(t, c, V, g), disk' = disk, tampered' = tampered
  PROVE  /\ AuditShape' /\ View(t, c)' = V /\ loaded'[t][c] = g
         /\ \A u \in Txns, d \in Chains :
              u # t \/ d # c => View(u, d)' = View(u, d) /\ loaded'[u][d] = loaded[u][d]
<1>1. /\ \A u \in Txns, d \in Chains : work'[u][d] = IF u = t /\ d = c THEN V ELSE work[u][d]
      /\ \A u \in Txns, d \in Chains : loaded'[u][d] = IF u = t /\ d = c THEN g ELSE loaded[u][d]
  BY DEF AuditShape, Flushed
<1>2. \A u \in Txns : held'[u] = IF u = t THEN held[t] \cup {c} ELSE held[u]
  BY DEF AuditShape, Flushed
<1>3. AuditShape'
  <2>1. /\ DOMAIN work' = Txns /\ DOMAIN loaded' = Txns
        /\ \A u \in Txns : DOMAIN work'[u] = Chains /\ DOMAIN loaded'[u] = Chains
    BY DEF AuditShape, Flushed
  <2>2. held' \in [Txns -> SUBSET Chains]
    BY DEF AuditShape, Flushed
  <2>3. \A u, v \in Txns : u # v => held'[u] \cap held'[v] = {}
    BY <1>2 DEF AuditShape, LockFree
  <2> QED
    BY <2>1, <2>2, <2>3 DEF AuditShape
<1> QED
  BY <1>1, <1>2, <1>3 DEF View

LEMMA RolledKeeps ==
  ASSUME AuditShape, \A c \in Chains : ChainInv(c), NEW t \in Txns, Rolled(t),
         disk' = disk, tampered' = tampered
  PROVE  AuditShape' /\ \A c \in Chains : ChainInv(c)'
<1>1. /\ \A u \in Txns : held'[u] = IF u = t THEN {} ELSE held[u]
      /\ \A u \in Txns : work'[u] = IF u = t THEN [c \in Chains |-> EmptyTable] ELSE work[u]
      /\ \A u \in Txns : loaded'[u] = IF u = t THEN [c \in Chains |-> NoHead] ELSE loaded[u]
  BY DEF AuditShape, Rolled
<1>2. AuditShape'
  <2>1. DOMAIN work' = Txns /\ DOMAIN loaded' = Txns /\ held' \in [Txns -> SUBSET Chains]
    BY DEF AuditShape, Rolled
  <2>2. \A u, v \in Txns : u # v => held'[u] \cap held'[v] = {}
    BY <1>1 DEF AuditShape
  <2> QED
    BY <1>1, <2>1, <2>2 DEF AuditShape
<1>3. ASSUME NEW c \in Chains PROVE ChainInv(c)'
  <2>1. \A u \in Txns : \/ View(u, c)' = View(u, c) /\ loaded'[u][c] = loaded[u][c]
                        \/ View(u, c)' = disk[c] /\ loaded'[u][c] = NoHead
    BY <1>1 DEF View
  <2> QED
    BY <2>1, ChainRests
<1> QED
  BY <1>2, <1>3

LEMMA TrueHead ==
  ASSUME NEW T, Sound(T), T.head.seq > 0
  PROVE  T.head.seq = Len(T.rows) /\ T.head.seq \in 1..Len(T.rows) /\ T.head.hash = T.rows[T.head.seq].hash
<1>1. Len(T.rows) \in Nat /\ T.head.seq = Len(T.rows) /\ T.rows # << >>
  BY EmptyOrNot, ShapedLists DEF Sound, Linked
<1> QED
  BY <1>1 DEF Sound, Linked

\* The head an append works with when the session has read l of the table A,
\* which is T with its genesis.
HeadFor(A, T, l) == IF A.head.seq = 0 THEN T.head ELSE IF l # NoHead THEN l ELSE A.head

\* What an append finds of a chain that nobody tampered with, once it has its
\* genesis: a head that is one of its events.
LEMMA AppendStarts ==
  ASSUME NEW D, NEW A, Shaped(D), Sound(A), Extends(D, A), NEW l, HeadKnown(l, A),
         NEW T, T = WithGenesis(A),
         NEW h, h = HeadFor(A, T, l)
  PROVE  /\ Sound(T) /\ T.head.seq > 0 /\ Extends(D, T) /\ HeadKnown(h, T)
         /\ h.seq \in 1..Len(T.rows) /\ h.hash = T.rows[h.seq].hash
<1>1. Shaped(A) /\ Len(A.rows) \in Nat /\ A.head.seq = Len(A.rows)
  BY EmptyOrNot, ShapedLists DEF Sound, Linked
<1>2. Sound(T) /\ T.head.seq > 0 /\ Extends(A, T) /\ Shaped(T) /\ (A.head.seq > 0 => T = A)
  BY <1>1, GenesisSound, GenesisShape DEF Sound
<1>3. Extends(D, T)
  BY <1>1, <1>2, ExtendsMore
<1>5. h.seq \in 1..Len(T.rows) /\ h.hash = T.rows[h.seq].hash
  <2>1. CASE A.head.seq = 0
    BY <1>2, <2>1, TrueHead DEF HeadFor
  <2>2. CASE A.head.seq # 0 /\ l # NoHead
    BY <1>1, <1>2, <2>2 DEF HeadKnown, HeadFor
  <2>3. CASE A.head.seq # 0 /\ l = NoHead
    <3>1. A.head.seq > 0 /\ h = A.head /\ T = A
      BY <1>1, <1>2, <2>3 DEF HeadFor
    <3> QED
      BY <3>1, TrueHead
  <2> QED
    BY <2>1, <2>2, <2>3
<1>6. HeadKnown(h, T)
  BY <1>5 DEF HeadKnown
<1> QED
  BY <1>2, <1>3, <1>5, <1>6

\* The row of a stale head's successor exists, so what the unique sequence
\* number lets through is written behind the true head.
LEMMA AppendSound ==
  ASSUME NEW D, NEW T, Shaped(D), Sound(T), T.head.seq > 0, Extends(D, T),
         NEW h, h.seq \in 1..Len(T.rows), h.hash = T.rows[h.seq].hash,
         NEW key, NEW type, NEW actor, NEW r, actor # "FORGED", \A n : key # <<"checkpoint", n>>,
         WithKey(T, key) = {}, SequenceFree(T, h.seq + 1),
         NEW U, U = Inserted(T, h, key, Semantic(type, actor, r))
  PROVE  /\ Sound(U) /\ Extends(D, U) /\ HeadKnown(U.head, U)
         /\ Sound(Checkpointed(U)) /\ Extends(D, Checkpointed(U)) /\ HeadKnown(Checkpointed(U).head, Checkpointed(U))
<1>1. Shaped(T) /\ Len(T.rows) \in Nat
  BY EmptyOrNot, ShapedLists DEF Sound
<1>2. h.seq = Len(T.rows)
  <2> SUFFICES ASSUME h.seq # Len(T.rows) PROVE FALSE
    OBVIOUS
  <2>1. h.seq + 1 \in 1..Len(T.rows)
    BY <1>1
  <2>2. T.rows[h.seq + 1].seq = h.seq + 1
    BY <2>1 DEF Sound, Linked
  <2> QED
    BY <2>1, <2>2 DEF SequenceFree
<1>3. h.seq = T.head.seq /\ h.hash = T.head.hash
  BY <1>2, TrueHead
<1>4. key = NoKey \/ \A i \in 1..Len(T.rows) : T.rows[i].key # key
  BY DEF WithKey
<1>5. /\ Sound(U) /\ Extends(T, U) /\ U.head.seq > 0
      /\ Sound(Checkpointed(U)) /\ Extends(T, Checkpointed(U)) /\ Checkpointed(U).head.seq > 0
  BY <1>3, <1>4, EventSound
<1>6. Shaped(U) /\ Shaped(Checkpointed(U))
  BY <1>5 DEF Sound
<1>7. Extends(D, U) /\ Extends(D, Checkpointed(U))
  BY <1>1, <1>5, <1>6, ExtendsMore
<1>8. HeadKnown(U.head, U) /\ HeadKnown(Checkpointed(U).head, Checkpointed(U))
  BY <1>5, TrueHead DEF HeadKnown
<1> QED
  BY <1>5, <1>7, <1>8

\* What an append leaves of a chain that shows tampering: it still shows it.
LEMMA AppendTraced ==
  ASSUME NEW D, NEW A, Shaped(D), Shaped(A), NEW l, Broken(A) \/ (A = D /\ Cut(D) /\ Off(l, D)),
         NEW T, T = WithGenesis(A),
         NEW h, h = HeadFor(A, T, l)
  PROVE  /\ Shaped(T) /\ (Broken(T) \/ (T = D /\ Cut(D) /\ Off(h, D)))
         /\ \A key, sem :
              LET U == Inserted(T, h, key, sem) IN \A V \in {U, Checkpointed(U)} : Shaped(V) /\ Broken(V)
<1>1. Shaped(T) /\ Extends(A, T) /\ (A.head.seq > 0 => T = A)
  BY GenesisShape
<1>2. Len(D.rows) \in Nat
  BY EmptyOrNot, ShapedLists
<1>3. CASE Broken(A)
  <2>1. Broken(T)
    BY <1>1, <1>3, BrokenStays
  <2>2. ASSUME NEW key, NEW sem, NEW U, U = Inserted(T, h, key, sem)
        PROVE  Shaped(U) /\ Broken(U) /\ Shaped(Checkpointed(U)) /\ Broken(Checkpointed(U))
    <3>1. Shaped(U) /\ Extends(T, U)
      BY <1>1, <2>2, InsertedShape DEF Appended
    <3>2. Broken(U)
      BY <1>1, <2>1, <3>1, BrokenStays
    <3>3. Shaped(Checkpointed(U)) /\ Extends(U, Checkpointed(U))
      BY <3>1, CheckpointedShape
    <3> QED
      BY <3>1, <3>2, <3>3, BrokenStays
  <2> QED
    BY <1>1, <2>1, <2>2
<1>4. CASE A = D /\ Cut(D) /\ Off(l, D)
  <2>1. D.head.seq = Len(D.rows) + 1
    BY <1>4 DEF Cut
  <2>2. T = D /\ A.head.seq # 0
    BY <1>1, <1>2, <1>4, <2>1
  <2>3. h.seq \in Nat /\ h.seq # Len(D.rows)
    BY <1>2, <1>4, <2>1, <2>2 DEF Off, HeadFor
  <2>4. ASSUME NEW key, NEW sem, NEW U, U = Inserted(T, h, key, sem)
        PROVE  Shaped(U) /\ Broken(U) /\ Shaped(Checkpointed(U)) /\ Broken(Checkpointed(U))
    <3>1. PICK e : e = Event(h.seq + 1, key, sem, h.hash)
      OBVIOUS
    <3>2. Appended(T, h, U, e)
      BY <1>1, <2>4, <3>1, InsertedShape
    <3>3. Shaped(U) /\ Len(U.rows) = Len(D.rows) + 1 /\ U.rows[Len(D.rows) + 1] = e
      BY <2>2, <3>2 DEF Appended
    <3>4. e.seq = h.seq + 1
      BY <3>1 DEF Event
    <3>5. e.seq # Len(D.rows) + 1 /\ Len(D.rows) + 1 \in 1..Len(U.rows)
      BY <1>2, <2>3, <3>3, <3>4
    <3>6. Broken(U)
      BY <3>3, <3>5 DEF Broken
    <3>7. Shaped(Checkpointed(U)) /\ Extends(U, Checkpointed(U))
      BY <3>3, CheckpointedShape
    <3> QED
      BY <3>3, <3>6, <3>7, BrokenStays
  <2>5. Off(h, D)
    BY <2>3 DEF Off
  <2> QED
    BY <1>1, <1>4, <2>2, <2>4, <2>5
<1> QED
  BY <1>3, <1>4

\* An append, whatever it finds: converging, refused or written.
LEMMA AppendKeeps ==
  ASSUME AuditShape, \A d \in Chains : ChainInv(d), NEW t \in Txns, NEW c \in Chains, LockFree(t, c),
         NEW key, \A n : key # <<"checkpoint", n>>, NEW type, NEW actor, actor # "FORGED", NEW r,
         NEW checkpoints, AppendLocked(t, c, key, Semantic(type, actor, r), checkpoints),
         disk' = disk, tampered' = tampered
  PROVE  AuditShape' /\ \A d \in Chains : ChainInv(d)'
<1>1. PICK A, T, l : A = View(t, c) /\ T = WithGenesis(A) /\ l = loaded[t][c]
  OBVIOUS
<1>2. PICK h : h = HeadFor(A, T, l)
  OBVIOUS
<1>3. PICK sem, U : sem = Semantic(type, actor, r) /\ U = Inserted(T, h, key, sem)
  OBVIOUS
<1>4. (IF View(t, c).head.seq = 0 THEN T.head ELSE HeadOf(t, c)) = h
  BY <1>1, <1>2 DEF HeadOf, HeadFor
<1>5. \/ Rolled(t)
      \/ Flushed(t, c, T, h)
      \/ /\ WithKey(T, key) = {} /\ SequenceFree(T, h.seq + 1)
         /\ \E V \in {U, Checkpointed(U)} : Flushed(t, c, V, V.head)
  <2>1. AppendLocked(t, c, key, sem, checkpoints)
    BY <1>3
  <2>2. WithGenesis(View(t, c)) = T
    BY <1>1
  <2>3. \/ Rolled(t)
        \/ Flushed(t, c, T, h)
        \/ /\ WithKey(T, key) = {} /\ SequenceFree(T, h.seq + 1)
           /\ Flushed(t, c, IF checkpoints THEN Checkpointed(U) ELSE U,
                      (IF checkpoints THEN Checkpointed(U) ELSE U).head)
    BY <1>3, <1>4, <2>1, <2>2, Zenon DEF AppendLocked, Flushed
  <2> QED
    BY <2>3
<1>6. CASE Rolled(t)
  BY <1>6, RolledKeeps
<1>7. ASSUME NEW V, NEW g, Flushed(t, c, V, g),
             tampered[c] = "NO" => Sound(V) /\ Extends(disk[c], V) /\ HeadKnown(g, V),
             tampered[c] = "TRACED" => Shaped(V) /\ (Broken(V) \/ (V = disk[c] /\ Cut(disk[c]) /\ Off(g, disk[c])))
      PROVE  AuditShape' /\ \A d \in Chains : ChainInv(d)'
  <2>1. /\ AuditShape' /\ View(t, c)' = V /\ loaded'[t][c] = g
        /\ \A u \in Txns, d \in Chains :
             u # t \/ d # c => View(u, d)' = View(u, d) /\ loaded'[u][d] = loaded[u][d]
    BY <1>7, FlushedReads
  <2>2. ChainInv(c)'
    BY <1>7, <2>1, ChainMoves
  <2>3. ASSUME NEW d \in Chains \ {c} PROVE ChainInv(d)'
    <3>1. \A u \in Txns : View(u, d)' = View(u, d) /\ loaded'[u][d] = loaded[u][d]
      BY <2>1
    <3> QED
      BY <3>1, ChainRests
  <2> QED
    BY <2>1, <2>2, <2>3
<1>8. ASSUME tampered[c] = "NO"
      PROVE  /\ Sound(T) /\ Extends(disk[c], T) /\ HeadKnown(h, T)
             /\ WithKey(T, key) = {} /\ SequenceFree(T, h.seq + 1)
                => \A V \in {U, Checkpointed(U)} : Sound(V) /\ Extends(disk[c], V) /\ HeadKnown(V.head, V)
  <2>1. Shaped(disk[c]) /\ Sound(A) /\ Extends(disk[c], A) /\ HeadKnown(l, A)
    BY <1>1, <1>8 DEF ChainInv, ChainOK, Sound
  <2>2. PICK D : D = disk[c]
    OBVIOUS
  <2>3. Shaped(D) /\ Sound(A) /\ Extends(D, A) /\ HeadKnown(l, A) /\ T = WithGenesis(A)
    BY <1>1, <2>1, <2>2
  <2>4. /\ Sound(T) /\ T.head.seq > 0 /\ Extends(D, T) /\ HeadKnown(h, T)
        /\ h.seq \in 1..Len(T.rows) /\ h.hash = T.rows[h.seq].hash
    BY <1>2, <2>3, AppendStarts
  <2>5. ASSUME WithKey(T, key) = {}, SequenceFree(T, h.seq + 1)
        PROVE  \A V \in {U, Checkpointed(U)} : Sound(V) /\ Extends(D, V) /\ HeadKnown(V.head, V)
    <3>1. U = Inserted(T, h, key, Semantic(type, actor, r))
      BY <1>3
    <3>2. /\ Sound(U) /\ Extends(D, U) /\ HeadKnown(U.head, U)
          /\ Sound(Checkpointed(U)) /\ Extends(D, Checkpointed(U)) /\ HeadKnown(Checkpointed(U).head, Checkpointed(U))
      BY <2>3, <2>4, <2>5, <3>1, AppendSound
    <3> QED
      BY <3>2
  <2> QED
    BY <2>2, <2>4, <2>5
<1>9. ASSUME tampered[c] = "TRACED"
      PROVE  /\ Shaped(T) /\ (Broken(T) \/ (T = disk[c] /\ Cut(disk[c]) /\ Off(h, disk[c])))
             /\ \A V \in {U, Checkpointed(U)} : Shaped(V) /\ Broken(V)
  <2>1. Shaped(disk[c]) /\ Shaped(A) /\ (Broken(A) \/ (A = disk[c] /\ Cut(disk[c]) /\ Off(l, disk[c])))
    BY <1>1, <1>9 DEF ChainInv, TracedOK
  <2>2. PICK D : D = disk[c]
    OBVIOUS
  <2> QED
    BY <1>1, <1>2, <1>3, <2>1, <2>2, AppendTraced
<1>10. CASE Flushed(t, c, T, h)
  BY <1>7, <1>8, <1>9, <1>10
<1>11. ASSUME WithKey(T, key) = {}, SequenceFree(T, h.seq + 1),
              NEW V \in {U, Checkpointed(U)}, Flushed(t, c, V, V.head)
       PROVE  AuditShape' /\ \A d \in Chains : ChainInv(d)'
  BY <1>7, <1>8, <1>9, <1>11
<1> QED
  BY <1>5, <1>6, <1>10, <1>11

LEMMA PeekKeeps ==
  ASSUME AuditShape, \A d \in Chains : ChainInv(d), NEW t \in Txns, NEW c \in Chains, Peek(t, c)
  PROVE  AuditShape' /\ \A d \in Chains : ChainInv(d)'
<1>1. /\ disk' = disk /\ work' = work /\ held' = held /\ tampered' = tampered
      /\ loaded' = [loaded EXCEPT ![t][c] = View(t, c).head]
      /\ disk[c].head.seq > 0 /\ loaded[t][c] = NoHead
  BY DEF Peek
<1>2. AuditShape'
  BY <1>1 DEF AuditShape
<1>3. \A u \in Txns, d \in Chains : View(u, d)' = View(u, d)
  BY <1>1 DEF View
<1>4. \A u \in Txns, d \in Chains :
        loaded'[u][d] = IF u = t /\ d = c THEN View(t, c).head ELSE loaded[u][d]
  BY <1>1 DEF AuditShape
<1>5. ASSUME NEW d \in Chains \ {c} PROVE ChainInv(d)'
  <2>1. \A u \in Txns : View(u, d)' = View(u, d) /\ loaded'[u][d] = loaded[u][d]
    BY <1>3, <1>4
  <2> QED
    BY <1>1, <2>1, ChainRests
<1>6. PICK V, g : V = View(t, c) /\ g = V.head
  OBVIOUS
<1>7. ASSUME tampered[c] = "NO" PROVE Sound(V) /\ Extends(disk[c], V) /\ HeadKnown(g, V)
  <2>1. Sound(V) /\ Extends(disk[c], V) /\ Sound(disk[c])
    BY <1>6, <1>7 DEF ChainInv, ChainOK
  <2>2. Len(V.rows) \in Nat /\ Len(disk[c].rows) \in Nat
    BY <2>1, EmptyOrNot, ShapedLists DEF Sound
  <2>3. V.head.seq > 0
    BY <1>1, <2>1, <2>2 DEF Extends, Sound, Linked
  <2> QED
    BY <1>6, <2>1, <2>3, TrueHead DEF HeadKnown
<1>8. ASSUME tampered[c] = "TRACED"
      PROVE  Shaped(V) /\ (Broken(V) \/ (V = disk[c] /\ Cut(disk[c]) /\ Off(g, disk[c])))
  <2>1. Shaped(disk[c]) /\ Shaped(V) /\ (Broken(V) \/ (V = disk[c] /\ Cut(disk[c])))
    BY <1>6, <1>8 DEF ChainInv, TracedOK
  <2>2. Len(disk[c].rows) \in Nat
    BY <2>1, EmptyOrNot, ShapedLists
  <2>3. ASSUME V = disk[c], Cut(disk[c]) PROVE Off(g, disk[c])
    BY <1>6, <2>2, <2>3 DEF Cut, Off
  <2> QED
    BY <2>1, <2>3
<1>9. ChainInv(c)'
  <2>1. View(t, c)' = V /\ loaded'[t][c] = g
    BY <1>3, <1>4, <1>6
  <2>2. \A u \in Txns \ {t} : View(u, c)' = View(u, c) /\ loaded'[u][c] = loaded[u][c]
    BY <1>3, <1>4
  <2> QED
    BY <1>1, <1>7, <1>8, <2>1, <2>2, ChainMoves
<1> QED
  BY <1>2, <1>5, <1>9

LEMMA CommitKeeps ==
  ASSUME AuditShape, \A d \in Chains : ChainInv(d), NEW t \in Txns, Commit(t)
  PROVE  AuditShape' /\ \A d \in Chains : ChainInv(d)'
<1>1. /\ disk' = [c \in Chains |-> IF c \in held[t] THEN work[t][c] ELSE disk[c]]
      /\ tampered' = tampered /\ Rolled(t)
  BY DEF Commit
<1>2. /\ \A u \in Txns : held'[u] = IF u = t THEN {} ELSE held[u]
      /\ \A u \in Txns : work'[u] = IF u = t THEN [c \in Chains |-> EmptyTable] ELSE work[u]
      /\ \A u \in Txns : loaded'[u] = IF u = t THEN [c \in Chains |-> NoHead] ELSE loaded[u]
  BY <1>1 DEF AuditShape, Rolled
<1>3. AuditShape'
  <2>1. DOMAIN disk' = Chains /\ DOMAIN work' = Txns /\ DOMAIN loaded' = Txns /\ held' \in [Txns -> SUBSET Chains]
    BY <1>1 DEF AuditShape, Rolled
  <2>2. \A u, v \in Txns : u # v => held'[u] \cap held'[v] = {}
    BY <1>2 DEF AuditShape
  <2> QED
    BY <1>1, <1>2, <2>1, <2>2 DEF AuditShape
<1>4. ASSUME NEW c \in Chains, c \notin held[t] PROVE ChainInv(c)'
  <2>1. disk'[c] = disk[c]
    BY <1>1, <1>4
  <2>2. \A u \in Txns : \/ View(u, c)' = View(u, c) /\ loaded'[u][c] = loaded[u][c]
                        \/ View(u, c)' = disk[c] /\ loaded'[u][c] = NoHead
    BY <1>2, <2>1 DEF View
  <2> QED
    BY <1>1, <2>1, <2>2, ChainRests
<1>5. ASSUME NEW c \in Chains, c \in held[t] PROVE ChainInv(c)'
  <2>1. PICK V : V = View(t, c)
    OBVIOUS
  <2>2. disk'[c] = V /\ V = work[t][c]
    BY <1>1, <1>5, <2>1 DEF View
  <2>3. \A u \in Txns \ {t} : c \notin held[u] /\ View(u, c) = disk[c]
    BY <1>5 DEF AuditShape, View
  <2>4. \A u \in Txns : View(u, c)' = V
    BY <1>2, <2>2, <2>3 DEF View
  <2>5. \A u \in Txns : loaded'[u][c] = IF u = t THEN NoHead ELSE loaded[u][c]
    BY <1>2
  <2>6. ASSUME tampered[c] = "NO" PROVE ChainOK(c)'
    <3>1. Sound(V) /\ Extends(V, V) /\ Extends(disk[c], V) /\ Shaped(disk[c]) /\ Shaped(V)
      BY <2>1, <2>6, SelfExtends DEF ChainInv, ChainOK, Sound
    <3>2. Len(V.rows) \in Nat /\ Len(disk[c].rows) \in Nat
      BY <3>1, EmptyOrNot, ShapedLists
    <3>3. ASSUME NEW u \in Txns PROVE HeadKnown(loaded'[u][c], V)
      <4>1. u = t \/ HeadKnown(loaded[u][c], disk[c])
        BY <2>3, <2>6 DEF ChainInv, ChainOK
      <4>2. CASE loaded'[u][c] = NoHead
        BY <4>2 DEF HeadKnown
      <4>3. CASE loaded'[u][c] # NoHead
        <5>1. PICK g : g = loaded'[u][c] /\ g = loaded[u][c] /\ HeadKnown(g, disk[c])
          BY <2>5, <4>1, <4>3
        <5>2. g.seq \in 1..Len(disk[c].rows) /\ g.hash = disk[c].rows[g.seq].hash
          BY <4>3, <5>1 DEF HeadKnown
        <5>3. g.seq \in 1..Len(V.rows) /\ g.hash = V.rows[g.seq].hash
          BY <3>1, <3>2, <5>2 DEF Extends
        <5> QED
          BY <5>1, <5>3 DEF HeadKnown
      <4> QED
        BY <4>2, <4>3
    <3> QED
      BY <2>2, <2>4, <3>1, <3>3 DEF ChainOK
  <2>7. ASSUME tampered[c] = "TRACED" PROVE TracedOK(c)'
    <3>1. Shaped(V) /\ (Broken(V) \/ (V = disk[c] /\ Cut(V)))
      BY <2>1, <2>7 DEF ChainInv, TracedOK
    <3>2. ASSUME NEW u \in Txns PROVE Broken(V) \/ (Cut(V) /\ Off(loaded'[u][c], V))
      <4>1. ASSUME ~Broken(V), u # t PROVE Off(loaded[u][c], V)
        BY <2>3, <2>7, <3>1, <4>1 DEF ChainInv, TracedOK
      <4> QED
        BY <2>5, <3>1, <4>1 DEF Off
    <3> QED
      BY <2>2, <2>4, <3>1, <3>2 DEF TracedOK
  <2> QED
    BY <1>1, <2>6, <2>7 DEF ChainInv
<1> QED
  BY <1>3, <1>4, <1>5

\* A forged event's hash is not the one of what it now says.
LEMMA ForgedIsBroken ==
  ASSUME NEW T, Sound(T), NEW i \in 1..Len(T.rows), NEW x, x = [T.rows[i] EXCEPT !.sem.actor = "FORGED"],
         NEW U, U = [T EXCEPT !.rows = [T.rows EXCEPT ![i] = x]]
  PROVE  Shaped(U) /\ Broken(U) /\ U.head = T.head
<1>1. PICK e, s : e = T.rows[i] /\ s = e.sem
  OBVIOUS
<1>2. /\ e = Event(i, e.key, e.sem, e.prev) /\ IsSeq(e.prev)
      /\ s = Semantic(s.type, s.actor, s.role) /\ s.actor # "FORGED"
  BY <1>1 DEF Sound, Written
<1>3. PICK f : f = [s EXCEPT !.actor = "FORGED"]
  OBVIOUS
<1>4. f # s
  <2>1. s \in [type : {s.type}, actor : {s.actor}, role : {s.role}]
    BY <1>2 DEF Semantic
  <2>2. f.actor = "FORGED"
    BY <1>3, <2>1
  <2> QED
    BY <1>2, <2>2
<1>5. /\ e.seq = i /\ e.hash = Append(e.prev, <<i, e.key, s>>)
      /\ e \in [seq : {i}, key : {e.key}, sem : {s}, prev : {e.prev}, hash : {e.hash}]
  BY <1>1, <1>2 DEF Event, EventHash
<1>6. x = [e EXCEPT !.sem = f]
  BY <1>1, <1>3
<1>7. x.seq = i /\ x.key = e.key /\ x.sem = f /\ x.prev = e.prev /\ x.hash = e.hash
  BY <1>5, <1>6
<1>8. PICK y, z : y = <<i, e.key, s>> /\ z = <<i, e.key, f>>
  OBVIOUS
<1>9. y # z
  BY <1>4, <1>8
<1>10. Append(e.prev, y) # Append(e.prev, z)
  <2>1. Append(e.prev, y)[Len(e.prev) + 1] = y /\ Append(e.prev, z)[Len(e.prev) + 1] = z
    BY <1>2, AppendFacts
  <2> QED
    BY <1>9, <2>1
<1>11. x.hash # EventHash(x.seq, x.key, x.sem, x.prev)
  BY <1>5, <1>7, <1>8, <1>10 DEF EventHash
<1>12. PICK Q, H, S, C : T \in [head : [seq : Q, hash : H], rows : Seq(S), cps : Seq(C)]
  BY DEF Sound, Shaped
<1>13. PICK R, P : R = S \cup {x} /\ P = [T.rows EXCEPT ![i] = x]
  OBVIOUS
<1>14. P \in Seq(R) /\ Len(P) = Len(T.rows) /\ P[i] = x
  <2>1. T.rows \in Seq(R) /\ x \in R
    BY <1>12, <1>13
  <2>2. PICK q : q = T.rows
    OBVIOUS
  <2>3. Len(q) \in Nat /\ q \in [1..Len(q) -> R] /\ i \in 1..Len(q)
    BY <2>1, <2>2, LenProperties
  <2>4. P \in [1..Len(q) -> R] /\ P[i] = x
    BY <1>13, <2>1, <2>2, <2>3
  <2>5. P \in Seq(R)
    BY <2>3, <2>4, SeqDef
  <2>6. Len(P) = Len(q)
    BY <2>3, <2>4, <2>5, LenProperties
  <2> QED
    BY <2>2, <2>4, <2>5, <2>6
<1>15. U = [T EXCEPT !.rows = P]
  BY <1>13
<1>16. /\ U.rows = P /\ U.head = T.head
       /\ U \in [head : [seq : Q, hash : H], rows : Seq(R), cps : Seq(C)]
  BY <1>12, <1>14, <1>15
<1>17. Shaped(U)
  BY <1>16 DEF Shaped
<1>18. Broken(U)
  <2>1. i \in 1..Len(U.rows) /\ U.rows[i] = x
    BY <1>14, <1>16
  <2> QED
    BY <1>11, <2>1 DEF Broken
<1> QED
  BY <1>16, <1>17, <1>18

LEMMA RemovedIsCut ==
  ASSUME NEW T, Sound(T), NEW n, n = Len(T.rows), n > 0,
         NEW U, U = [T EXCEPT !.rows = SubSeq(T.rows, 1, n - 1)]
  PROVE  Shaped(U) /\ Cut(U) /\ Len(U.rows) = n - 1
<1>1. PICK Q, H, S, C : T \in [head : [seq : Q, hash : H], rows : Seq(S), cps : Seq(C)]
  BY DEF Sound, Shaped
<1>2. PICK q, P : q = T.rows /\ P = SubSeq(q, 1, n - 1)
  OBVIOUS
<1>3. q \in Seq(S) /\ n \in Nat /\ n = Len(q)
  BY <1>1, <1>2
<1>4. P \in Seq(S) /\ Len(P) = n - 1 /\ \A i \in 1..n-1 : P[i] = q[i]
  <2>1. 1 \in 1..n+1 /\ n - 1 \in 0..n /\ n - 1 \in Int
    BY <1>3
  <2>2. \A i \in 1..n-1 : i \in 1..n /\ q[i] \in S
    BY <1>3
  <2>3. P \in Seq(S) /\ Len(P) = n - 1
    BY <1>2, <1>3
  <2>4. \A i \in 1..n-1 : P[i] = q[i]
    BY <1>2, <1>3
  <2> QED
    BY <2>3, <2>4
<1>5. U = [T EXCEPT !.rows = P]
  BY <1>2
<1>6. /\ U.rows = P /\ U.head = T.head
      /\ U \in [head : [seq : Q, hash : H], rows : Seq(S), cps : Seq(C)]
  BY <1>1, <1>4, <1>5
<1>7. T.head.seq = n /\ \A i \in 1..n : q[i].seq = i
  BY <1>2 DEF Sound, Linked
<1>8. Cut(U)
  <2>1. U.head.seq = Len(U.rows) + 1
    BY <1>3, <1>4, <1>6, <1>7
  <2>2. \A i \in 1..Len(U.rows) : U.rows[i].seq = i
    BY <1>3, <1>4, <1>6, <1>7
  <2> QED
    BY <2>1, <2>2 DEF Cut
<1> QED
  BY <1>4, <1>6, <1>8 DEF Shaped

LEMMA TamperKeeps ==
  ASSUME AuditShape, \A d \in Chains : ChainInv(d), NEW c \in Chains, Tamper(c)
  PROVE  /\ AuditShape' /\ (\A d \in Chains : ChainInv(d)')
         /\ \A d \in Chains : tampered[d] = "NO" /\ (d # c => disk'[d] = disk[d] /\ tampered'[d] = "NO")
         /\ tampered'[c] # "NO"
<1>0. PICK n, T : n = Len(disk[c].rows) /\ T = disk[c]
  OBVIOUS
<1>1. PICK hides \in BOOLEAN : hides <=> \E t \in Txns : loaded[t][c] # NoHead /\ loaded[t][c].seq = n - 1
  OBVIOUS
<1>2. /\ \A d \in Chains : tampered[d] = "NO"
      /\ n > 0 /\ \A t \in Txns : c \notin held[t]
      /\ work' = work /\ held' = held /\ loaded' = loaded
  BY <1>0 DEF Tamper
<1>3. \/ /\ \E i \in 1..n : disk' = [disk EXCEPT ![c].rows[i].sem.actor = "FORGED"]
         /\ tampered' = [tampered EXCEPT ![c] = "TRACED"]
      \/ /\ disk' = [disk EXCEPT ![c].rows = SubSeq(@, 1, n - 1)]
         /\ tampered' = [tampered EXCEPT ![c] = IF hides THEN "HIDDEN" ELSE "TRACED"]
  BY <1>0, <1>1 DEF Tamper
<1>4. AuditShape'
  <2>1. DOMAIN disk' = Chains
    BY <1>3 DEF AuditShape
  <2>2. tampered' \in [Chains -> {"NO", "TRACED", "HIDDEN"}]
    BY <1>3 DEF AuditShape
  <2> QED
    BY <1>2, <2>1, <2>2 DEF AuditShape
<1>5. \A d \in Chains \ {c} : disk'[d] = disk[d] /\ tampered'[d] = tampered[d]
  BY <1>3 DEF AuditShape
<1>6. ASSUME NEW d \in Chains \ {c} PROVE ChainInv(d)'
  <2>1. \A t \in Txns : View(t, d)' = View(t, d) /\ loaded'[t][d] = loaded[t][d]
    BY <1>2, <1>5 DEF View
  <2> QED
    BY <1>5, <2>1, ChainRests
<1>7. Sound(T) /\ \A t \in Txns : HeadKnown(loaded[t][c], T) /\ View(t, c)' = disk'[c]
  BY <1>0, <1>2 DEF ChainInv, ChainOK, View
<1>8. tampered'[c] # "NO"
  BY <1>3 DEF AuditShape
<1>9. ASSUME NEW i \in 1..n, disk' = [disk EXCEPT ![c].rows[i].sem.actor = "FORGED"]
      PROVE  TracedOK(c)'
  <2>1. PICK x, U : x = [T.rows[i] EXCEPT !.sem.actor = "FORGED"] /\ U = [T EXCEPT !.rows = [T.rows EXCEPT ![i] = x]]
    OBVIOUS
  <2>2. disk'[c] = U
    BY <1>0, <1>9, <2>1 DEF AuditShape
  <2>3. Shaped(U) /\ Broken(U)
    BY <1>0, <1>7, <2>1, ForgedIsBroken
  <2> QED
    BY <1>7, <2>2, <2>3 DEF TracedOK
<1>10. ASSUME disk' = [disk EXCEPT ![c].rows = SubSeq(@, 1, n - 1)], ~hides
       PROVE  TracedOK(c)'
  <2>1. PICK U : U = [T EXCEPT !.rows = SubSeq(T.rows, 1, n - 1)]
    OBVIOUS
  <2>2. disk'[c] = U
    BY <1>0, <1>10, <2>1 DEF AuditShape
  <2>3. Shaped(U) /\ Cut(U) /\ Len(U.rows) = n - 1
    <3>1. Sound(T) /\ n = Len(T.rows) /\ n > 0
      BY <1>0, <1>2, <1>7
    <3> QED
      BY <2>1, <3>1, RemovedIsCut
  <2>4. n \in Nat
    BY <1>0, <1>7, EmptyOrNot, ShapedLists DEF Sound
  <2>5. ASSUME NEW t \in Txns PROVE Off(loaded'[t][c], U)
    <3>1. loaded[t][c] = NoHead \/ (loaded[t][c].seq \in 1..n /\ loaded[t][c].seq # n - 1)
      BY <1>0, <1>1, <1>7, <1>10 DEF HeadKnown
    <3> QED
      BY <1>2, <2>3, <2>4, <3>1 DEF Off
  <2> QED
    BY <1>7, <2>2, <2>3, <2>5 DEF TracedOK
<1>11. ChainInv(c)'
  BY <1>1, <1>3, <1>8, <1>9, <1>10 DEF ChainInv, AuditShape
<1> QED
  BY <1>2, <1>4, <1>5, <1>6, <1>8, <1>11

----------------------------------------------------------------------------

(* The chains of the specification                                         *)

AuditInv == AuditShape /\ \A c \in Chains : ChainInv(c)

LEMMA AuditStarts == AuditInit => AuditInv
<1> SUFFICES ASSUME AuditInit PROVE AuditInv
  OBVIOUS
<1>1. Sound(EmptyTable)
  <2>1. PICK T : T = EmptyTable
    OBVIOUS
  <2>2. PICK e : e = << >> /\ e \in Seq({})
    <3>1. << >> \in Seq({})
      OBVIOUS
    <3> QED
      BY <3>1, Zenon
  <2>3. T = [head |-> [seq |-> 0, hash |-> e], rows |-> e, cps |-> e]
    BY <2>1, <2>2 DEF EmptyTable, ZeroHash
  <2>4. T.rows = e /\ T.cps = e /\ T.head.seq = 0 /\ T.head.hash = e /\ Len(e) = 0
    BY <2>2, <2>3
  <2>5. T \in [head : [seq : {0}, hash : {e}], rows : Seq({}), cps : Seq({})]
    BY <2>2, <2>3
  <2>6. Shaped(T)
    BY <2>5 DEF Shaped
  <2>7. 1..0 = {} /\ 2..0 = {}
    OBVIOUS
  <2>8. Linked(T) /\ KeysDistinct(T) /\ Anchored(T) /\ \A i \in 1..Len(T.rows) : Written(T.rows[i], i)
    BY <2>2, <2>4, <2>7 DEF Linked, KeysDistinct, Anchored, CheckpointsVerified, ZeroHash
  <2> QED
    BY <2>1, <2>6, <2>8 DEF Sound
<1>2. AuditShape
  BY DEF AuditInit, AuditShape
<1>3. ASSUME NEW c \in Chains PROVE ChainInv(c)
  <2>1. disk[c] = EmptyTable /\ tampered[c] = "NO"
    BY DEF AuditInit
  <2>2. \A t \in Txns : View(t, c) = EmptyTable /\ loaded[t][c] = NoHead
    BY <2>1 DEF AuditInit, View
  <2>3. Extends(EmptyTable, EmptyTable)
    BY <1>1, SelfExtends DEF Sound
  <2> QED
    BY <1>1, <2>1, <2>2, <2>3 DEF ChainInv, ChainOK, HeadKnown
<1> QED
  BY <1>2, <1>3 DEF AuditInv

LEMMA AuditSteps == AuditInv /\ [AuditNext]_auditVars => AuditInv'
<1> SUFFICES ASSUME AuditInv, [AuditNext]_auditVars PROVE AuditInv'
  OBVIOUS
<1>0. AuditShape /\ \A c \in Chains : ChainInv(c)
  BY DEF AuditInv
<1>1. ASSUME disk' = disk, work' = work, held' = held, loaded' = loaded, tampered' = tampered PROVE AuditInv'
  <2>1. \A t \in Txns, c \in Chains : View(t, c)' = View(t, c) /\ loaded'[t][c] = loaded[t][c]
    BY <1>1 DEF View
  <2>2. \A c \in Chains : ChainInv(c)'
    BY <1>0, <1>1, <2>1, ChainRests
  <2>3. AuditShape'
    BY <1>0, <1>1 DEF AuditShape
  <2> QED
    BY <2>2, <2>3 DEF AuditInv
<1>2. ASSUME NEW t \in Txns, NEW c \in Chains, Peek(t, c) PROVE AuditInv'
  BY <1>0, <1>2, PeekKeeps DEF AuditInv
<1>3. ASSUME NEW t \in Txns, NEW c \in Chains, SealLegacy(t, c) PROVE AuditInv'
  <2>1. PICK key : key = <<"legacy">>
    OBVIOUS
  <2>2. \A n : key # <<"checkpoint", n>>
    BY <2>1
  <2>3. /\ LockFree(t, c) /\ disk' = disk /\ tampered' = tampered
        /\ AppendLocked(t, c, key, Semantic("LEGACY", "SYSTEM", NoRole), FALSE)
    BY <1>3, <2>1 DEF SealLegacy
  <2> QED
    BY <1>0, <2>2, <2>3, AppendKeeps DEF AuditInv
<1>4. ASSUME NEW t \in Txns, NEW c \in Chains, NEW type \in Types, NEW key \in Keys,
             NEW actor \in Def[type].actors, AppendEvent(t, c, type, actor, key)
      PROVE  AuditInv'
  <2>1. \A n : key # <<"checkpoint", n>>
    BY AuditConstants
  <2>2. actor # "FORGED"
    BY AuditConstants
  <2>3. PICK r : r = RoleSnapshot(actor, c)
    OBVIOUS
  <2>4. /\ LockFree(t, c) /\ disk' = disk /\ tampered' = tampered
        /\ AppendLocked(t, c, key, Semantic(type, actor, r), TRUE)
    BY <1>4, <2>3 DEF AppendEvent
  <2> QED
    BY <1>0, <2>1, <2>2, <2>4, AppendKeeps DEF AuditInv
<1>5. ASSUME NEW t \in Txns, Commit(t) PROVE AuditInv'
  BY <1>0, <1>5, CommitKeeps DEF AuditInv
<1>6. ASSUME NEW t \in Txns, Rollback(t) PROVE AuditInv'
  <2>1. Rolled(t) /\ disk' = disk /\ tampered' = tampered
    BY <1>6 DEF Rollback
  <2> QED
    BY <1>0, <2>1, RolledKeeps DEF AuditInv
<1>7. ASSUME NEW o \in Orgs, RoleChanges(o) PROVE AuditInv'
  BY <1>1, <1>7 DEF RoleChanges
<1>8. CASE DayPasses
  BY <1>1, <1>8 DEF DayPasses
<1>9. ASSUME NEW c \in Chains, Tamper(c) PROVE AuditInv'
  BY <1>0, <1>9, TamperKeeps DEF AuditInv
<1>10. ASSUME NEW c \in Chains, VerifyReadsHead(c) PROVE AuditInv'
  BY <1>1, <1>10 DEF VerifyReadsHead
<1>11. CASE VerifyReadsRows
  BY <1>1, <1>11 DEF VerifyReadsRows
<1>12. CASE VerifyConcludes
  BY <1>1, <1>12 DEF VerifyConcludes
<1>13. CASE ReportVerdict
  <2>0. disk' = disk /\ tampered' = tampered
    BY <1>13 DEF ReportVerdict
  <2>1. PICK key : key = <<"verification", ver.chain>>
    OBVIOUS
  <2>2. \A n : key # <<"checkpoint", n>>
    BY <2>1
  <2>3. \/ LockFree(Cli, "SYSTEM") /\ AppendLocked(Cli, "SYSTEM", key, Semantic("VERIFICATION_FAILED", "CLI_ADMIN", NoRole), TRUE)
        \/ work' = work /\ held' = held /\ loaded' = loaded
    BY <1>13, <2>1 DEF ReportVerdict
  <2>4. Cli \in Txns /\ "SYSTEM" \in Chains
    BY AuditConstants DEF Chains
  <2>5. ASSUME LockFree(Cli, "SYSTEM"),
               AppendLocked(Cli, "SYSTEM", key, Semantic("VERIFICATION_FAILED", "CLI_ADMIN", NoRole), TRUE)
        PROVE  AuditInv'
    BY <1>0, <2>0, <2>2, <2>4, <2>5, AppendKeeps DEF AuditInv
  <2>6. ASSUME work' = work, held' = held, loaded' = loaded PROVE AuditInv'
    BY <1>1, <2>0, <2>6
  <2> QED
    BY <2>3, <2>5, <2>6, Zenon
<1>14. CASE UNCHANGED auditVars
  BY <1>1, <1>14 DEF auditVars
<1> QED
  BY <1>2, <1>3, <1>4, <1>5, <1>6, <1>7, <1>8, <1>9, <1>10, <1>11, <1>12, <1>13, <1>14 DEF AuditNext

\* A chain nobody tampered with is one unbroken hash chain that ends at its head,
\* with one event per key and anchored by its checkpoints, whichever transactions
\* append, commit or roll back, also from a stale head (AuditService.append,
\* _insert_locked, _maybe_checkpoint_locked): ChainIntact of every chain.
THEOREM ChainsStayIntact == AuditSpec => []ChainIntact
<1>1. AuditInv => ChainIntact
  <2> SUFFICES ASSUME AuditInv, NEW c \in Chains, tampered[c] = "NO"
               PROVE  /\ Linked(disk[c]) /\ KeysDistinct(disk[c]) /\ Anchored(disk[c])
                      /\ \A t \in Txns : c \in held[t] => Linked(work[t][c]) /\ KeysDistinct(work[t][c])
    BY DEF ChainIntact
  <2>1. ChainOK(c)
    BY DEF AuditInv, ChainInv
  <2> QED
    BY <2>1 DEF ChainOK, Sound, View
<1> QED
  BY <1>1, AuditStarts, AuditSteps, PTL DEF AuditSpec

----------------------------------------------------------------------------

(* The verifier                                                            *)

\* The fields of the verification that runs.
VerShape ==
  \E H, R : ver \in [phase : {"idle", "head", "rows", "done"}, chain : Chains, head : H, rows : R,
                     verdict : {"NONE", "VALID", "INVALID"}, clean : BOOLEAN, raced : BOOLEAN]

\* What it has read of a chain that was tampered with before it began cannot pass.
Betrayed ==
  ~ver.clean =>
    /\ tampered[ver.chain] = "TRACED" /\ ver.verdict # "VALID"
    /\ ver.phase = "head" => Broken(disk[ver.chain])
                             \/ (Cut(disk[ver.chain]) /\ ver.head = disk[ver.chain].head)
    /\ ver.phase = "rows" => ~(RowsVerified(ver.rows, ver.head) /\ TailVerified(ver.rows, ver.head))

\* What it has read of an untouched chain that gained nothing meanwhile is the chain.
Faithful ==
  tampered[ver.chain] = "NO" /\ ~ver.raced =>
    /\ ver.phase \in {"head", "rows"} => ver.head = disk[ver.chain].head
    /\ ver.phase = "rows" => ver.rows = disk[ver.chain].rows
    /\ ver.verdict # "INVALID"

VerInv ==
  /\ VerShape /\ Betrayed /\ Faithful
  /\ ver.phase # "done" => ver.verdict = "NONE"

LEMMA IdleVerifies == (ver = Idle => VerInv) /\ (ver' = Idle => VerInv')
<1>1. Idle \in [phase : {"idle", "head", "rows", "done"}, chain : Chains, head : {NoHead}, rows : {<< >>},
                verdict : {"NONE", "VALID", "INVALID"}, clean : BOOLEAN, raced : BOOLEAN]
  BY DEF Idle, Chains
<1>2. Idle.phase = "idle" /\ Idle.verdict = "NONE" /\ Idle.clean = TRUE
  BY DEF Idle
<1>3. ASSUME ver = Idle PROVE VerInv
  <2>1. VerShape
    BY <1>1, <1>3 DEF VerShape
  <2> QED
    BY <1>2, <1>3, <2>1 DEF VerInv, Betrayed, Faithful
<1>4. ASSUME ver' = Idle PROVE VerInv'
  <2>1. VerShape'
    BY <1>1, <1>4 DEF VerShape
  <2> QED
    BY <1>2, <1>4, <2>1 DEF VerInv, Betrayed, Faithful
<1> QED
  BY <1>3, <1>4

\* A sound table passes.
LEMMA SoundVerifies ==
  ASSUME NEW T, Sound(T)
  PROVE  RowsVerified(T.rows, T.head) /\ TailVerified(T.rows, T.head) /\ CheckpointsVerified(T)
<1>1. Len(T.rows) \in Nat /\ (T.rows = << >> <=> Len(T.rows) = 0) /\ T.head.seq = Len(T.rows)
  BY EmptyOrNot, ShapedLists DEF Sound, Linked
<1>2. ASSUME NEW i \in 1..Len(T.rows)
      PROVE  /\ T.rows[i].seq = i
             /\ T.rows[i].prev = IF i = 1 THEN ZeroHash ELSE T.rows[i-1].hash
             /\ T.rows[i].hash = EventHash(T.rows[i].seq, T.rows[i].key, T.rows[i].sem, T.rows[i].prev)
             /\ i = 1 => T.rows[i].sem.type = "GENESIS"
  BY DEF Sound, Linked, Written
<1>3. RowsVerified(T.rows, T.head)
  BY <1>1, <1>2 DEF RowsVerified, Sound, Linked
<1>4. TailVerified(T.rows, T.head)
  <2>1. ASSUME T.head.seq > 0 PROVE T.rows # << >> /\ T.rows[Len(T.rows)].seq = T.head.seq
    <3>1. Len(T.rows) \in 1..Len(T.rows)
      BY <1>1, <2>1
    <3> QED
      BY <1>1, <1>2, <2>1, <3>1
  <2> QED
    BY <2>1 DEF TailVerified
<1> QED
  BY <1>3, <1>4 DEF Sound, Anchored

LEMMA BrokenFails ==
  ASSUME NEW T, Broken(T), NEW head
  PROVE  ~RowsVerified(T.rows, head)
  BY DEF Broken, RowsVerified

LEMMA CutFails ==
  ASSUME NEW T, Shaped(T), Cut(T)
  PROVE  ~TailVerified(T.rows, T.head)
<1>1. Len(T.rows) \in Nat /\ (T.rows = << >> <=> Len(T.rows) = 0)
  BY EmptyOrNot, ShapedLists
<1>2. T.head.seq = Len(T.rows) + 1 /\ \A i \in 1..Len(T.rows) : T.rows[i].seq = i
  BY DEF Cut
<1>3. T.head.seq > 0
  BY <1>1, <1>2
<1>4. ASSUME T.rows # << >> PROVE T.rows[Len(T.rows)].seq # T.head.seq
  BY <1>1, <1>2, <1>4
<1> QED
  BY <1>3, <1>4 DEF TailVerified

\* Chains move under a verification that does not.
LEMMA VerRests ==
  ASSUME VerInv, ver' = ver, tampered' = tampered, disk' = disk
  PROVE  VerInv'
  BY DEF VerInv, VerShape, Betrayed, Faithful

LEMMA VerCommits ==
  ASSUME AuditInv, VerInv, NEW t \in Txns, Commit(t)
  PROVE  VerInv'
<1>1. /\ disk' = [c \in Chains |-> IF c \in held[t] THEN work[t][c] ELSE disk[c]]
      /\ tampered' = tampered
      /\ ver' = IF ver.phase # "idle" /\ ver.chain \in held[t] THEN [ver EXCEPT !.raced = TRUE] ELSE ver
  BY DEF Commit
<1>2. PICK H, R : ver \in [phase : {"idle", "head", "rows", "done"}, chain : Chains, head : H, rows : R,
                           verdict : {"NONE", "VALID", "INVALID"}, clean : BOOLEAN, raced : BOOLEAN]
  BY DEF VerInv, VerShape
<1>3. PICK c \in Chains : c = ver.chain
  BY <1>2
<1>4. ASSUME tampered[c] = "TRACED", Broken(disk[c]) \/ (Cut(disk[c]) /\ ver.head = disk[c].head)
      PROVE  Broken(disk'[c]) \/ (Cut(disk'[c]) /\ ver.head = disk'[c].head)
  <2>1. CASE c \notin held[t]
    BY <1>1, <1>4, <2>1
  <2>2. CASE c \in held[t]
    <3>1. disk'[c] = View(t, c)
      BY <1>1, <2>2 DEF View
    <3>2. Broken(View(t, c)) \/ (View(t, c) = disk[c] /\ Cut(disk[c]))
      BY <1>4 DEF AuditInv, ChainInv, TracedOK
    <3>3. ASSUME Cut(disk[c]), ~Broken(disk[c]) PROVE ver.head = disk[c].head
      BY <1>4, <3>3
    <3>4. ASSUME ~Broken(View(t, c)) PROVE Cut(disk'[c]) /\ ver.head = disk'[c].head
      <4>1. View(t, c) = disk[c] /\ Cut(disk[c])
        BY <3>2, <3>4
      <4> QED
        BY <3>1, <3>3, <3>4, <4>1
    <3> QED
      BY <3>1, <3>4
  <2> QED
    BY <2>1, <2>2
<1>5. CASE ver.phase # "idle" /\ ver.chain \in held[t]
  <2>1. ver' = [ver EXCEPT !.raced = TRUE]
    BY <1>1, <1>5
  <2>2. /\ ver'.phase = ver.phase /\ ver'.chain = c /\ ver'.head = ver.head /\ ver'.rows = ver.rows
        /\ ver'.verdict = ver.verdict /\ ver'.clean = ver.clean /\ ver'.raced = TRUE
    BY <1>2, <1>3, <2>1
  <2>3. ver' \in [phase : {"idle", "head", "rows", "done"}, chain : Chains, head : H, rows : R,
                  verdict : {"NONE", "VALID", "INVALID"}, clean : BOOLEAN, raced : BOOLEAN]
    BY <1>2, <2>1
  <2>4. Betrayed'
    BY <1>1, <1>3, <1>4, <2>2 DEF VerInv, Betrayed
  <2>5. Faithful'
    BY <2>2 DEF Faithful
  <2> QED
    BY <2>2, <2>3, <2>4, <2>5 DEF VerInv, VerShape
<1>6. CASE ver.phase # "idle" /\ ver.chain \notin held[t]
  <2>1. ver' = ver /\ disk'[c] = disk[c]
    BY <1>1, <1>3, <1>6
  <2> QED
    BY <1>1, <1>3, <2>1 DEF VerInv, VerShape, Betrayed, Faithful
<1>7. CASE ver.phase = "idle"
  <2>1. ver' = ver
    BY <1>1, <1>7
  <2> QED
    BY <1>1, <1>7, <2>1 DEF VerInv, VerShape, Betrayed, Faithful
<1> QED
  BY <1>5, <1>6, <1>7

LEMMA VerTampered ==
  ASSUME AuditInv, VerInv, NEW c \in Chains, Tamper(c)
  PROVE  VerInv'
<1>1. /\ \A d \in Chains : tampered[d] = "NO" /\ (d # c => disk'[d] = disk[d] /\ tampered'[d] = "NO")
      /\ tampered'[c] # "NO"
  BY TamperKeeps DEF AuditInv
<1>2. ver' = ver
  BY DEF Tamper
<1>3. ver.chain \in Chains /\ ver.clean \in BOOLEAN
  BY DEF VerInv, VerShape
<1>4. ver.clean
  BY <1>1, <1>3 DEF VerInv, Betrayed
<1>5. Betrayed'
  BY <1>2, <1>4 DEF Betrayed
<1>6. Faithful'
  BY <1>1, <1>2, <1>3 DEF VerInv, Faithful
<1> QED
  BY <1>2, <1>5, <1>6 DEF VerInv, VerShape

LEMMA VerReadsHead ==
  ASSUME AuditInv, VerInv, NEW c \in Chains, VerifyReadsHead(c)
  PROVE  VerInv'
<1>1. /\ ver' = [Idle EXCEPT !.phase = "head", !.chain = c, !.head = disk[c].head, !.clean = tampered[c] # "TRACED"]
      /\ disk' = disk /\ tampered' = tampered
  BY DEF VerifyReadsHead
<1>2. PICK g : g = disk[c].head
  OBVIOUS
<1>0. PICK b \in BOOLEAN : b = (tampered[c] # "TRACED")
  OBVIOUS
<1>3. ver' = [phase |-> "head", chain |-> c, head |-> g, rows |-> << >>,
              verdict |-> "NONE", clean |-> b, raced |-> FALSE]
  BY <1>0, <1>1, <1>2 DEF Idle
<1>4. ver' \in [phase : {"idle", "head", "rows", "done"}, chain : Chains, head : {g}, rows : {<< >>},
                verdict : {"NONE", "VALID", "INVALID"}, clean : BOOLEAN, raced : BOOLEAN]
  BY <1>3
<1>5. /\ ver'.phase = "head" /\ ver'.chain = c /\ ver'.head = disk[c].head
      /\ ver'.verdict = "NONE" /\ (ver'.clean <=> tampered[c] # "TRACED")
  BY <1>0, <1>2, <1>3
<1>6. tampered[c] = "TRACED" => Broken(disk[c]) \/ Cut(disk[c])
  BY DEF AuditInv, ChainInv, TracedOK
<1>7. Betrayed'
  BY <1>1, <1>5, <1>6 DEF Betrayed
<1>8. Faithful'
  BY <1>1, <1>5 DEF Faithful
<1> QED
  BY <1>4, <1>5, <1>7, <1>8 DEF VerInv, VerShape

LEMMA VerReadsRows ==
  ASSUME AuditInv, VerInv, VerifyReadsRows
  PROVE  VerInv'
<1>1. ver.phase = "head" /\ ver' = [ver EXCEPT !.phase = "rows", !.rows = disk[ver.chain].rows]
      /\ disk' = disk /\ tampered' = tampered
  BY DEF VerifyReadsRows
<1>2. PICK H, R : ver \in [phase : {"idle", "head", "rows", "done"}, chain : Chains, head : H, rows : R,
                           verdict : {"NONE", "VALID", "INVALID"}, clean : BOOLEAN, raced : BOOLEAN]
  BY DEF VerInv, VerShape
<1>3. PICK c \in Chains : c = ver.chain
  BY <1>2
<1>4. PICK q : q = disk[c].rows
  OBVIOUS
<1>5. /\ ver'.phase = "rows" /\ ver'.chain = c /\ ver'.head = ver.head /\ ver'.rows = q
      /\ ver'.verdict = ver.verdict /\ ver'.clean = ver.clean /\ ver'.raced = ver.raced
  BY <1>1, <1>2, <1>3, <1>4
<1>6. ver' \in [phase : {"idle", "head", "rows", "done"}, chain : Chains, head : H, rows : {q},
                verdict : {"NONE", "VALID", "INVALID"}, clean : BOOLEAN, raced : BOOLEAN]
  BY <1>1, <1>2, <1>3, <1>4
<1>7. ver.verdict = "NONE"
  BY <1>1 DEF VerInv
<1>8. Betrayed'
  <2> SUFFICES ASSUME ~ver.clean
               PROVE  tampered[c] = "TRACED" /\ ~(RowsVerified(q, ver.head) /\ TailVerified(q, ver.head))
    BY <1>1, <1>5, <1>7 DEF Betrayed
  <2>1. /\ tampered[c] = "TRACED"
        /\ Broken(disk[c]) \/ (Cut(disk[c]) /\ ver.head = disk[c].head)
    BY <1>1, <1>3 DEF VerInv, Betrayed
  <2>2. Shaped(disk[c])
    BY <2>1 DEF AuditInv, ChainInv, TracedOK
  <2>3. CASE Broken(disk[c])
    BY <1>4, <2>1, <2>3, BrokenFails
  <2>4. CASE Cut(disk[c]) /\ ver.head = disk[c].head
    BY <1>4, <2>1, <2>2, <2>4, CutFails
  <2> QED
    BY <2>1, <2>3, <2>4
<1>9. Faithful'
  BY <1>1, <1>3, <1>4, <1>5, <1>7 DEF VerInv, Faithful
<1> QED
  BY <1>5, <1>6, <1>7, <1>8, <1>9 DEF VerInv, VerShape

LEMMA VerConcludes ==
  ASSUME AuditInv, VerInv, VerifyConcludes
  PROVE  VerInv'
<1>1. PICK v : v = IF /\ RowsVerified(ver.rows, ver.head) /\ TailVerified(ver.rows, ver.head)
                      /\ CheckpointsVerified(disk[ver.chain]) THEN "VALID" ELSE "INVALID"
  OBVIOUS
<1>2. ver.phase = "rows" /\ ver' = [ver EXCEPT !.phase = "done", !.verdict = v] /\ disk' = disk /\ tampered' = tampered
  BY <1>1 DEF VerifyConcludes
<1>3. PICK H, R : ver \in [phase : {"idle", "head", "rows", "done"}, chain : Chains, head : H, rows : R,
                           verdict : {"NONE", "VALID", "INVALID"}, clean : BOOLEAN, raced : BOOLEAN]
  BY DEF VerInv, VerShape
<1>4. PICK c \in Chains : c = ver.chain
  BY <1>3
<1>5. v \in {"VALID", "INVALID"}
  BY <1>1
<1>6. /\ ver'.phase = "done" /\ ver'.chain = c /\ ver'.head = ver.head /\ ver'.rows = ver.rows
      /\ ver'.verdict = v /\ ver'.clean = ver.clean /\ ver'.raced = ver.raced
  BY <1>2, <1>3, <1>4
<1>7. ver' \in [phase : {"idle", "head", "rows", "done"}, chain : Chains, head : H, rows : R,
                verdict : {"NONE", "VALID", "INVALID"}, clean : BOOLEAN, raced : BOOLEAN]
  BY <1>2, <1>3, <1>5
<1>8. Betrayed'
  <2> SUFFICES ASSUME ~ver.clean PROVE tampered[c] = "TRACED" /\ v # "VALID"
    BY <1>2, <1>6 DEF Betrayed
  <2>1. tampered[c] = "TRACED" /\ ~(RowsVerified(ver.rows, ver.head) /\ TailVerified(ver.rows, ver.head))
    BY <1>2, <1>4 DEF VerInv, Betrayed
  <2> QED
    BY <1>1, <2>1
<1>9. Faithful'
  <2> SUFFICES ASSUME tampered[c] = "NO", ~ver.raced PROVE v # "INVALID"
    BY <1>2, <1>6 DEF Faithful
  <2>1. ver.head = disk[c].head /\ ver.rows = disk[c].rows
    BY <1>2, <1>4 DEF VerInv, Faithful
  <2>2. Sound(disk[c])
    BY DEF AuditInv, ChainInv, ChainOK
  <2>3. RowsVerified(ver.rows, ver.head) /\ TailVerified(ver.rows, ver.head) /\ CheckpointsVerified(disk[ver.chain])
    BY <1>4, <2>1, <2>2, SoundVerifies
  <2> QED
    BY <1>1, <2>3
<1> QED
  BY <1>6, <1>7, <1>8, <1>9 DEF VerInv, VerShape

\* A full verification answers VALID only of a chain that showed no tampering
\* when it began, and INVALID only of one that was tampered with or that gained
\* an event between its unlocked reads (AuditService.verify_chain), for any
\* chains and sessions: VerdictsSound.
THEOREM VerdictsAreSound == AuditSpec => []VerdictsSound
<1>1. AuditInit => VerInv
  BY IdleVerifies DEF AuditInit
<1>2. AuditInv /\ VerInv /\ [AuditNext]_auditVars => VerInv'
  <2> SUFFICES ASSUME AuditInv, VerInv, [AuditNext]_auditVars PROVE VerInv'
    OBVIOUS
  <2>1. ASSUME NEW t \in Txns, NEW c \in Chains, Peek(t, c) PROVE VerInv'
    BY <2>1, VerRests DEF Peek
  <2>2. ASSUME NEW t \in Txns, NEW c \in Chains, SealLegacy(t, c) PROVE VerInv'
    BY <2>2, VerRests DEF SealLegacy
  <2>3. ASSUME NEW t \in Txns, NEW c \in Chains, NEW type \in Types, NEW key \in Keys,
               NEW actor \in Def[type].actors, AppendEvent(t, c, type, actor, key)
        PROVE  VerInv'
    BY <2>3, VerRests DEF AppendEvent
  <2>4. ASSUME NEW t \in Txns, Commit(t) PROVE VerInv'
    BY <2>4, VerCommits
  <2>5. ASSUME NEW t \in Txns, Rollback(t) PROVE VerInv'
    BY <2>5, VerRests DEF Rollback
  <2>6. ASSUME NEW o \in Orgs, RoleChanges(o) PROVE VerInv'
    BY <2>6, VerRests DEF RoleChanges
  <2>7. CASE DayPasses
    BY <2>7, VerRests DEF DayPasses
  <2>8. ASSUME NEW c \in Chains, Tamper(c) PROVE VerInv'
    BY <2>8, VerTampered
  <2>9. ASSUME NEW c \in Chains, VerifyReadsHead(c) PROVE VerInv'
    BY <2>9, VerReadsHead
  <2>10. CASE VerifyReadsRows
    BY <2>10, VerReadsRows
  <2>11. CASE VerifyConcludes
    BY <2>11, VerConcludes
  <2>12. CASE ReportVerdict
    <3>1. ver' = Idle
      BY <2>12 DEF ReportVerdict
    <3> QED
      BY <3>1, IdleVerifies
  <2>13. CASE UNCHANGED auditVars
    BY <2>13, VerRests DEF auditVars
  <2> QED
    BY <2>1, <2>2, <2>3, <2>4, <2>5, <2>6, <2>7, <2>8, <2>9, <2>10, <2>11, <2>12, <2>13 DEF AuditNext
<1>3. VerInv => VerdictsSound
  <2> SUFFICES ASSUME VerInv PROVE VerdictsSound
    OBVIOUS
  <2>1. ver.clean \in BOOLEAN /\ ver.raced \in BOOLEAN
    BY DEF VerInv, VerShape
  <2> QED
    BY <2>1, Zenon DEF VerInv, Betrayed, Faithful, VerdictsSound
<1> QED
  BY <1>1, <1>2, <1>3, AuditStarts, AuditSteps, PTL DEF AuditSpec

----------------------------------------------------------------------------

(* The ledger of documents                                                 *)

IsRow(r) ==
  \E D, V : r \in [d : D, pre : V, kids : V, state : V, remote : V, restore : V]

\* A row has one job, with its document; an operation without a row has none.
LedgerInv ==
  /\ DOMAIN led \subseteq Ops /\ DOMAIN jobs = Ops
  /\ \A o \in DOMAIN led : IsRow(led[o]) /\ jobs[o] = <<led[o].d>>
  /\ \A o \in Ops \ DOMAIN led : jobs[o] = << >>

\* queue_prevalidated's first call for an operation id.
LEMMA RowStored ==
  ASSUME LedgerInv, NEW o \in Ops, o \notin DOMAIN led, NEW e, NEW restore,
         led' = Stored(o, Row(e, restore)), jobs' = [jobs EXCEPT ![o] = Append(@, e.d)]
  PROVE  LedgerInv'
<1>1. PICK r : r = Row(e, restore)
  OBVIOUS
<1>2. IsRow(r) /\ r.d = e.d
  <2>1. PICK D, V : D = {e.d} /\ V = {e.pre, e.kids, "RECONCILIATION_PENDING", None, restore}
    OBVIOUS
  <2>2. r \in [d : D, pre : V, kids : V, state : V, remote : V, restore : V] /\ r.d = e.d
    BY <1>1, <2>1 DEF Row
  <2> QED
    BY <2>2 DEF IsRow
<1>3. DOMAIN led' = DOMAIN led \cup {o} /\ \A p \in DOMAIN led' : led'[p] = IF p = o THEN r ELSE led[p]
  BY <1>1 DEF Stored
<1>4. DOMAIN jobs' = Ops /\ \A p \in Ops : jobs'[p] = IF p = o THEN Append(jobs[o], e.d) ELSE jobs[p]
  BY DEF LedgerInv
<1>5. jobs[o] = << >> /\ Append(<< >>, e.d) = <<e.d>>
  BY DEF LedgerInv
<1> QED
  BY <1>2, <1>3, <1>4, <1>5 DEF LedgerInv

\* A row keeps its document when its remote id or its verdict is written.
LEMMA RowUpdated ==
  ASSUME LedgerInv, NEW o \in DOMAIN led, NEW x,
         led' = [led EXCEPT ![o].remote = x] \/ led' = [led EXCEPT ![o].state = x],
         jobs' = jobs
  PROVE  LedgerInv'
<1>1. PICK D, V : led[o] \in [d : D, pre : V, kids : V, state : V, remote : V, restore : V]
  BY DEF LedgerInv, IsRow
<1>2. PICK r, v : r = led[o] /\ v \in {[r EXCEPT !.remote = x], [r EXCEPT !.state = x]}
                  /\ led' = [led EXCEPT ![o] = v]
  OBVIOUS
<1>3. PICK W : W = V \cup {x}
  OBVIOUS
<1>4. v.d = r.d /\ v \in [d : D, pre : W, kids : W, state : W, remote : W, restore : W]
  BY <1>1, <1>2, <1>3
<1>6. IsRow(v)
  BY <1>4 DEF IsRow
<1>5. DOMAIN led' = DOMAIN led /\ \A p \in DOMAIN led : led'[p] = IF p = o THEN v ELSE led[p]
  BY <1>2
<1> QED
  BY <1>2, <1>4, <1>5, <1>6 DEF LedgerInv

\* Every step keeps the ledger and the jobs together.
LEMMA LedgerSteps == LedgerInv /\ [DocumentNext]_documentVars => LedgerInv'
<1> SUFFICES ASSUME LedgerInv, [DocumentNext]_documentVars PROVE LedgerInv'
  OBVIOUS
<1>1. ASSUME led' = led, jobs' = jobs PROVE LedgerInv'
  BY <1>1 DEF LedgerInv
<1>2. ASSUME NEW c \in Codes, Read(c) \/ SoldElsewhere(c) PROVE LedgerInv'
  BY <1>1, <1>2 DEF Read, SoldElsewhere
<1>3. CASE ReadAll \/ Expire
  BY <1>1, <1>3 DEF ReadAll, Expire
<1>4. ASSUME NEW o \in Ops, NEW d, ValidateTurnover(o, d) \/ ValidateAggregation(o, d) PROVE LedgerInv'
  BY <1>1, <1>4 DEF ValidateTurnover, ValidateAggregation
<1>5. ASSUME NEW o \in Ops, NEW p \in Ops, ValidateCancel(o, p) PROVE LedgerInv'
  BY <1>1, <1>5 DEF ValidateCancel
<1>6. ASSUME NEW o \in Ops, QueueTurnover(o) PROVE LedgerInv'
  <2>1. CASE o \notin DOMAIN led
    BY <1>6, <2>1, RowStored DEF QueueTurnover
  <2>2. CASE o \in DOMAIN led
    BY <1>1, <1>6, <2>2 DEF QueueTurnover
  <2> QED
    BY <2>1, <2>2
<1>7. ASSUME NEW o \in Ops, QueueAggregation(o) PROVE LedgerInv'
  <2>1. CASE o \notin DOMAIN led
    BY <1>7, <2>1, RowStored DEF QueueAggregation
  <2>2. CASE o \in DOMAIN led
    BY <1>1, <1>7, <2>2 DEF QueueAggregation
  <2> QED
    BY <2>1, <2>2
<1>8. ASSUME NEW o \in Ops, NEW id, RecordRemoteDocument(o, id) \/ RecordAggregationDocument(o, id) PROVE LedgerInv'
  <2>1. o \in DOMAIN led /\ led' = [led EXCEPT ![o].remote = id] /\ jobs' = jobs
    BY <1>8 DEF RecordRemoteDocument, RecordAggregationDocument, Recordable, Recorded
  <2> QED
    BY <2>1, RowUpdated
<1>9. ASSUME NEW o \in Ops, ReadStatus(o) PROVE LedgerInv'
  BY <1>1, <1>9 DEF ReadStatus
<1>10. ASSUME NEW o \in Ops, Reconcile(o) PROVE LedgerInv'
  <2>1. PICK v : v = TurnoverVerdict(o)
    OBVIOUS
  <2>2. o \in DOMAIN led /\ led' = [led EXCEPT ![o].state = v] /\ jobs' = jobs
    BY <1>10, <2>1 DEF Reconcile, Reconcilable
  <2> QED
    BY <2>2, RowUpdated
<1>11. ASSUME NEW o \in Ops, RecordReconciliation(o) PROVE LedgerInv'
  <2>1. PICK v : v = AggregationVerdict(o)
    OBVIOUS
  <2>2. o \in DOMAIN led /\ led' = [led EXCEPT ![o].state = v] /\ jobs' = jobs
    BY <1>11, <2>1 DEF RecordReconciliation, Reconcilable
  <2> QED
    BY <2>2, RowUpdated
<1>12. ASSUME NEW o \in Ops, Create(o) \/ Process(o) PROVE LedgerInv'
  BY <1>1, <1>12 DEF Create, Process
<1>13. ASSUME NEW o \in Ops, NEW e \in todo[o], Appear(o, e) PROVE LedgerInv'
  BY <1>1, <1>13 DEF Appear
<1>14. CASE UNCHANGED documentVars
  BY <1>1, <1>14 DEF documentVars
<1> QED
  BY <1>2, <1>3, <1>4, <1>5, <1>6, <1>7, <1>8, <1>9, <1>10, <1>11, <1>12, <1>13, <1>14 DEF DocumentNext

LEMMA LedgerStarts == DocumentInit => LedgerInv
  BY DEF DocumentInit, LedgerInv

\* An operation id names one document: the agent gets one job, with the document
\* of the ledger row, however often something is queued under the id
\* (TurnoverService.queue_prevalidated, AggregationService.queue_prevalidated):
\* OneDocument of any operations and codes.
THEOREM DocumentsStaySingle == DocumentSpec => []OneDocument
<1>1. LedgerInv => OneDocument
  BY DEF LedgerInv, OneDocument
<1> QED
  BY <1>1, LedgerStarts, LedgerSteps, PTL DEF DocumentSpec

----------------------------------------------------------------------------

(* The verdicts on documents                                               *)

Facets == {"STATE", "PARENT"}
Incoming == Forms \cup Adds

\* A document names product codes, and a package document at least one.
IsDocument(d) ==
  /\ d.kind \in TurnoverKinds \cup AggregationKinds
  /\ d.codes \in Seq(Units)
  /\ d.kind \in AggregationKinds => d.codes # << >>

\* What the evidence says of the packages before the document.
IsEvidence(r) == IsDocument(r.d) /\ \A c \in Units : r.pre[c] \in {None, Pack}

\* The effect x of document d has not reached a code in state s.
Untouched(d, x, s) ==
  IF x = "STATE" THEN d.kind \in TurnoverKinds => ~Postcondition(d, s, Restore(d))
  ELSE s.parent = IF d.kind \in Incoming THEN None ELSE Pack

\* Nor do the snapshots sn show it.
Unread(sn, d, c, x) ==
  /\ c \in Affected(d) /\ sn[c] # None => Untouched(d, x, sn[c])
  /\ d.kind \in AggregationKinds /\ x = "PARENT" /\ sn[Pack] # None =>
       (c \in sn[Pack].kids <=> d.kind \notin Incoming)

\* The effects a document can have.
Concerns(d, c, x) ==
  /\ d.kind \in TurnoverKinds => c \in CodesOf(d)
  /\ d.kind \in AggregationKinds /\ x = "STATE" => c = Pack
  /\ x = "PARENT" => /\ c \in Units /\ d.kind # "CANCEL_WITHDRAWAL"
                     /\ c \in CodesOf(d) \/ d.kind \in Disaggregations

\* An accepted effect that is not visible yet has left no trace in the registry,
\* nor in what the caller read since it saw the document accepted.
PendingInv ==
  \A o \in DOMAIN led, c \in Codes, x \in Facets : <<c, x>> \in todo[o] =>
    /\ Concerns(led[o].d, c, x)
    /\ Untouched(led[o].d, x, reg[c])
    /\ seen[o] = "CHECKED_OK" => Unread(snap, led[o].d, c, x)

\* A code waits for one document.
ApartInv ==
  \A o, p \in Ops, c \in Codes, x, y \in Facets :
    <<c, x>> \in todo[o] /\ <<c, y>> \in todo[p] => o = p

\* An ATK holds codes of foreign emission, which no remark changes.
AtkInv ==
  ptype = "ATK" =>
    /\ \A c \in Units : reg[c].parent = Pack => reg[c].emission = "FOREIGN"
    /\ \A o \in DOMAIN led, c \in Units : <<c, "PARENT">> \in todo[o] =>
         led[o].d.kind # "REMARK" /\ reg[c].emission = "FOREIGN"

\* Effects follow the acceptance, the caller's knowledge follows the document.
OrderInv ==
  \A o \in Ops :
    /\ seen[o] = "CHECKED_OK" => doc[o] = "CHECKED_OK"
    /\ todo[o] # {} => doc[o] = "CHECKED_OK"
    /\ doc[o] # None => o \in DOMAIN led

CarriedInv ==
  /\ \A o \in Ops : evid[o] # None => IsEvidence(evid[o])
  /\ \A o \in DOMAIN led : /\ IsEvidence(led[o])
                           /\ led[o].d.kind \in TurnoverKinds => led[o].restore = Restore(led[o].d)

\* ReconciledMeansVisible of one row.
VisibleInv ==
  \A o \in DOMAIN led : led[o].state = "RECONCILED" =>
    /\ doc[o] = "CHECKED_OK"
    /\ \A c \in Codes, x \in Facets : <<c, x>> \in todo[o] =>
         IF led[o].d.kind \in AggregationKinds THEN x = "STATE"
         ELSE x = "PARENT" /\ led[o].pre[c] = None

DocumentInv ==
  /\ LedgerInv /\ DocumentTypeOK /\ PendingInv /\ ApartInv /\ AtkInv
  /\ OrderInv /\ CarriedInv /\ VisibleInv

(* The contract                                                            *)

LEMMA KindsApart ==
  /\ TurnoverKinds \cap AggregationKinds = {}
  /\ Incoming \subseteq AggregationKinds /\ Disaggregations \subseteq AggregationKinds
  /\ Removes \subseteq AggregationKinds
  /\ AggregationKinds = Incoming \cup Removes \cup Disaggregations
  /\ Incoming \cap (Removes \cup Disaggregations) = {} /\ Removes \cap Disaggregations = {}
  BY DEF TurnoverKinds, AggregationKinds, Incoming, Disaggregations, Introductions, Returns,
         Forms, PackageForms, SetForms, Adds, Removes

LEMMA CodesAreUnits ==
  ASSUME NEW d, IsDocument(d)
  PROVE  CodesOf(d) \subseteq Units
  BY DEF IsDocument, CodesOf

\* What the registry shows a reader is what it holds.
LEMMA LookShows ==
  ASSUME DocumentTypeOK, NEW c \in Codes
  PROVE  /\ Look(c) \in Snapshots
         /\ \A d, x : Untouched(d, x, Look(c)) <=> Untouched(d, x, reg[c])
         /\ Look(Pack).kids = Kids(Pack)
<1>1. Look(c) \in Snapshots
  BY DocumentOperationsAssumption DEF Look, Snapshots, DocumentTypeOK, Registered, Kids, Codes
<1>2. /\ Look(c).status = reg[c].status /\ Look(c).reason = reg[c].reason
      /\ Look(c).ex = reg[c].ex /\ Look(c).parent = reg[c].parent
  BY DEF Look
<1>3. \A d, x : Untouched(d, x, Look(c)) <=> Untouched(d, x, reg[c])
  BY <1>2 DEF Untouched, Postcondition, Plain
<1>4. Look(Pack).kids = Kids(Pack)
  BY DEF Look
<1> QED
  BY <1>1, <1>3, <1>4

\* A document is validated in a state its effect on a code has not reached.
LEMMA AllowedBefore ==
  ASSUME NEW d, NEW s, StateAllows(d, s), d.kind \in TurnoverKinds
  PROVE  /\ ~Postcondition(d, s, Restore(d)) /\ d.kind # "CANCEL_WITHDRAWAL"
         /\ d.kind = "REMARK" => s.emission # "FOREIGN"
<1>1. CASE d.kind \in Introductions
  BY <1>1 DEF Introductions, Returns, StateAllows, Postcondition, IntroducedFromApplied,
       ValidateIndividual, ValidateFts, TurnoverKinds
<1>2. CASE d.kind \in Returns
  BY <1>2 DEF Introductions, Returns, StateAllows, Postcondition, ValidateReturn, TurnoverKinds
<1>3. CASE d.kind \in {"WITHDRAW", "WITHDRAW_DISTANCE", "REMARK", "WRITE_OFF", "CANCEL_WITHDRAWAL"}
  BY <1>3 DEF Introductions, Returns, StateAllows, Postcondition, ValidateDistance, ValidateRemarkNew,
       ValidateWriteOff, TurnoverKinds
<1> QED
  BY <1>1, <1>2, <1>3 DEF TurnoverKinds

\* What the checks of a package document say of the children it names.
LEMMA RelationAllows ==
  ASSUME NEW kind, NEW p, NEW K, ValidateRelation(kind, p, K, Quantity)
  PROVE  /\ kind \in Incoming => \A k \in K : k.parent = None
         /\ kind \in Removes => \A k \in K : k.parent = p.cis
         /\ kind \in {"FORM_ATK", "TRANSFORM_ATK_ADD", "TRANSFORM_ATK_REMOVE"} =>
              \A k \in K : k.emission = "FOREIGN"
         /\ kind \in SetForms => p.pkg = "SET"
         /\ kind \in {"TRANSFORM_PACKAGE_ADD", "TRANSFORM_PACKAGE_REMOVE", "DISAGGREGATE_PACKAGE"} =>
              p.pkg \in {"BOX", "SET"}
<1>1. CASE kind = "FORM_SET"
  BY <1>1 DEF ValidateRelation, ValidateSet, SetForms, PackageForms, Removes, Incoming, Forms, Adds
<1>2. CASE kind = "FORM_SET_GENERIC_COMPATIBILITY"
  BY <1>2 DEF ValidateRelation, ValidateSet, SetForms, PackageForms, Removes, Incoming, Forms, Adds
<1>3. CASE kind = "FORM_TRANSPORT_PACKAGE"
  BY <1>3 DEF ValidateRelation, ValidateBox, SetForms, PackageForms, Removes, Incoming, Forms, Adds
<1>4. CASE kind = "FORM_MULTIPRODUCT_TRANSPORT_PACKAGE"
  BY <1>4 DEF ValidateRelation, ValidateBox, SetForms, PackageForms, Removes, Incoming, Forms, Adds
<1>5. CASE kind = "FORM_ATK"
  BY <1>5 DEF ValidateRelation, ValidateAtk, AtkCommonChild, SetForms, PackageForms, Removes, Incoming, Forms, Adds
<1>6. CASE kind = "TRANSFORM_PACKAGE_ADD"
  BY <1>6 DEF ValidateRelation, ValidateReaggregation, SetForms, PackageForms, Removes, Incoming, Forms, Adds
<1>7. CASE kind = "TRANSFORM_PACKAGE_REMOVE"
  BY <1>7 DEF ValidateRelation, ValidateReaggregation, SetForms, PackageForms, Removes, Incoming, Forms, Adds
<1>8. CASE kind = "TRANSFORM_ATK_ADD"
  BY <1>8 DEF ValidateRelation, ValidateAtkTransformation, AtkCommonChild, SetForms, PackageForms, Removes, Incoming, Forms, Adds
<1>9. CASE kind = "TRANSFORM_ATK_REMOVE"
  BY <1>9 DEF ValidateRelation, ValidateAtkTransformation, AtkCommonChild, SetForms, PackageForms, Removes, Incoming, Forms, Adds
<1>10. CASE kind = "DISAGGREGATE_PACKAGE"
  BY <1>10 DEF ValidateRelation, ValidateDisaggregation, SetForms, PackageForms, Removes, Incoming, Forms, Adds
<1>11. CASE kind \notin Incoming \cup Removes \cup {"DISAGGREGATE_PACKAGE"}
  BY <1>11 DEF SetForms, PackageForms, Removes, Incoming, Forms, Adds
<1> QED
  BY <1>1, <1>2, <1>3, <1>4, <1>5, <1>6, <1>7, <1>8, <1>9, <1>10, <1>11
     DEF SetForms, PackageForms, Removes, Incoming, Forms, Adds

\* The accepted effects of a document are of its kind; a code that has to leave
\* its package is in it.
LEMMA EffectsConcern ==
  ASSUME DocumentTypeOK, NEW d, IsDocument(d), NEW c, NEW x \in Facets, <<c, x>> \in Effects(d)
  PROVE  /\ c \in Codes /\ Concerns(d, c, x)
         /\ x = "PARENT" =>
              IF d.kind \in TurnoverKinds \cup Disaggregations THEN reg[c].parent = Pack
              ELSE c \in CodesOf(d)
<1>1. CodesOf(d) \subseteq Units /\ d.kind \in TurnoverKinds \cup AggregationKinds
  BY CodesAreUnits DEF IsDocument
<1>2. \A u \in Codes : reg[u].parent \in {None, Pack}
  BY DEF DocumentTypeOK, Registered
<1>3. CASE d.kind \in AggregationKinds
  <2>1. \/ x = "STATE" /\ c = Pack
        \/ x = "PARENT" /\ c \in IF d.kind \in Disaggregations THEN Kids(Pack) ELSE CodesOf(d)
    BY <1>3 DEF Effects
  <2>2. d.kind \notin TurnoverKinds /\ d.kind # "CANCEL_WITHDRAWAL"
    BY <1>3, KindsApart DEF TurnoverKinds
  <2> QED
    BY <1>1, <1>3, <2>1, <2>2 DEF Concerns, Kids, Codes
<1>4. CASE d.kind \in TurnoverKinds
  <2>1. d.kind \notin AggregationKinds
    BY <1>4, KindsApart
  <2>2. c \in CodesOf(d) /\ (x = "PARENT" => reg[c].parent # None /\ d.kind # "CANCEL_WITHDRAWAL")
    BY <2>1 DEF Effects, Facets
  <2> QED
    BY <1>1, <1>2, <1>4, <2>1, <2>2 DEF Concerns, Codes
<1> QED
  BY <1>1, <1>3, <1>4

\* The registry accepts a document only in a state its effects have not reached.
LEMMA AcceptedBefore ==
  ASSUME DocumentTypeOK, NEW d, IsDocument(d), RegistryAllows(d),
         NEW c, NEW x \in Facets, <<c, x>> \in Effects(d)
  PROVE  Untouched(d, x, reg[c])
<1>1. /\ c \in Codes /\ Concerns(d, c, x)
      /\ x = "PARENT" =>
           IF d.kind \in TurnoverKinds \cup Disaggregations THEN reg[c].parent = Pack
           ELSE c \in CodesOf(d)
  BY EffectsConcern
<1>2. d.kind \in TurnoverKinds \cup AggregationKinds
  BY DEF IsDocument
<1>3. CASE d.kind \in TurnoverKinds
  <2>1. d.kind \notin AggregationKinds /\ d.kind \notin Incoming /\ c \in CodesOf(d)
    BY <1>1, <1>3, KindsApart DEF Concerns
  <2>2. CASE x = "PARENT"
    BY <1>1, <1>3, <2>1, <2>2 DEF Untouched
  <2>3. CASE x = "STATE" /\ d.kind = "CANCEL_WITHDRAWAL"
    <3>1. reg[c].status = "RETIRED"
      BY <2>1, <2>3 DEF RegistryAllows
    <3> QED
      BY <2>3, <3>1 DEF Untouched, Postcondition, Restore, Introductions, Returns
  <2>4. CASE x = "STATE" /\ d.kind # "CANCEL_WITHDRAWAL"
    <3>1. StateAllows(d, Look(c))
      BY <2>1, <2>4 DEF RegistryAllows
    <3>2. ~Postcondition(d, Look(c), Restore(d))
      BY <1>3, <3>1, AllowedBefore
    <3>3. Untouched(d, x, Look(c))
      BY <2>4, <3>2 DEF Untouched
    <3> QED
      BY <1>1, <3>3, LookShows
  <2> QED
    BY <2>2, <2>3, <2>4 DEF Facets
<1>4. CASE d.kind \in AggregationKinds /\ x = "STATE"
  BY <1>4, KindsApart DEF Untouched
<1>5. CASE d.kind \in AggregationKinds /\ x = "PARENT"
  <2>1. CASE d.kind \in Disaggregations
    BY <1>1, <1>5, <2>1, KindsApart DEF Untouched
  <2>2. CASE d.kind \notin Disaggregations
    <3>1. c \in CodesOf(d) /\ c \in Units
      BY <1>1, <1>5, <2>2, KindsApart DEF Concerns
    <3> DEFINE K == {Look(u) : u \in CodesOf(d)}
    <3>2. ValidateRelation(d.kind, Known(Look(Pack)), K, Quantity) /\ PackageFits(d.kind, Look(Pack))
      BY <1>5 DEF RegistryAllows
    <3>3. Look(c) \in K /\ Look(c).parent = reg[c].parent /\ Look(Pack).cis = Pack
      BY <3>1 DEF Look
    <3> HIDE DEF K
    <3>4. /\ d.kind \in Incoming => Look(c).parent = None
          /\ d.kind \in Removes => Look(c).parent = Known(Look(Pack)).cis
      BY <3>2, <3>3, RelationAllows
    <3>5. d.kind \in Removes => Known(Look(Pack)) = Look(Pack)
      BY <3>2 DEF PackageFits, Known, Removes, PackageForms
    <3> QED
      BY <1>5, <2>2, <3>3, <3>4, <3>5, KindsApart DEF Untouched
  <2> QED
    BY <2>1, <2>2
<1> QED
  BY <1>2, <1>3, <1>4, <1>5 DEF Facets

\* What an accepted document changes in an ATK is of foreign emission.
LEMMA AcceptedInAtk ==
  ASSUME DocumentTypeOK, AtkInv, ptype = "ATK", NEW d, IsDocument(d), RegistryAllows(d),
         NEW c \in Units, <<c, "PARENT">> \in Effects(d)
  PROVE  d.kind # "REMARK" /\ reg[c].emission = "FOREIGN"
<1>1. /\ Concerns(d, c, "PARENT") /\ c \in Codes
      /\ IF d.kind \in TurnoverKinds \cup Disaggregations THEN reg[c].parent = Pack
         ELSE c \in CodesOf(d)
  BY EffectsConcern DEF Facets
<1>2. d.kind \in TurnoverKinds \cup AggregationKinds
  BY DEF IsDocument
<1>3. CASE d.kind \in TurnoverKinds
  <2>1. reg[c].emission = "FOREIGN" /\ c \in CodesOf(d) /\ d.kind \notin AggregationKinds
    BY <1>1, <1>3, KindsApart DEF AtkInv, Concerns
  <2>2. ASSUME d.kind = "REMARK" PROVE FALSE
    <3>1. StateAllows(d, Look(c)) /\ Look(c).emission = reg[c].emission
      BY <2>1, <2>2 DEF RegistryAllows, Look
    <3> QED
      BY <1>3, <2>1, <2>2, <3>1, AllowedBefore
  <2> QED
    BY <2>1, <2>2
<1>4. CASE d.kind \in Disaggregations
  BY <1>1, <1>4, KindsApart DEF AtkInv, TurnoverKinds
<1>5. CASE d.kind \in Incoming \cup Removes
  <2>1. c \in CodesOf(d) /\ d.kind \in AggregationKinds /\ d.kind # "REMARK"
    BY <1>1, <1>5, KindsApart DEF TurnoverKinds
  <2> DEFINE K == {Look(u) : u \in CodesOf(d)}
             p == Known(Look(Pack))
  <2>2. ValidateRelation(d.kind, p, K, Quantity) /\ PackageFits(d.kind, Look(Pack))
    BY <2>1 DEF RegistryAllows
  <2>3. Look(c) \in K /\ Look(c).emission = reg[c].emission /\ Look(Pack).pkg = "ATK"
    BY <2>1 DEF Look
  <2>4. d.kind \notin PackageForms
    BY <2>2 DEF PackageFits
  <2>5. d.kind # "FORM_ATK" => p.pkg = "ATK"
    BY <2>2, <2>3, <2>4 DEF PackageFits, Known
  <2> HIDE DEF K, p
  <2>6. d.kind \in {"FORM_ATK", "TRANSFORM_ATK_ADD", "TRANSFORM_ATK_REMOVE"}
    <3>1. /\ d.kind \in SetForms => p.pkg = "SET"
          /\ d.kind \in {"TRANSFORM_PACKAGE_ADD", "TRANSFORM_PACKAGE_REMOVE", "DISAGGREGATE_PACKAGE"} =>
               p.pkg \in {"BOX", "SET"}
      BY <2>2, RelationAllows
    <3> QED
      BY <1>5, <2>4, <2>5, <3>1 DEF Incoming, Removes, Forms, SetForms, Adds
  <2> QED
    BY <2>1, <2>2, <2>3, <2>6, RelationAllows
<1> QED
  BY <1>2, <1>3, <1>4, <1>5, KindsApart

(* The steps                                                               *)

\* A read shows only what is visible already.
LEMMA ReadsKeep ==
  ASSUME DocumentInv, UNCHANGED <<reg, ptype, evid, led, jobs, doc, todo, seen>>,
         \A c \in Codes : snap'[c] = Look(c) \/ snap'[c] = snap[c],
         snap' \in [Codes -> Snapshots \cup {None}]
  PROVE  DocumentInv'
<1>1. LedgerInv' /\ ApartInv' /\ AtkInv' /\ OrderInv' /\ CarriedInv' /\ VisibleInv' /\ DocumentTypeOK'
  BY DEF DocumentInv, LedgerInv, ApartInv, AtkInv, OrderInv, CarriedInv, VisibleInv, DocumentTypeOK, Kids
<1>2. ASSUME NEW o \in DOMAIN led, NEW c \in Codes, NEW x \in Facets, <<c, x>> \in todo[o],
             seen[o] = "CHECKED_OK"
      PROVE  Unread(snap', led[o].d, c, x)
  <2> DEFINE d == led[o].d
  <2>1. Concerns(d, c, x) /\ Untouched(d, x, reg[c]) /\ Unread(snap, d, c, x)
    BY <1>2 DEF DocumentInv, PendingInv
  <2>2. d.kind \in TurnoverKinds \cup AggregationKinds
    BY DEF DocumentInv, CarriedInv, IsEvidence, IsDocument
  <2>3. Untouched(d, x, Look(c)) /\ Look(Pack).kids = Kids(Pack)
    BY <2>1, LookShows DEF DocumentInv
  <2> HIDE DEF d
  <2>4. c \in Affected(d) /\ snap'[c] # None => Untouched(d, x, snap'[c])
    BY <2>1, <2>3 DEF Unread
  <2>5. ASSUME d.kind \in AggregationKinds, x = "PARENT", snap'[Pack] # None
        PROVE  c \in snap'[Pack].kids <=> d.kind \notin Incoming
    <3>1. CASE snap'[Pack] = snap[Pack]
      BY <2>1, <2>5, <3>1 DEF Unread
    <3>2. CASE snap'[Pack] = Look(Pack)
      <4>1. c \in Units /\ reg[c].parent = IF d.kind \in Incoming THEN None ELSE Pack
        BY <2>1, <2>5 DEF Concerns, Untouched
      <4> QED
        BY <2>3, <3>2, <4>1, DocumentOperationsAssumption DEF Kids
    <3> QED
      BY <3>1, <3>2 DEF Codes
  <2>6. Unread(snap', d, c, x)
    BY <2>4, <2>5 DEF Unread
  <2> QED
    BY <2>6 DEF d
<1>3. PendingInv'
  BY <1>2 DEF DocumentInv, PendingInv
<1> QED
  BY <1>1, <1>3 DEF DocumentInv

LEMMA ReadKeeps ==
  ASSUME DocumentInv, NEW c \in Codes, Read(c)
  PROVE  DocumentInv'
<1>1. snap \in [Codes -> Snapshots \cup {None}] /\ Look(c) \in Snapshots
  BY LookShows DEF DocumentInv, DocumentTypeOK
<1>2. snap' = [snap EXCEPT ![c] = Look(c)] /\ UNCHANGED <<reg, ptype, evid, led, jobs, doc, todo, seen>>
  BY DEF Read
<1> QED
  BY <1>1, <1>2, ReadsKeep

LEMMA ReadAllKeeps ==
  ASSUME DocumentInv, ReadAll
  PROVE  DocumentInv'
<1>1. \A c \in Codes : Look(c) \in Snapshots
  BY LookShows DEF DocumentInv
<1>2. snap' = [c \in Codes |-> Look(c)] /\ UNCHANGED <<reg, ptype, evid, led, jobs, doc, todo, seen>>
  BY DEF ReadAll
<1> QED
  BY <1>1, <1>2, ReadsKeep

\* Snapshots age only before there is a row.
LEMMA ExpireKeeps ==
  ASSUME DocumentInv, Expire
  PROVE  DocumentInv'
<1>1. DOMAIN led = {} /\ UNCHANGED <<reg, ptype, evid, led, jobs, doc, todo, seen>>
  BY DEF Expire
<1>2. snap' \in [Codes -> Snapshots \cup {None}]
  <2>1. ASSUME NEW s \in Snapshots PROVE [s EXCEPT !.fresh = FALSE] \in Snapshots
    BY DEF Snapshots
  <2>2. \A c \in Codes : snap[c] \in Snapshots \cup {None}
    BY DEF DocumentInv, DocumentTypeOK
  <2>3. snap' = [c \in Codes |-> IF snap[c] = None THEN None ELSE [snap[c] EXCEPT !.fresh = FALSE]]
    BY DEF Expire
  <2> QED
    BY <2>1, <2>2, <2>3
<1>3. LedgerInv' /\ ApartInv' /\ AtkInv' /\ OrderInv' /\ CarriedInv' /\ VisibleInv' /\ DocumentTypeOK' /\ PendingInv'
  BY <1>1, <1>2
     DEF DocumentInv, LedgerInv, ApartInv, AtkInv, OrderInv, CarriedInv, VisibleInv, DocumentTypeOK, PendingInv
<1> QED
  BY <1>3 DEF DocumentInv

\* Every document the services prepare is one.
LEMMA DocumentsAre ==
  ASSUME NEW o \in Ops, NEW d \in Documents(Kinds[o]), d.kind \in AggregationKinds => PrepareAggregation(d)
  PROVE  IsDocument(d)
<1>1. Kinds[o] \subseteq TurnoverKinds \cup AggregationKinds /\ Batches \subseteq Seq(Units)
  BY DocumentOperationsAssumption
<1>2. d.kind \in Kinds[o] /\ d.codes \in Seq(Units)
  <2> DEFINE K == Kinds[o]
  <2>1. CASE d \in PlainDocuments(K)
    BY <1>1, <2>1 DEF PlainDocuments, Document
  <2>2. CASE d \in ReturnDocuments(K)
    BY <1>1, <2>2 DEF ReturnDocuments, Document
  <2>3. CASE d \in WriteOffDocuments(K)
    BY <1>1, <2>3 DEF WriteOffDocuments, Document
  <2>4. CASE d \in RemarkDocuments(K)
    <3>1. Singles \subseteq Seq(Units)
      <4>1. \A u \in Units : <<u>> \in Seq(Units)
        OBVIOUS
      <4> QED
        BY <4>1, Zenon DEF Singles
    <3> QED
      BY <1>1, <2>4, <3>1 DEF RemarkDocuments, Document
  <2> QED
    BY <2>1, <2>2, <2>3, <2>4 DEF Documents
<1>3. d.kind \in AggregationKinds => d.codes # << >>
  BY DEF PrepareAggregation, AggregationToWire
<1> QED
  BY <1>1, <1>2, <1>3 DEF IsDocument

\* Preparing evidence touches no row.
LEMMA EvidenceKeeps ==
  ASSUME DocumentInv, UNCHANGED <<reg, ptype, snap, led, jobs, doc, todo, seen>>,
         NEW o \in Ops, NEW d, IsDocument(d), evid' = [evid EXCEPT ![o] = Evidence(d)]
  PROVE  DocumentInv'
<1>1. IsEvidence(Evidence(d))
  <2>1. Evidence(d).d = d /\ \A c \in Units : Evidence(d).pre[c] = IF snap[c] = None THEN None ELSE snap[c].parent
    BY DEF Evidence
  <2>2. \A c \in Units : snap[c] # None => snap[c].parent \in {None, Pack}
    BY DEF DocumentInv, DocumentTypeOK, Snapshots, Codes
  <2> QED
    BY <2>1, <2>2 DEF IsEvidence
<1>2. CarriedInv'
  <2>1. \A p \in Ops : evid'[p] = evid[p] \/ evid'[p] = Evidence(d)
    BY DEF DocumentInv
  <2> QED
    BY <1>1, <2>1 DEF DocumentInv, CarriedInv
<1>3. LedgerInv' /\ ApartInv' /\ AtkInv' /\ OrderInv' /\ VisibleInv' /\ DocumentTypeOK' /\ PendingInv'
  BY DEF DocumentInv, LedgerInv, ApartInv, AtkInv, OrderInv, VisibleInv, DocumentTypeOK, PendingInv
<1> QED
  BY <1>2, <1>3 DEF DocumentInv

LEMMA ValidationKeeps ==
  ASSUME DocumentInv, NEW o \in Ops, NEW d \in Documents(Kinds[o]),
         ValidateTurnover(o, d) \/ ValidateAggregation(o, d)
  PROVE  DocumentInv'
<1>1. /\ UNCHANGED <<reg, ptype, snap, led, jobs, doc, todo, seen>>
      /\ evid' = [evid EXCEPT ![o] = Evidence(d)]
  BY DEF ValidateTurnover, ValidateAggregation
<1>2. d.kind \in AggregationKinds => PrepareAggregation(d)
  BY KindsApart DEF ValidateTurnover, ValidateAggregation
<1>3. IsDocument(d)
  BY <1>2, DocumentsAre
<1> QED
  BY <1>1, <1>3, EvidenceKeeps

LEMMA CancelKeeps ==
  ASSUME DocumentInv, NEW o \in Ops, NEW source \in Ops, ValidateCancel(o, source)
  PROVE  DocumentInv'
<1> DEFINE d == Document("CANCEL_WITHDRAWAL", led[source].d.codes, {}, None, None, FALSE, source)
<1>1. /\ UNCHANGED <<reg, ptype, snap, led, jobs, doc, todo, seen>>
      /\ evid' = [evid EXCEPT ![o] = Evidence(d)] /\ source \in DOMAIN led
  BY DEF ValidateCancel
<1>2. d.kind = "CANCEL_WITHDRAWAL" /\ d.codes = led[source].d.codes
  BY DEF Document
<1>3. led[source].d.codes \in Seq(Units)
  BY <1>1 DEF DocumentInv, CarriedInv, IsEvidence, IsDocument
<1>4. IsDocument(d)
  BY <1>2, <1>3, KindsApart DEF IsDocument, TurnoverKinds
<1> HIDE DEF d
<1> QED
  BY <1>1, <1>4, EvidenceKeeps

\* queue_prevalidated's first call: the new row has no document yet.
LEMMA QueueKeeps ==
  ASSUME DocumentInv, NEW o \in Ops, o \notin DOMAIN led, evid[o] # None, NEW restore,
         evid[o].d.kind \in TurnoverKinds => restore = Restore(evid[o].d),
         led' = Stored(o, Row(evid[o], restore)),
         jobs' = [jobs EXCEPT ![o] = Append(@, evid[o].d)],
         evid' = [evid EXCEPT ![o] = None],
         UNCHANGED <<reg, ptype, snap, doc, todo, seen>>
  PROVE  DocumentInv'
<1> DEFINE r == Row(evid[o], restore)
<1>1. LedgerInv'
  <2>1. PICK e : e = evid[o]
    OBVIOUS
  <2>2. LedgerInv /\ led' = Stored(o, Row(e, restore)) /\ jobs' = [jobs EXCEPT ![o] = Append(@, e.d)]
    BY <2>1 DEF DocumentInv
  <2> QED
    BY <2>2, RowStored
<1>2. /\ DOMAIN led' = DOMAIN led \cup {o} /\ led'[o] = r
      /\ \A p \in DOMAIN led : led'[p] = led[p]
  BY DEF Stored
<1>3. /\ r.d = evid[o].d /\ r.pre = evid[o].pre /\ r.restore = restore
      /\ r.state = "RECONCILIATION_PENDING" /\ r.remote = None
  BY DEF Row
<1> HIDE DEF r
<1>4. todo[o] = {}
  BY DocumentOperationsAssumption DEF DocumentInv, OrderInv, DocStates
<1>5. CarriedInv'
  <2>1. IsEvidence(r)
    BY <1>3 DEF DocumentInv, CarriedInv, IsEvidence
  <2>2. r.d.kind \in TurnoverKinds => r.restore = Restore(r.d)
    BY <1>3
  <2>3. \A p \in Ops : evid'[p] = evid[p] \/ evid'[p] = None
    BY DEF DocumentInv
  <2> QED
    BY <1>2, <2>1, <2>2, <2>3 DEF DocumentInv, CarriedInv
<1>6. PendingInv'
  BY <1>2, <1>4 DEF DocumentInv, PendingInv
<1>7. VisibleInv' /\ OrderInv'
  BY <1>2, <1>3 DEF DocumentInv, VisibleInv, OrderInv
<1>8. AtkInv' /\ ApartInv'
  BY <1>2, <1>4 DEF DocumentInv, AtkInv, ApartInv
<1>9. DocumentTypeOK'
  BY <1>2, <1>3 DEF DocumentInv, DocumentTypeOK, States
<1> QED
  BY <1>1, <1>5, <1>6, <1>7, <1>8, <1>9 DEF DocumentInv

\* A repeated call answers from the row.
LEMMA ReplayKeeps ==
  ASSUME DocumentInv, NEW o \in Ops, evid' = [evid EXCEPT ![o] = None],
         UNCHANGED <<reg, ptype, snap, led, jobs, doc, todo, seen>>
  PROVE  DocumentInv'
<1>1. CarriedInv'
  <2>1. \A p \in Ops : evid'[p] = evid[p] \/ evid'[p] = None
    BY DEF DocumentInv
  <2> QED
    BY <2>1 DEF DocumentInv, CarriedInv
<1>2. LedgerInv' /\ ApartInv' /\ AtkInv' /\ OrderInv' /\ VisibleInv' /\ DocumentTypeOK' /\ PendingInv'
  BY DEF DocumentInv, LedgerInv, ApartInv, AtkInv, OrderInv, VisibleInv, DocumentTypeOK, PendingInv
<1> QED
  BY <1>1, <1>2 DEF DocumentInv

LEMMA QueuesKeep ==
  ASSUME DocumentInv, NEW o \in Ops, QueueTurnover(o) \/ QueueAggregation(o)
  PROVE  DocumentInv'
<1>1. evid[o] # None /\ evid' = [evid EXCEPT ![o] = None] /\ UNCHANGED <<reg, ptype, snap, doc, todo, seen>>
  BY DEF QueueTurnover, QueueAggregation, Unqueued
<1>2. CASE o \in DOMAIN led
  <2>1. UNCHANGED <<led, jobs>>
    BY <1>2 DEF QueueTurnover, QueueAggregation
  <2> QED
    BY <1>1, <2>1, ReplayKeeps
<1>3. CASE o \notin DOMAIN led
  <2>1. PICK restore :
          /\ led' = Stored(o, Row(evid[o], restore))
          /\ evid[o].d.kind \in TurnoverKinds => restore = Restore(evid[o].d)
    <3>1. CASE QueueTurnover(o)
      BY <1>3, <3>1 DEF QueueTurnover
    <3>2. CASE QueueAggregation(o)
      BY <1>3, <3>2, KindsApart DEF QueueAggregation
    <3> QED
      BY <3>1, <3>2
  <2>2. jobs' = [jobs EXCEPT ![o] = Append(@, evid[o].d)]
    BY <1>3 DEF QueueTurnover, QueueAggregation
  <2> QED
    BY <1>1, <1>3, <2>1, <2>2, QueueKeeps
<1> QED
  BY <1>2, <1>3

\* A remote id or a verdict is written into a row.
LEMMA RowKeeps ==
  ASSUME DocumentInv, NEW o \in DOMAIN led, NEW r,
         DOMAIN led' = DOMAIN led, \A p \in DOMAIN led : led'[p] = IF p = o THEN r ELSE led[p],
         r.d = led[o].d, r.pre = led[o].pre, r.restore = led[o].restore,
         r.state \in States, r.remote \in {None, "ours", "other"}, LedgerInv',
         r.state = "RECONCILED" =>
           /\ doc[o] = "CHECKED_OK"
           /\ \A c \in Codes, x \in Facets : <<c, x>> \in todo[o] =>
                IF r.d.kind \in AggregationKinds THEN x = "STATE" ELSE x = "PARENT" /\ r.pre[c] = None,
         UNCHANGED <<reg, ptype, snap, evid, jobs, doc, todo, seen>>
  PROVE  DocumentInv'
<1>1. VisibleInv'
  BY DEF DocumentInv, VisibleInv
<1>2. CarriedInv'
  BY DEF DocumentInv, CarriedInv, IsEvidence
<1>3. DocumentTypeOK'
  BY DEF DocumentInv, DocumentTypeOK
<1>4. ApartInv' /\ OrderInv'
  BY DEF DocumentInv, ApartInv, OrderInv
<1>5. AtkInv'
  BY DEF DocumentInv, AtkInv
<1>6. PendingInv'
  BY DEF DocumentInv, PendingInv
<1> QED
  BY <1>1, <1>2, <1>3, <1>4, <1>5, <1>6 DEF DocumentInv

\* The fields of a row and what changing one of them leaves alone.
LEMMA RowFields ==
  ASSUME LedgerInv, NEW o \in DOMAIN led, NEW x
  PROVE  /\ LET r == [led[o] EXCEPT !.remote = x]
            IN r.d = led[o].d /\ r.pre = led[o].pre /\ r.restore = led[o].restore
               /\ r.state = led[o].state /\ r.remote = x
         /\ LET r == [led[o] EXCEPT !.state = x]
            IN r.d = led[o].d /\ r.pre = led[o].pre /\ r.restore = led[o].restore
               /\ r.remote = led[o].remote /\ r.state = x
<1>1. PICK D, V : led[o] \in [d : D, pre : V, kids : V, state : V, remote : V, restore : V]
  BY DEF LedgerInv, IsRow
<1> QED
  BY <1>1

LEMMA RecordedKeeps ==
  ASSUME DocumentInv, NEW o \in Ops, NEW id \in {"ours", "other"},
         RecordRemoteDocument(o, id) \/ RecordAggregationDocument(o, id)
  PROVE  DocumentInv'
<1>1. /\ o \in DOMAIN led /\ led' = [led EXCEPT ![o].remote = id]
      /\ UNCHANGED <<reg, ptype, snap, evid, jobs, doc, todo, seen>>
  BY DEF RecordRemoteDocument, RecordAggregationDocument, Recordable, Recorded
<1>2. PICK r : r = [led[o] EXCEPT !.remote = id]
  OBVIOUS
<1>3. r.d = led[o].d /\ r.pre = led[o].pre /\ r.restore = led[o].restore /\ r.state = led[o].state /\ r.remote = id
  BY <1>1, <1>2, RowFields DEF DocumentInv
<1>4. DOMAIN led' = DOMAIN led /\ \A p \in DOMAIN led : led'[p] = IF p = o THEN r ELSE led[p]
  BY <1>1, <1>2
<1>5. LedgerInv'
  BY <1>1, RowUpdated DEF DocumentInv
<1>6. /\ r.state \in States /\ r.remote \in {None, "ours", "other"}
      /\ r.state = "RECONCILED" =>
           /\ doc[o] = "CHECKED_OK"
           /\ \A c \in Codes, x \in Facets : <<c, x>> \in todo[o] =>
                IF r.d.kind \in AggregationKinds THEN x = "STATE" ELSE x = "PARENT" /\ r.pre[c] = None
  BY <1>1, <1>3 DEF DocumentInv, DocumentTypeOK, VisibleInv
<1> QED
  BY <1>1, <1>3, <1>4, <1>5, <1>6, RowKeeps

(* The verdicts                                                            *)

\* OperationReconciliationService.reconcile confirms what it has seen.
LEMMA ReconciledIsSeen ==
  ASSUME NEW d, NEW status, NEW cs, NEW sn, NEW restore, NEW obs,
         ReconcileTurnover(d, status, cs, sn, restore, obs, TRUE) = "RECONCILED"
  PROVE  /\ status = "CHECKED_OK"
         /\ \A c \in cs : Postcondition(d, sn[c], restore) /\ SideEffectConfirmed(d.kind, obs[c])
<1>1. status = "CHECKED_OK"
  <2>1. CASE status \in FailedDocument
    BY <2>1 DEF ReconcileTurnover, FailedDocument
  <2>2. CASE status \notin FailedDocument \cup {"CHECKED_OK"}
    BY <2>2 DEF ReconcileTurnover
  <2> QED
    BY <2>1, <2>2
<1>2. \A c \in cs : Postcondition(d, sn[c], restore) /\ SideEffectConfirmed(d.kind, obs[c])
  BY <1>1, Zenon DEF ReconcileTurnover, FailedDocument
<1> QED
  BY <1>1, <1>2

\* A code that is still in its package confirms no side effect.
LEMMA StayedIsUnconfirmed ==
  ASSUME NEW kind \in TurnoverKinds, kind # "CANCEL_WITHDRAWAL", NEW ob,
         SideEffectConfirmed(kind, ob), ob.post = ob.pre, ob.type \in {"BOX", "SET", "ATK"},
         ob.target = "UNIT", ~ob.colorSize, ~ob.replaced, kind = "REMARK" => ob.type # "ATK"
  PROVE  ob.pre = None
  BY DEF SideEffectConfirmed, TurnoverKinds, Introductions, Returns

\* A turnover row is reconciled when every code shows the document's effect.
LEMMA TurnoverIsVisible ==
  ASSUME DocumentInv, NEW o \in DOMAIN led, Reconcilable(o), led[o].d.kind \in TurnoverKinds,
         TurnoverVerdict(o) = "RECONCILED"
  PROVE  /\ doc[o] = "CHECKED_OK"
         /\ \A c \in Codes, x \in Facets : <<c, x>> \in todo[o] => x = "PARENT" /\ led[o].pre[c] = None
<1> DEFINE d == led[o].d
           obs == Observations(o)
<1>1. o \in Ops /\ d.kind \notin AggregationKinds /\ led[o].restore = Restore(d)
  BY KindsApart DEF DocumentInv, LedgerInv, CarriedInv
<1>2. /\ seen[o] = "CHECKED_OK"
      /\ \A c \in CodesOf(d) : Postcondition(d, snap[c], Restore(d)) /\ SideEffectConfirmed(d.kind, obs[c])
  <2> HIDE DEF obs
  <2>1. ReconcileTurnover(d, seen[o], CodesOf(d), snap, Restore(d), obs, TRUE) = "RECONCILED"
    BY <1>1, Zenon DEF TurnoverVerdict, obs
  <2> HIDE DEF d
  <2> QED
    BY <2>1, ReconciledIsSeen
<1>3. doc[o] = "CHECKED_OK"
  BY <1>1, <1>2 DEF DocumentInv, OrderInv
<1>4. ASSUME NEW c \in Codes, NEW x \in Facets, <<c, x>> \in todo[o]
      PROVE  x = "PARENT" /\ led[o].pre[c] = None
  <2>1. Concerns(d, c, x) /\ Unread(snap, d, c, x)
    BY <1>2, <1>4 DEF DocumentInv, PendingInv
  <2>2. c \in CodesOf(d) /\ c \in Units
    BY <2>1, CodesAreUnits DEF Concerns, DocumentInv, CarriedInv, IsEvidence
  <2>3. Untouched(d, x, snap[c])
    BY <2>1, <2>2 DEF Reconcilable, Affected, Unread
  <2>4. x = "PARENT"
    BY <1>2, <2>2, <2>3 DEF Untouched, Facets
  <2>5. snap[c].parent = Pack /\ led[o].pre[c] \in {None, Pack}
    BY <1>1, <2>2, <2>3, <2>4, KindsApart DEF Untouched, DocumentInv, CarriedInv, IsEvidence
  <2>6. ASSUME led[o].pre[c] = Pack PROVE FALSE
    <3>1. /\ obs[c].pre = led[o].pre[c] /\ obs[c].post = snap[c].parent /\ obs[c].type = ptype
          /\ obs[c].target = "UNIT" /\ ~obs[c].colorSize /\ ~obs[c].replaced
      BY <2>2 DEF Observations
    <3>2. ptype \in {"BOX", "SET", "ATK"} /\ (d.kind = "REMARK" => ptype # "ATK")
      BY <1>4, <2>2, <2>4 DEF DocumentInv, DocumentTypeOK, AtkInv
    <3>3. d.kind # "CANCEL_WITHDRAWAL" /\ SideEffectConfirmed(d.kind, obs[c])
      BY <1>2, <2>1, <2>2, <2>4 DEF Concerns
    <3> HIDE DEF obs, d
    <3>4. d.kind \in TurnoverKinds
      BY DEF d
    <3>5. obs[c].pre = None
      BY <2>5, <2>6, <3>1, <3>2, <3>3, <3>4, StayedIsUnconfirmed
    <3> QED
      BY <2>6, <3>1, <3>5, DocumentOperationsAssumption
  <2> QED
    BY <2>4, <2>5, <2>6
<1> QED
  BY <1>3, <1>4

LEMMA ExpectedIs ==
  ASSUME NEW r
  PROVE  /\ r.d.kind \in Forms => Expected(r) = CodesOf(r.d)
         /\ r.d.kind \in Adds => Expected(r) = r.kids \cup CodesOf(r.d)
         /\ r.d.kind \in Removes => Expected(r) = r.kids \ CodesOf(r.d)
<1>1. /\ r.d.kind \in Forms => RelationDelta(r.d.kind) = "FORM"
      /\ r.d.kind \in Adds => RelationDelta(r.d.kind) = "ADD"
      /\ r.d.kind \in Removes => RelationDelta(r.d.kind) = "REMOVE"
  <2>1. ASSUME NEW k
        PROVE  /\ k \in Forms => RelationDelta(k) = "FORM"
               /\ k \in Adds => RelationDelta(k) = "ADD"
               /\ k \in Removes => RelationDelta(k) = "REMOVE"
    <3>1. CASE k \in Forms
      BY <3>1 DEF RelationDelta, Forms, PackageForms, SetForms, Adds, Removes, Disaggregations
    <3>2. CASE k \in Adds
      BY <3>2 DEF RelationDelta, Forms, PackageForms, SetForms, Adds, Removes, Disaggregations
    <3>3. CASE k \in Removes
      BY <3>3 DEF RelationDelta, Forms, PackageForms, SetForms, Adds, Removes, Disaggregations
    <3> QED
      BY <3>1, <3>2, <3>3
  <2> QED
    BY <2>1
<1>2. /\ RelationDelta(r.d.kind) = "FORM" => Expected(r) = CodesOf(r.d)
      /\ RelationDelta(r.d.kind) = "ADD" => Expected(r) = r.kids \cup CodesOf(r.d)
      /\ RelationDelta(r.d.kind) = "REMOVE" => Expected(r) = r.kids \ CodesOf(r.d)
  BY DEF Expected
<1> QED
  BY <1>1, <1>2

\* A formed ATK is found as the parent of its children.
LEMMA AtkIsFound ==
  ASSUME NEW status, NEW children, NEW parentOf, NEW pkgOf, NEW kidsOf,
         \A c \in children : parentOf[c] \in {None, Pack},
         ReconcileAtkFormation(status, children, parentOf, pkgOf, kidsOf) = "RECONCILED"
  PROVE  status = "CHECKED_OK" /\ kidsOf[Pack] = children
<1> DEFINE found == {parentOf[c] : c \in children} \ {None}
<1>1. status = "CHECKED_OK" /\ \E p \in found : kidsOf[p] = children
  BY DEF ReconcileAtkFormation, Verdict
<1>2. \A p \in found : p = Pack
  OBVIOUS
<1> QED
  BY <1>1, <1>2

\* An aggregation row is reconciled when the package and its children show it.
LEMMA AggregationIsVisible ==
  ASSUME DocumentInv, NEW o \in DOMAIN led, Reconcilable(o), led[o].d.kind \in AggregationKinds,
         AggregationVerdict(o) = "RECONCILED"
  PROVE  /\ doc[o] = "CHECKED_OK"
         /\ \A c \in Codes, x \in Facets : <<c, x>> \in todo[o] => x = "STATE"
<1> DEFINE r == led[o]
           d == r.d
           kids == snap[Pack].kids
<1>1. o \in Ops /\ Pack \in Affected(d) /\ snap[Pack] # None
  BY DEF DocumentInv, LedgerInv, Reconcilable, Affected
<1>2. /\ seen[o] = "CHECKED_OK"
      /\ d.kind \in Forms => kids = CodesOf(d)
      /\ d.kind \in Adds => kids = r.kids \cup CodesOf(d)
      /\ d.kind \in Removes => kids = r.kids \ CodesOf(d)
      /\ d.kind \in Disaggregations => kids = {}
  <2> DEFINE parentOf == [c \in Units |-> IF snap[c] = None THEN Pack ELSE snap[c].parent]
             former == IF d.kind \in Disaggregations THEN r.kids ELSE CodesOf(d)
             kidsOf == [p \in {Pack} |-> snap[Pack].kids]
             pkgOf == [p \in {Pack} |-> ptype]
  <2>1. CASE d.kind = "FORM_ATK"
    <3>1. ReconcileAtkFormation(seen[o], CodesOf(d), parentOf, pkgOf, kidsOf) = "RECONCILED"
      BY <2>1 DEF AggregationVerdict
    <3>2. \A c \in CodesOf(d) : parentOf[c] \in {None, Pack}
      <4>1. CodesOf(d) \subseteq Units
        BY CodesAreUnits DEF DocumentInv, CarriedInv, IsEvidence
      <4>2. \A c \in Units : snap[c] # None => snap[c].parent \in {None, Pack}
        BY DEF DocumentInv, DocumentTypeOK, Snapshots, Codes
      <4> QED
        BY <4>1, <4>2
    <3>3. kidsOf[Pack] = kids
      OBVIOUS
    <3> HIDE DEF kidsOf, pkgOf, parentOf, kids, d
    <3>4. seen[o] = "CHECKED_OK" /\ kidsOf[Pack] = CodesOf(d)
      BY <3>1, <3>2, AtkIsFound
    <3> QED
      BY <2>1, <3>3, <3>4 DEF Adds, Removes, Disaggregations
  <2>2. CASE d.kind \in {"TRANSFORM_ATK_ADD", "TRANSFORM_ATK_REMOVE"}
    <3>1. ReconcileAtkTransformation(d.kind, seen[o], Pack, Expected(r), CodesOf(d), kids, parentOf) = "RECONCILED"
      BY <2>2 DEF AggregationVerdict
    <3> HIDE DEF parentOf, kids, d
    <3>2. seen[o] = "CHECKED_OK" /\ kids = Expected(r)
      BY <3>1 DEF ReconcileAtkTransformation, Verdict
    <3> QED
      BY <2>2, <3>2, ExpectedIs DEF d, Forms, PackageForms, SetForms, Disaggregations
  <2>3. CASE d.kind = "DISAGGREGATE_ATK"
    <3>1. ReconcileAtkDisaggregation(seen[o], Pack, kids, former, parentOf, hist[Pack]) = "RECONCILED"
      BY <2>3 DEF AggregationVerdict
    <3> HIDE DEF parentOf, kids, d, former
    <3>2. seen[o] = "CHECKED_OK" /\ kids = {}
      BY <3>1 DEF ReconcileAtkDisaggregation, Verdict
    <3> QED
      BY <2>3, <3>2 DEF Forms, PackageForms, SetForms, Adds, Removes
  <2>4. CASE d.kind \notin AtkKinds
    <3>1. ReconcileRelation(d.kind, seen[o], Pack, Expected(r), former, kids, parentOf, hist[Pack], TRUE)
            = "RECONCILED"
      BY <2>4, Zenon DEF AggregationVerdict, AtkKinds
    <3>2. d.kind \in AggregationKinds
      OBVIOUS
    <3> HIDE DEF parentOf, kids, d, former
    <3>3. /\ seen[o] = "CHECKED_OK"
          /\ d.kind \notin Disaggregations => kids = Expected(r)
          /\ d.kind \in Disaggregations => kids = {}
      <4>1. seen[o] = "CHECKED_OK"
        BY <3>1 DEF ReconcileRelation
      <4>2. CASE d.kind \in Incoming
        BY <3>1, <4>1, <4>2, KindsApart DEF ReconcileRelation, Verdict, Incoming
      <4>3. CASE d.kind \in Removes
        BY <3>1, <4>1, <4>3, KindsApart DEF ReconcileRelation, Verdict, Incoming
      <4>4. CASE d.kind \in Disaggregations
        BY <3>1, <4>1, <4>4, KindsApart DEF ReconcileRelation, Verdict, Incoming
      <4> QED
        BY <3>2, <4>1, <4>2, <4>3, <4>4, KindsApart
    <3> QED
      BY <3>3, ExpectedIs, KindsApart DEF d, Incoming
  <2> QED
    BY <2>1, <2>2, <2>3, <2>4 DEF AtkKinds
<1>3. doc[o] = "CHECKED_OK"
  BY <1>1, <1>2 DEF DocumentInv, OrderInv
<1>4. ASSUME NEW c \in Codes, NEW x \in Facets, <<c, x>> \in todo[o], x = "PARENT"
      PROVE  FALSE
  <2>1. Concerns(d, c, x) /\ Unread(snap, d, c, x)
    BY <1>2, <1>4 DEF DocumentInv, PendingInv
  <2>2. c \in kids <=> d.kind \notin Incoming
    BY <1>1, <1>4, <2>1 DEF Unread
  <2>3. c \in CodesOf(d) \/ d.kind \in Disaggregations
    BY <1>4, <2>1 DEF Concerns
  <2> HIDE DEF r, d, kids
  <2>4. d.kind \in Incoming \cup Removes \cup Disaggregations
    BY KindsApart DEF d, r
  <2> QED
    BY <1>2, <2>2, <2>3, <2>4, KindsApart DEF Incoming
<1> QED
  BY <1>3, <1>4 DEF Facets

\* Whatever the contract concludes is a state of the ledger.
LEMMA VerdictTypes ==
  ASSUME NEW o, led[o].d.kind \in AggregationKinds
  PROVE  AggregationVerdict(o) \in States
<1>1. \A ok : Verdict(ok) \in States
  BY DEF Verdict, States
<1> DEFINE k == led[o].d.kind
<1>2. CASE k = "FORM_ATK"
  BY <1>1, <1>2 DEF AggregationVerdict, ReconcileAtkFormation, States
<1>3. CASE k \in {"TRANSFORM_ATK_ADD", "TRANSFORM_ATK_REMOVE"}
  BY <1>1, <1>3 DEF AggregationVerdict, ReconcileAtkTransformation, States
<1>4. CASE k = "DISAGGREGATE_ATK"
  BY <1>1, <1>4 DEF AggregationVerdict, ReconcileAtkDisaggregation, States
<1>5. CASE k \notin AtkKinds
  BY <1>1, <1>5, KindsApart DEF AggregationVerdict, ReconcileRelation, States, AtkKinds, Incoming
<1> QED
  BY <1>2, <1>3, <1>4, <1>5 DEF AtkKinds

LEMMA VerdictKeeps ==
  ASSUME DocumentInv, NEW o \in Ops, Reconcile(o) \/ RecordReconciliation(o)
  PROVE  DocumentInv'
<1>1. o \in DOMAIN led /\ Reconcilable(o) /\ UNCHANGED <<reg, ptype, snap, evid, jobs, doc, todo, seen>>
  BY DEF Reconcile, RecordReconciliation, Reconcilable
<1>2. PICK v \in States :
        /\ led' = [led EXCEPT ![o].state = v]
        /\ v = "RECONCILED" =>
             /\ doc[o] = "CHECKED_OK"
             /\ \A c \in Codes, x \in Facets : <<c, x>> \in todo[o] =>
                  IF led[o].d.kind \in AggregationKinds THEN x = "STATE" ELSE x = "PARENT" /\ led[o].pre[c] = None
  <2>1. CASE Reconcile(o)
    <3>1. led' = [led EXCEPT ![o].state = TurnoverVerdict(o)] /\ led[o].d.kind \in TurnoverKinds
      BY <2>1 DEF Reconcile
    <3>2. TurnoverVerdict(o) \in States
      BY DEF TurnoverVerdict, ReconcileTurnover, States
    <3>3. TurnoverVerdict(o) = "RECONCILED" =>
            /\ doc[o] = "CHECKED_OK"
            /\ \A c \in Codes, x \in Facets : <<c, x>> \in todo[o] => x = "PARENT" /\ led[o].pre[c] = None
      BY <1>1, <3>1, TurnoverIsVisible
    <3>4. led[o].d.kind \notin AggregationKinds
      BY <3>1, KindsApart
    <3> QED
      BY <3>1, <3>2, <3>3, <3>4
  <2>2. CASE RecordReconciliation(o)
    <3>1. led' = [led EXCEPT ![o].state = AggregationVerdict(o)] /\ led[o].d.kind \in AggregationKinds
      BY <2>2 DEF RecordReconciliation
    <3>2. AggregationVerdict(o) \in States
      BY <3>1, VerdictTypes
    <3>3. AggregationVerdict(o) = "RECONCILED" =>
            /\ doc[o] = "CHECKED_OK"
            /\ \A c \in Codes, x \in Facets : <<c, x>> \in todo[o] => x = "STATE"
      BY <1>1, <3>1, AggregationIsVisible
    <3> QED
      BY <3>1, <3>2, <3>3
  <2> QED
    BY <2>1, <2>2
<1>3. PICK r : r = [led[o] EXCEPT !.state = v]
  OBVIOUS
<1>4. r.d = led[o].d /\ r.pre = led[o].pre /\ r.restore = led[o].restore /\ r.remote = led[o].remote /\ r.state = v
  BY <1>1, <1>3, RowFields DEF DocumentInv
<1>5. DOMAIN led' = DOMAIN led /\ \A p \in DOMAIN led : led'[p] = IF p = o THEN r ELSE led[p]
  BY <1>1, <1>2, <1>3
<1>6. LedgerInv'
  BY <1>1, <1>2, RowUpdated DEF DocumentInv
<1>7. /\ r.state \in States /\ r.remote \in {None, "ours", "other"}
      /\ r.state = "RECONCILED" =>
           /\ doc[o] = "CHECKED_OK"
           /\ \A c \in Codes, x \in Facets : <<c, x>> \in todo[o] =>
                IF r.d.kind \in AggregationKinds THEN x = "STATE" ELSE x = "PARENT" /\ r.pre[c] = None
  BY <1>1, <1>2, <1>4 DEF DocumentInv, DocumentTypeOK
<1> QED
  BY <1>1, <1>4, <1>5, <1>6, <1>7, RowKeeps

(* The remote document                                                     *)

\* A caller that has seen the final status holds no older snapshot.
LEMMA StatusKeeps ==
  ASSUME DocumentInv, CallerRereads, NEW o \in Ops, ReadStatus(o)
  PROVE  DocumentInv'
<1>1. /\ o \in DOMAIN led /\ seen' = [seen EXCEPT ![o] = doc[o]]
      /\ snap' = [c \in Codes |-> IF c \in Affected(led[o].d) THEN None ELSE snap[c]]
      /\ UNCHANGED <<reg, ptype, evid, led, jobs, doc, todo>>
  BY DEF ReadStatus
<1>2. seen \in [Ops -> DocStates \cup {None}] /\ doc \in [Ops -> DocStates \cup {None}]
  BY DEF DocumentInv, DocumentTypeOK
<1>3. seen' \in [Ops -> DocStates \cup {None}] /\ \A p \in Ops : seen'[p] = IF p = o THEN doc[o] ELSE seen[p]
  BY <1>1, <1>2
<1>4. snap' \in [Codes -> Snapshots \cup {None}]
  BY <1>1 DEF DocumentInv, DocumentTypeOK
<1>5. DocumentTypeOK'
  BY <1>1, <1>3, <1>4 DEF DocumentInv, DocumentTypeOK
<1>6. OrderInv'
  BY <1>1, <1>3 DEF DocumentInv, OrderInv
<1>7. LedgerInv' /\ ApartInv' /\ AtkInv' /\ CarriedInv' /\ VisibleInv'
  BY <1>1 DEF DocumentInv, LedgerInv, ApartInv, AtkInv, CarriedInv, VisibleInv
<1>8. ASSUME NEW p \in DOMAIN led, NEW c \in Codes, NEW x \in Facets, <<c, x>> \in todo[p],
             seen'[p] = "CHECKED_OK"
      PROVE  Unread(snap', led[p].d, c, x)
  <2>1. p \in Ops
    BY DEF DocumentInv, LedgerInv
  <2>2. CASE p = o
    <3>1. snap'[c] = None \/ c \notin Affected(led[p].d)
      BY <1>1, <2>2
    <3>2. led[p].d.kind \in AggregationKinds => snap'[Pack] = None
      BY <1>1, <2>2 DEF Affected, Codes
    <3> QED
      BY <3>1, <3>2 DEF Unread
  <2>3. CASE p # o
    <3>1. Unread(snap, led[p].d, c, x)
      BY <1>3, <1>8, <2>1, <2>3 DEF DocumentInv, PendingInv
    <3>2. \A u \in Codes : snap'[u] = None \/ snap'[u] = snap[u]
      BY <1>1
    <3>3. Pack \in Codes
      BY DEF Codes
    <3> QED
      BY <3>1, <3>2, <3>3 DEF Unread
  <2> QED
    BY <2>2, <2>3
<1>9. PendingInv'
  BY <1>1, <1>8 DEF DocumentInv, PendingInv
<1> QED
  BY <1>5, <1>6, <1>7, <1>9 DEF DocumentInv

LEMMA CreateKeeps ==
  ASSUME DocumentInv, NEW o \in Ops, Create(o)
  PROVE  DocumentInv'
<1>1. /\ jobs[o] # << >> /\ doc[o] = None /\ doc' = [doc EXCEPT ![o] = "IN_PROGRESS"]
      /\ UNCHANGED <<reg, ptype, snap, evid, led, jobs, todo, seen>>
  BY DEF Create
<1>2. doc' \in [Ops -> DocStates \cup {None}] /\ \A p \in Ops : doc'[p] = IF p = o THEN "IN_PROGRESS" ELSE doc[p]
  BY <1>1 DEF DocumentInv, DocumentTypeOK, DocStates
<1>3. o \in DOMAIN led /\ doc[o] # "CHECKED_OK"
  BY <1>1, DocumentOperationsAssumption DEF DocumentInv, LedgerInv, DocStates
<1>4. OrderInv'
  BY <1>1, <1>2, <1>3 DEF DocumentInv, OrderInv
<1>5. VisibleInv'
  BY <1>1, <1>2, <1>3 DEF DocumentInv, VisibleInv, LedgerInv
<1>6. LedgerInv' /\ ApartInv' /\ AtkInv' /\ CarriedInv' /\ PendingInv'
  BY <1>1 DEF DocumentInv, LedgerInv, ApartInv, AtkInv, CarriedInv, PendingInv
<1>7. DocumentTypeOK'
  BY <1>1, <1>2 DEF DocumentInv, DocumentTypeOK
<1> QED
  BY <1>4, <1>5, <1>6, <1>7 DEF DocumentInv

\* The registry concludes its check of a document.
LEMMA ProcessKeeps ==
  ASSUME DocumentInv, NEW o \in Ops, Process(o)
  PROVE  DocumentInv'
<1> DEFINE d == led[o].d
<1>1. doc[o] = "IN_PROGRESS" /\ o \in DOMAIN led
  BY DocumentOperationsAssumption DEF Process, DocumentInv, OrderInv, DocStates
<1>2. jobs[o][1] = d /\ IsDocument(d)
  BY <1>1 DEF DocumentInv, LedgerInv, CarriedInv, IsEvidence
<1> DEFINE E == todo'[o]
           s == doc'[o]
<1>3. /\ s \in {"CHECKED_OK", "CHECKED_NOT_OK"} /\ doc' = [doc EXCEPT ![o] = s] /\ todo' = [todo EXCEPT ![o] = E]
      /\ E # {} => s = "CHECKED_OK" /\ RegistryAllows(d) /\ E = Effects(d)
  <2>0. doc \in [Ops -> DocStates \cup {None}] /\ DOMAIN todo = Ops
    BY DEF DocumentInv, DocumentTypeOK
  <2>1. CASE RegistryAllows(jobs[o][1]) /\ doc' = [doc EXCEPT ![o] = "CHECKED_OK"] /\ todo' = [todo EXCEPT ![o] = Effects(jobs[o][1])]
    <3>1. RegistryAllows(d) /\ doc' = [doc EXCEPT ![o] = "CHECKED_OK"] /\ todo' = [todo EXCEPT ![o] = Effects(d)]
      BY <1>2, <2>1
    <3> HIDE DEF d
    <3> QED
      BY <2>0, <3>1
  <2>2. CASE doc' = [doc EXCEPT ![o] = "CHECKED_NOT_OK"] /\ todo' = todo
    <3>1. todo[o] = {}
      BY <1>1 DEF DocumentInv, OrderInv
    <3>2. todo' = [todo EXCEPT ![o] = {}]
      BY <2>2, <3>1 DEF DocumentInv, DocumentTypeOK
    <3> HIDE DEF d
    <3> QED
      BY <2>0, <2>2, <3>2
  <2> QED
    BY <2>1, <2>2 DEF Process
<1>4. UNCHANGED <<reg, ptype, snap, evid, led, jobs, seen>>
  BY DEF Process
<1> HIDE DEF d, E, s
<1>5. ASSUME NEW c, NEW x, <<c, x>> \in E, x \in Facets
      PROVE  /\ c \in Codes /\ Concerns(d, c, x) /\ Untouched(d, x, reg[c])
             /\ c \in Units /\ x = "PARENT" /\ ptype = "ATK" => d.kind # "REMARK" /\ reg[c].emission = "FOREIGN"
             /\ \A p \in Ops, y \in Facets : <<c, y>> \notin todo[p]
  <2>1. RegistryAllows(d) /\ <<c, x>> \in Effects(d)
    BY <1>3, <1>5
  <2>2. c \in Codes /\ Concerns(d, c, x)
    BY <1>2, <1>5, <2>1, EffectsConcern DEF DocumentInv
  <2>3. Untouched(d, x, reg[c])
    BY <1>2, <1>5, <2>1, AcceptedBefore DEF DocumentInv
  <2>4. c \in Units /\ x = "PARENT" /\ ptype = "ATK" => d.kind # "REMARK" /\ reg[c].emission = "FOREIGN"
    BY <1>2, <2>1, AcceptedInAtk DEF DocumentInv
  <2>5. c \notin Busy
    <3>1. c \in {e[1] : e \in Effects(d)}
      BY <2>1
    <3>2. ({e[1] : e \in Effects(d)}) \cap Busy = {}
      BY <2>1 DEF RegistryAllows
    <3> QED
      BY <3>1, <3>2
  <2>6. \A p \in Ops, y \in Facets : <<c, y>> \notin todo[p]
    BY <2>5 DEF Busy
  <2> QED
    BY <2>2, <2>3, <2>4, <2>6
<1>6. E \subseteq Codes \X Facets
  <2>1. CASE E = {}
    BY <2>1
  <2>2. CASE E # {}
    <3>1. E = Effects(d)
      BY <1>3, <2>2
    <3>2. CodesOf(d) \subseteq Units
      BY <1>2, CodesAreUnits
    <3> QED
      BY <3>1, <3>2 DEF Effects, Facets, Codes, Kids
  <2> QED
    BY <2>1, <2>2
<1>7. /\ todo' \in [Ops -> SUBSET (Codes \X Facets)]
      /\ \A p \in Ops : todo'[p] = IF p = o THEN E ELSE todo[p]
  BY <1>3, <1>6 DEF DocumentInv, DocumentTypeOK, Facets
<1>8. /\ doc' \in [Ops -> DocStates \cup {None}]
      /\ \A p \in Ops : doc'[p] = IF p = o THEN s ELSE doc[p]
  BY <1>3 DEF DocumentInv, DocumentTypeOK, DocStates
<1>9. DocumentTypeOK'
  BY <1>4, <1>7, <1>8 DEF DocumentInv, DocumentTypeOK, Facets
<1>10. LedgerInv' /\ CarriedInv'
  BY <1>4 DEF DocumentInv, LedgerInv, CarriedInv
<1>11. OrderInv'
  BY <1>1, <1>3, <1>4, <1>7, <1>8 DEF DocumentInv, OrderInv
<1>12. VisibleInv'
  BY <1>1, <1>4, <1>7, <1>8 DEF DocumentInv, VisibleInv, LedgerInv
<1>13. ApartInv'
  BY <1>5, <1>7 DEF DocumentInv, ApartInv
<1>14. AtkInv'
  <2> SUFFICES ASSUME ptype = "ATK", NEW p \in DOMAIN led, NEW c \in Units, <<c, "PARENT">> \in todo'[p]
               PROVE  led[p].d.kind # "REMARK" /\ reg[c].emission = "FOREIGN"
    BY <1>4 DEF DocumentInv, AtkInv
  <2>1. p \in Ops
    BY DEF DocumentInv, LedgerInv
  <2> QED
    BY <1>5, <1>7, <2>1 DEF DocumentInv, AtkInv, Facets, d
<1>15. PendingInv'
  <2> SUFFICES ASSUME NEW p \in DOMAIN led, NEW c \in Codes, NEW x \in Facets, <<c, x>> \in todo'[p]
               PROVE  /\ Concerns(led[p].d, c, x) /\ Untouched(led[p].d, x, reg[c])
                      /\ seen[p] = "CHECKED_OK" => Unread(snap, led[p].d, c, x)
    BY <1>4 DEF PendingInv
  <2>1. p \in Ops
    BY DEF DocumentInv, LedgerInv
  <2>2. CASE p = o
    <3>1. <<c, x>> \in E
      BY <1>7, <2>1, <2>2
    <3>2. seen[o] # "CHECKED_OK"
      BY <1>1 DEF DocumentInv, OrderInv
    <3> QED
      BY <1>5, <2>2, <3>1, <3>2 DEF d
  <2>3. CASE p # o
    BY <1>7, <2>1, <2>3 DEF DocumentInv, PendingInv
  <2> QED
    BY <2>2, <2>3
<1> QED
  BY <1>9, <1>10, <1>11, <1>12, <1>13, <1>14, <1>15 DEF DocumentInv

\* What an effect of a document leaves of a code's state.
LEMMA NewStateIs ==
  ASSUME DocumentTypeOK, NEW d, IsDocument(d), NEW s \in Registered
  PROVE  /\ NewState(d, s) \in Registered /\ NewState(d, s).parent = s.parent
         /\ d.kind \in TurnoverKinds => NewState(d, s).emission = s.emission
<1>1. CASE d.kind \in Incoming
  <2>1. d.codes \in Seq(Units) /\ d.codes # << >>
    BY <1>1, KindsApart DEF IsDocument
  <2>2. d.codes[1] \in Units
    BY <2>1
  <2>3. reg[d.codes[1]] \in Registered
    BY <2>2 DEF DocumentTypeOK, Codes
  <2>4. NewState(d, s) = [s EXCEPT !.status = reg[d.codes[1]].status, !.emission = reg[d.codes[1]].emission]
    <3>1. d.kind \notin Disaggregations /\ d.kind \notin Removes /\ d.kind \notin TurnoverKinds
      BY <1>1, KindsApart
    <3>2. d.kind # "WITHDRAW_DISTANCE" /\ d.kind # "WRITE_OFF" /\ d.kind \in Forms \cup Adds
      BY <1>1, <3>1 DEF TurnoverKinds, Incoming
    <3> QED
      BY <3>1, <3>2 DEF NewState
  <2>5. d.kind \notin TurnoverKinds
    BY <1>1, KindsApart
  <2> QED
    BY <2>3, <2>4, <2>5 DEF Registered
<1>2. CASE d.kind \notin Incoming
  <2>1. NewState(d, s) \in {[s EXCEPT !.status = "RETIRED", !.reason = "DISTANCE"],
                            [s EXCEPT !.status = "WRITTEN_OFF", !.ex = None],
                            [s EXCEPT !.status = "DISAGGREGATED"], s,
                            [s EXCEPT !.status = "INTRODUCED", !.reason = None, !.ex = None]}
    <3>1. d.kind \notin Forms \cup Adds
      BY <1>2 DEF Incoming
    <3>2. CASE d.kind = "WITHDRAW_DISTANCE"
      BY <3>1, <3>2 DEF NewState, Disaggregations, Removes
    <3>3. CASE d.kind = "WRITE_OFF"
      BY <3>1, <3>3 DEF NewState, Disaggregations, Removes
    <3>4. CASE d.kind \in Disaggregations
      BY <3>1, <3>4 DEF NewState, Disaggregations, Removes
    <3>5. CASE d.kind \in Removes
      BY <3>1, <3>5 DEF NewState, Disaggregations, Removes
    <3>6. CASE d.kind \notin Disaggregations \cup Removes \cup {"WITHDRAW_DISTANCE", "WRITE_OFF"}
      BY <3>1, <3>6 DEF NewState
    <3> QED
      BY <3>2, <3>3, <3>4, <3>5, <3>6
  <2> QED
    BY <2>1 DEF Registered, Statuses, Reasons
<1> QED
  BY <1>1, <1>2

\* An accepted effect becomes visible on one code.
LEMMA AppearKeeps ==
  ASSUME DocumentInv, NEW o \in Ops, NEW e \in todo[o], Appear(o, e)
  PROVE  DocumentInv'
<1> DEFINE d == led[o].d
<1>1. PICK c \in Codes, x \in Facets : e = <<c, x>>
  BY DEF DocumentInv, DocumentTypeOK, Facets
<1>2. o \in DOMAIN led /\ doc[o] = "CHECKED_OK"
  BY DocumentOperationsAssumption DEF DocumentInv, OrderInv, DocStates
<1>3. jobs[o][1] = d /\ IsDocument(d) /\ Concerns(d, c, x)
  BY <1>1, <1>2 DEF DocumentInv, LedgerInv, CarriedInv, IsEvidence, PendingInv
<1> HIDE DEF d
<1>4. PICK s : s = IF x = "STATE" THEN NewState(d, reg[c])
                   ELSE [reg[c] EXCEPT !.parent = IF d.kind \in Incoming THEN Pack ELSE None]
  OBVIOUS
<1>5. /\ todo' = [todo EXCEPT ![o] = todo[o] \ {e}] /\ reg' = [reg EXCEPT ![c] = s]
      /\ UNCHANGED <<ptype, snap, evid, led, jobs, doc, seen>>
  BY <1>1, <1>3, <1>4 DEF Appear, Incoming
<1>6. /\ reg[c] \in Registered
      /\ s \in Registered
      /\ x = "STATE" => s.parent = reg[c].parent
      /\ x = "PARENT" => s.status = reg[c].status /\ s.reason = reg[c].reason /\ s.ex = reg[c].ex
      /\ c \in Units => s.emission = reg[c].emission
  <2>1. reg[c] \in Registered
    BY DEF DocumentInv, DocumentTypeOK
  <2>2. CASE x = "STATE"
    <3>1. c \in Units => d.kind \in TurnoverKinds
      BY <1>3, <2>2, DocumentOperationsAssumption DEF Concerns, IsDocument
    <3> QED
      BY <1>3, <1>4, <2>1, <2>2, <3>1, NewStateIs DEF DocumentInv
  <2>3. CASE x = "PARENT"
    BY <1>4, <2>1, <2>3 DEF Registered
  <2> QED
    BY <2>1, <2>2, <2>3 DEF Facets
<1>7. reg' \in [Codes -> Registered] /\ \A u \in Codes : reg'[u] = IF u = c THEN s ELSE reg[u]
  BY <1>5, <1>6 DEF DocumentInv, DocumentTypeOK
<1>8. /\ todo' \in [Ops -> SUBSET (Codes \X Facets)]
      /\ \A p \in Ops : todo'[p] \subseteq todo[p]
      /\ <<c, x>> \notin todo'[o]
  BY <1>1, <1>5 DEF DocumentInv, DocumentTypeOK, Facets
<1>9. DocumentTypeOK'
  BY <1>5, <1>7, <1>8 DEF DocumentInv, DocumentTypeOK, Facets
<1>10. LedgerInv' /\ CarriedInv'
  BY <1>5 DEF DocumentInv, LedgerInv, CarriedInv
<1>11. OrderInv' /\ ApartInv'
  <2>1. ApartInv'
    BY <1>8 DEF DocumentInv, ApartInv
  <2>2. OrderInv'
    BY <1>5, <1>8 DEF DocumentInv, OrderInv
  <2> QED
    BY <2>1, <2>2
<1>12. VisibleInv'
  <2>1. \A p \in DOMAIN led : p \in Ops
    BY DEF DocumentInv, LedgerInv
  <2> QED
    BY <1>5, <1>8, <2>1 DEF DocumentInv, VisibleInv
<1>13. AtkInv'
  <2>1. ASSUME ptype = "ATK", NEW u \in Units, reg'[u].parent = Pack PROVE reg'[u].emission = "FOREIGN"
    <3>1. CASE u # c
      BY <1>7, <2>1, <3>1 DEF DocumentInv, AtkInv, Codes
    <3>2. CASE u = c /\ x = "STATE"
      BY <1>6, <1>7, <2>1, <3>2 DEF DocumentInv, AtkInv, Codes
    <3>3. CASE u = c /\ x = "PARENT"
      BY <1>1, <1>2, <1>6, <1>7, <2>1, <3>3 DEF DocumentInv, AtkInv, Codes
    <3> QED
      BY <3>1, <3>2, <3>3 DEF Facets
  <2>2. ASSUME ptype = "ATK", NEW p \in DOMAIN led, NEW u \in Units, <<u, "PARENT">> \in todo'[p]
        PROVE  led[p].d.kind # "REMARK" /\ reg'[u].emission = "FOREIGN"
    <3>1. p \in Ops
      BY DEF DocumentInv, LedgerInv
    <3>2. led[p].d.kind # "REMARK" /\ reg[u].emission = "FOREIGN"
      BY <1>8, <2>2, <3>1 DEF DocumentInv, AtkInv
    <3> QED
      BY <1>6, <1>7, <3>2 DEF Codes
  <2> QED
    BY <1>5, <2>1, <2>2 DEF AtkInv
<1>14. PendingInv'
  <2> SUFFICES ASSUME NEW p \in DOMAIN led, NEW u \in Codes, NEW y \in Facets, <<u, y>> \in todo'[p]
               PROVE  /\ Concerns(led[p].d, u, y) /\ Untouched(led[p].d, y, reg'[u])
                      /\ seen[p] = "CHECKED_OK" => Unread(snap, led[p].d, u, y)
    BY <1>5 DEF PendingInv
  <2>1. p \in Ops /\ <<u, y>> \in todo[p]
    BY <1>8 DEF DocumentInv, LedgerInv
  <2>2. /\ Concerns(led[p].d, u, y) /\ Untouched(led[p].d, y, reg[u])
        /\ seen[p] = "CHECKED_OK" => Unread(snap, led[p].d, u, y)
    BY <2>1 DEF DocumentInv, PendingInv
  <2>3. CASE u # c
    BY <1>7, <2>2, <2>3
  <2>4. CASE u = c
    <3>1. p = o
      BY <1>1, <2>1, <2>4 DEF DocumentInv, ApartInv
    <3>2. y # x
      BY <1>8, <2>4, <3>1
    <3>3. reg'[u] = s
      BY <1>7, <2>4
    <3>4. CASE y = "STATE"
      BY <1>6, <2>2, <2>4, <3>2, <3>3, <3>4 DEF Untouched, Postcondition, Plain, Facets
    <3>5. CASE y = "PARENT"
      BY <1>6, <2>2, <2>4, <3>2, <3>3, <3>5 DEF Untouched, Facets
    <3> QED
      BY <2>2, <3>4, <3>5 DEF Facets
  <2> QED
    BY <2>3, <2>4
<1> QED
  BY <1>9, <1>10, <1>11, <1>12, <1>13, <1>14 DEF DocumentInv

\* A sale elsewhere takes a code that no document waits for.
LEMMA SaleKeeps ==
  ASSUME DocumentInv, NEW c \in Codes, SoldElsewhere(c)
  PROVE  DocumentInv'
<1>1. /\ c \notin Busy /\ UNCHANGED <<ptype, snap, evid, led, jobs, doc, todo, seen>>
      /\ reg' = [reg EXCEPT ![c].status = "RETIRED", ![c].reason = "RETAIL"]
  BY DEF SoldElsewhere
<1>2. reg[c] \in Registered
  BY DEF DocumentInv, DocumentTypeOK
<1>3. PICK s : s = [reg[c] EXCEPT !.status = "RETIRED", !.reason = "RETAIL"]
  OBVIOUS
<1>4. s \in Registered /\ s.parent = reg[c].parent /\ s.emission = reg[c].emission
  BY <1>2, <1>3 DEF Registered, Statuses, Reasons
<1>5. reg' \in [Codes -> Registered] /\ \A u \in Codes : reg'[u] = IF u = c THEN s ELSE reg[u]
  BY <1>1, <1>3, <1>4 DEF DocumentInv, DocumentTypeOK
<1>6. \A p \in Ops : \A y : <<c, y>> \notin todo[p]
  BY <1>1 DEF Busy
<1>7. DocumentTypeOK'
  BY <1>1, <1>5 DEF DocumentInv, DocumentTypeOK
<1>8. LedgerInv' /\ CarriedInv' /\ OrderInv' /\ ApartInv' /\ VisibleInv'
  BY <1>1 DEF DocumentInv, LedgerInv, CarriedInv, OrderInv, ApartInv, VisibleInv
<1>9. AtkInv'
  BY <1>1, <1>4, <1>5 DEF DocumentInv, AtkInv, Codes
<1>10. PendingInv'
  <2>1. \A p \in DOMAIN led : p \in Ops
    BY DEF DocumentInv, LedgerInv
  <2> QED
    BY <1>1, <1>5, <1>6, <2>1 DEF DocumentInv, PendingInv
<1> QED
  BY <1>7, <1>8, <1>9, <1>10 DEF DocumentInv

LEMMA DocumentStarts == DocumentInit => DocumentInv
<1> SUFFICES ASSUME DocumentInit PROVE DocumentInv
  OBVIOUS
<1>1. DOMAIN led = {} /\ \A o \in Ops : evid[o] = None /\ doc[o] = None /\ todo[o] = {} /\ seen[o] = None
  BY DEF DocumentInit
<1>2. LedgerInv
  BY LedgerStarts
<1>3. PICK e \in Emissions, st \in {"APPLIED", "INTRODUCED"}, inside \in Insides :
        /\ ptype = "ATK" /\ inside # {} => st = "APPLIED" /\ e = "FOREIGN"
        /\ reg = [c \in Codes |->
                 [status |-> IF c = Pack /\ inside = {}
                             THEN IF ptype = "SET" THEN "APPLIED" ELSE "ABSENT" ELSE st,
                  ex |-> None, reason |-> None, emission |-> e, indi |-> e = "LOCAL",
                  ours |-> TRUE, parent |-> IF c \in inside THEN Pack ELSE None]]
  BY DEF DocumentInit
<1>4. reg \in [Codes -> Registered]
  BY <1>3 DEF Registered, Statuses, Reasons
<1>5. AtkInv
  <2>1. \A c \in Units : reg[c].parent = Pack => inside # {} /\ reg[c].emission = e
    BY <1>3, DocumentOperationsAssumption DEF Codes
  <2> QED
    BY <1>1, <1>3, <2>1 DEF AtkInv
<1>6. DocumentTypeOK
  BY <1>1, <1>4 DEF DocumentInit, DocumentTypeOK
<1>7. PendingInv /\ ApartInv /\ OrderInv /\ CarriedInv /\ VisibleInv
  BY <1>1, DocumentOperationsAssumption DEF PendingInv, ApartInv, OrderInv, CarriedInv, VisibleInv, DocStates
<1> QED
  BY <1>2, <1>5, <1>6, <1>7 DEF DocumentInv

LEMMA DocumentSteps ==
  ASSUME CallerRereads, DocumentInv, [DocumentNext]_documentVars
  PROVE  DocumentInv'
<1>1. ASSUME NEW c \in Codes, Read(c) \/ SoldElsewhere(c) PROVE DocumentInv'
  BY <1>1, ReadKeeps, SaleKeeps
<1>2. CASE ReadAll \/ Expire
  BY <1>2, ReadAllKeeps, ExpireKeeps
<1>3. ASSUME NEW o \in Ops, NEW d \in Documents(Kinds[o]), ValidateTurnover(o, d) \/ ValidateAggregation(o, d)
      PROVE  DocumentInv'
  BY <1>3, ValidationKeeps
<1>4. ASSUME NEW o \in Ops, NEW p \in Ops, ValidateCancel(o, p) PROVE DocumentInv'
  BY <1>4, CancelKeeps
<1>5. ASSUME NEW o \in Ops, QueueTurnover(o) \/ QueueAggregation(o) PROVE DocumentInv'
  BY <1>5, QueuesKeep
<1>6. ASSUME NEW o \in Ops, NEW id \in {"ours", "other"},
             RecordRemoteDocument(o, id) \/ RecordAggregationDocument(o, id)
      PROVE  DocumentInv'
  BY <1>6, RecordedKeeps
<1>7. ASSUME NEW o \in Ops, ReadStatus(o) PROVE DocumentInv'
  BY <1>7, StatusKeeps
<1>8. ASSUME NEW o \in Ops, Reconcile(o) \/ RecordReconciliation(o) PROVE DocumentInv'
  BY <1>8, VerdictKeeps
<1>9. ASSUME NEW o \in Ops, Create(o) \/ Process(o) PROVE DocumentInv'
  BY <1>9, CreateKeeps, ProcessKeeps
<1>10. ASSUME NEW o \in Ops, NEW e \in todo[o], Appear(o, e) PROVE DocumentInv'
  BY <1>10, AppearKeeps
<1>11. CASE UNCHANGED documentVars
  <2>1. /\ LedgerInv' /\ ApartInv' /\ AtkInv' /\ OrderInv' /\ CarriedInv' /\ VisibleInv'
        /\ DocumentTypeOK' /\ PendingInv'
    BY <1>11 DEF documentVars, DocumentInv, LedgerInv, ApartInv, AtkInv, OrderInv, CarriedInv, VisibleInv,
         DocumentTypeOK, PendingInv
  <2> QED
    BY <2>1 DEF DocumentInv
<1> QED
  BY <1>1, <1>2, <1>3, <1>4, <1>5, <1>6, <1>7, <1>8, <1>9, <1>10, <1>11 DEF DocumentNext

\* Mutation completion is two-stage (OperationReconciliationService.reconcile,
\* AggregationReconciliationService): of a caller that reads the codes again after
\* the final status, RECONCILED is recorded only when the registry accepted the
\* document and its effect is visible on every code, for any codes, operations,
\* documents and packages.
THEOREM ReconciledDocumentsAreVisible ==
  ASSUME CallerRereads
  PROVE  DocumentSpec => []ReconciledMeansVisible
<1>1. DocumentInv => ReconciledMeansVisible
  <2> SUFFICES ASSUME DocumentInv, NEW o \in DOMAIN led, led[o].state = "RECONCILED"
               PROVE  /\ doc[o] = "CHECKED_OK"
                      /\ \A e \in todo[o] :
                            IF led[o].d.kind \in AggregationKinds THEN e[2] = "STATE"
                            ELSE e[2] = "PARENT" /\ led[o].pre[e[1]] = None
    BY DEF ReconciledMeansVisible
  <2>1. o \in Ops /\ todo[o] \subseteq Codes \X Facets
    BY DEF DocumentInv, LedgerInv, DocumentTypeOK, Facets
  <2>2. \A e \in todo[o] : e[1] \in Codes /\ e[2] \in Facets /\ e = <<e[1], e[2]>>
    BY <2>1
  <2> QED
    BY <2>2 DEF DocumentInv, VisibleInv
<1>2. DocumentInv /\ [DocumentNext]_documentVars => DocumentInv'
  BY DocumentSteps
<1> QED
  BY <1>1, <1>2, DocumentStarts, PTL DEF DocumentSpec

----------------------------------------------------------------------------

\* The composed records: documents stay single, chains intact and verdicts sound
\* in every behaviour of the Records specification, and what is reconciled is
\* visible when the caller reads the codes again.
THEOREM RecordsAreSound ==
  Spec => [](/\ OneDocument /\ ChainIntact /\ VerdictsSound
             /\ CallerRereads => ReconciledMeansVisible)
<1>1. Init => DocumentInit /\ AuditInit
  BY DEF Init
<1>2. [Next]_vars => [DocumentNext]_documentVars /\ [AuditNext]_auditVars
  <2> SUFFICES ASSUME [Next]_vars PROVE [DocumentNext]_documentVars /\ [AuditNext]_auditVars
    OBVIOUS
  <2>1. \/ DocumentNext /\ UNCHANGED auditVars
        \/ AuditNext /\ UNCHANGED documentVars
        \/ UNCHANGED documentVars /\ UNCHANGED auditVars
    BY Zenon DEF Next, vars
  <2> QED
    BY <2>1, Zenon
<1>3. Spec => DocumentSpec /\ AuditSpec
  BY <1>1, <1>2, PTL DEF Spec, DocumentSpec, AuditSpec
<1>4. DocumentSpec => [](CallerRereads => ReconciledMeansVisible)
  <2>1. CASE CallerRereads
    <3>1. DocumentSpec => []ReconciledMeansVisible
      BY <2>1, ReconciledDocumentsAreVisible
    <3> QED
      BY <3>1, PTL
  <2>2. CASE ~CallerRereads
    <3>1. CallerRereads => ReconciledMeansVisible
      BY <2>2
    <3> QED
      BY <3>1, PTL
  <2> QED
    BY <2>1, <2>2
<1> QED
  BY <1>3, <1>4, DocumentsStaySingle, ChainsStayIntact, VerdictsAreSound, PTL

=============================================================================
