---------------------------- MODULE ReplayProofs ----------------------------
(***************************************************************************)
(* What a simulated run is given and what it leaves: its round robin, its  *)
(* causal trace and the replay of one, for every set of action keys and    *)
(* moments, every capacity and any number of actions; and the answers of a *)
(* script, for every set of scripts, every limit and any order of requests.*)
(***************************************************************************)
EXTENDS Replay, ScriptedTimeline, TimelineProofs, FiniteSetTheorems, SequenceTheorems,
        WellFoundedInduction, NaturalsInduction, TLAPS

---------------------------------------------------------------------------
(* The canonical order of a ready set                                      *)

LEMMA KeyParts ==
  ASSUME NEW a \in ActionKey
  PROVE  /\ a.duty \in Nat /\ a = [duty |-> a.duty, event |-> a.event]
         /\ a.event # <<>> => /\ a.event[1] \in Nat /\ a.event[2] \in Nat
                              /\ a.event = <<a.event[1], a.event[2]>>
  BY DEF ActionKey

\* ActionKey::cmp is a strict order, and total.
LEMMA PrecedesOrders ==
  ASSUME NEW a \in ActionKey, NEW b \in ActionKey, NEW c \in ActionKey
  PROVE  /\ Precedes(a, b) /\ Precedes(b, c) => Precedes(a, c)
         /\ a = b \/ Precedes(a, b) \/ Precedes(b, a)
<1> USE KeyParts
<1>1. Precedes(a, b) /\ Precedes(b, c) => Precedes(a, c)
  BY DEF Precedes
<1>2. a = b \/ Precedes(a, b) \/ Precedes(b, a)
  <2>1. a.event = b.event /\ a.duty = b.duty => a = b
    OBVIOUS
  <2>2. a.event # <<>> /\ b.event # <<>> /\ a.event[1] = b.event[1] /\ a.event[2] = b.event[2]
          => a.event = b.event
    OBVIOUS
  <2>3. QED
    BY <2>1, <2>2 DEF Precedes
<1>3. QED
  BY <1>1, <1>2

\* Of any ready actions one is the first.
LEMMA FirstExists ==
  ASSUME NEW ready \in SUBSET ActionKey, IsFiniteSet(ready), ready # {}
  PROVE  \E m \in ready : \A k \in ready \ {m} : Precedes(m, k)
<1> DEFINE Bad == {n \in Nat : \E ks \in SUBSET ready :
                     /\ Cardinality(ks) = n /\ ks # {}
                     /\ ~\E m \in ks : \A k \in ks \ {m} : Precedes(m, k)}
<1>1. ASSUME Bad # {} PROVE FALSE
  <2>1. PICK n \in Bad : \A m \in Nat : m < n => m \notin Bad
    BY <1>1, LeastNatural
  <2>2. PICK ks \in SUBSET ready : /\ Cardinality(ks) = n /\ ks # {}
                                   /\ ~\E m \in ks : \A k \in ks \ {m} : Precedes(m, k)
    BY <2>1
  <2>3. PICK x : x \in ks
    BY <2>2
  <2> DEFINE rest == ks \ {x}
  <2>4. rest \in SUBSET ready /\ Cardinality(rest) \in Nat /\ Cardinality(rest) < n
    <3>1. IsFiniteSet(ks)
      BY FS_Subset
    <3>2. IsFiniteSet(rest) /\ Cardinality(rest) = n - 1
      BY <2>2, <2>3, <3>1, FS_RemoveElement
    <3>3. QED
      BY <2>1, <3>2, FS_CardinalityType
  <2>5. CASE rest = {}
    BY <2>2, <2>3, <2>5
  <2>6. CASE rest # {}
    <3>1. Cardinality(rest) \notin Bad
      BY <2>1, <2>4
    <3>2. PICK y \in rest : \A k \in rest \ {y} : Precedes(y, k)
      BY <2>4, <2>6, <3>1
    <3>3. x \in ActionKey /\ y \in ActionKey /\ x # y /\ y \in ks
      BY <2>2, <2>3
    <3>4. CASE Precedes(x, y)
      <4>1. \A k \in ks \ {x} : Precedes(x, k)
        BY <2>2, <3>2, <3>3, <3>4, PrecedesOrders
      <4>2. QED
        BY <2>2, <2>3, <4>1
    <3>5. CASE Precedes(y, x)
      <4>1. \A k \in ks \ {y} : Precedes(y, k)
        BY <3>2, <3>5
      <4>2. QED
        BY <2>2, <3>3, <4>1
    <3>6. QED
      BY <3>3, <3>4, <3>5, PrecedesOrders
  <2>7. QED
    BY <2>5, <2>6
<1>2. Cardinality(ready) \in Nat /\ ready \in SUBSET ready
  BY FS_CardinalityType
<1>3. Cardinality(ready) \notin Bad
  BY <1>1
<1>4. QED
  BY <1>2, <1>3

\* What Canonical() chooses.
IsCanonical(s, ready) ==
  /\ s \in [1..Cardinality(ready) -> ready]
  /\ ToSet(s) = ready /\ \A i, j \in DOMAIN s : i < j => Precedes(s[i], s[j])

\* A finite ready set has a canonical order: its first action, then the others in theirs.
LEMMA OrderExists ==
  ASSUME NEW ready \in SUBSET ActionKey, IsFiniteSet(ready)
  PROVE  \E s : IsCanonical(s, ready)
<1> DEFINE Bad == {n \in Nat : \E ks \in SUBSET ready :
                     Cardinality(ks) = n /\ ~\E s : IsCanonical(s, ks)}
<1>1. ASSUME Bad # {} PROVE FALSE
  <2>1. PICK n \in Bad : \A m \in Nat : m < n => m \notin Bad
    BY <1>1, LeastNatural
  <2>2. PICK ks \in SUBSET ready : Cardinality(ks) = n /\ ~\E s : IsCanonical(s, ks)
    BY <2>1
  <2>3. IsFiniteSet(ks) /\ ks \in SUBSET ActionKey
    BY FS_Subset
  <2>4. ks # {}
    <3>1. SUFFICES ASSUME ks = {} PROVE FALSE
      OBVIOUS
    <3>2. Cardinality(ks) = 0
      BY <3>1, FS_EmptySet
    <3> DEFINE s == [i \in 1..0 |-> i]
    <3>3. IsCanonical(s, ks)
      BY <3>1, <3>2 DEF IsCanonical, ToSet
    <3>4. QED
      BY <2>2, <3>3
  <2>5. PICK m \in ks : \A k \in ks \ {m} : Precedes(m, k)
    BY <2>3, <2>4, FirstExists
  <2> DEFINE rest == ks \ {m}
  <2>6. Cardinality(rest) \in Nat /\ Cardinality(rest) = n - 1 /\ n \in Nat /\ rest \in SUBSET ready
    <3>1. IsFiniteSet(rest) /\ Cardinality(rest) = n - 1
      BY <2>2, <2>3, FS_RemoveElement
    <3>2. QED
      BY <2>1, <3>1, FS_CardinalityType
  <2>7. PICK q : IsCanonical(q, rest)
    <3>1. Cardinality(rest) \notin Bad
      BY <2>1, <2>6
    <3>2. QED
      BY <2>6, <3>1
  <2> DEFINE s == [i \in 1..n |-> IF i = 1 THEN m ELSE q[i - 1]]
  <2>8. /\ q \in [1..(n - 1) -> rest] /\ \A k \in rest : \E i \in 1..(n - 1) : q[i] = k
        /\ \A i, j \in 1..(n - 1) : i < j => Precedes(q[i], q[j])
    BY <2>6, <2>7 DEF IsCanonical, ToSet
  <2>9. n >= 1
    BY <2>6
  <2>10. s \in [1..n -> ks]
    <3>1. \A i \in 1..n : i # 1 => i - 1 \in 1..(n - 1)
      BY <2>6
    <3>2. \A i \in 1..n : s[i] \in ks
      BY <2>8, <3>1
    <3>3. QED
      BY <3>2
  <2>11. ToSet(s) = ks
    <3>1. ASSUME NEW k \in ks PROVE \E i \in 1..n : s[i] = k
      <4>1. CASE k = m
        BY <2>6, <2>9, <4>1
      <4>2. CASE k # m
        <5>1. PICK i \in 1..(n - 1) : q[i] = k
          BY <2>8, <4>2
        <5>2. i + 1 \in 1..n /\ i + 1 # 1 /\ (i + 1) - 1 = i
          BY <2>6
        <5>3. s[i + 1] = k
          BY <5>1, <5>2
        <5>4. QED
          BY <5>2, <5>3
      <4>3. QED BY <4>1, <4>2
    <3>2. QED
      BY <2>10, <3>1 DEF ToSet
  <2>12. ASSUME NEW i \in 1..n, NEW j \in 1..n, i < j PROVE Precedes(s[i], s[j])
    <3>1. j # 1 /\ j - 1 \in 1..(n - 1)
      BY <2>6, <2>12
    <3>2. CASE i = 1
      <4>1. s[i] = m /\ s[j] \in rest
        BY <2>8, <3>1, <3>2
      <4>2. QED
        BY <2>5, <4>1
    <3>3. CASE i # 1
      <4>1. i - 1 \in 1..(n - 1) /\ i - 1 < j - 1
        BY <2>6, <2>12, <3>3
      <4>2. QED
        BY <2>8, <3>1, <3>3, <4>1
    <3>4. QED BY <3>2, <3>3
  <2>13. IsCanonical(s, ks)
    BY <2>2, <2>10, <2>11, <2>12 DEF IsCanonical
  <2>14. QED
    BY <2>2, <2>13
<1>2. Cardinality(ready) \in Nat /\ ready \in SUBSET ready
  BY FS_CardinalityType
<1>3. Cardinality(ready) \notin Bad
  BY <1>1
<1>4. QED
  BY <1>2, <1>3

\* Canonical() lists the ready actions, so any of its entries is ready.
LEMMA CanonicalLists ==
  ASSUME NEW ready \in SUBSET ActionKey, IsFiniteSet(ready)
  PROVE  IsCanonical(Canonical(ready), ready)
<1>1. PICK q : IsCanonical(q, ready)
  BY OrderExists
<1>2. \E o \in [1..Cardinality(ready) -> ready] :
        ToSet(o) = ready /\ \A i, j \in DOMAIN o : i < j => Precedes(o[i], o[j])
  BY <1>1 DEF IsCanonical
<1>3. QED
  BY <1>2 DEF Canonical, IsCanonical

---------------------------------------------------------------------------
(* The policies                                                            *)

\* A ready set is some of the finitely many keys.
LEMMA ReadySets ==
  ASSUME NEW ready \in SUBSET Keys
  PROVE  /\ ready \in SUBSET ActionKey /\ IsFiniteSet(ready) /\ Cardinality(ready) \in Nat
         /\ ready # {} => Cardinality(ready) >= 1
<1>1. ready \in SUBSET ActionKey /\ IsFiniteSet(ready)
  BY ReplayAssumption, FS_Subset
<1>2. Cardinality(ready) \in Nat /\ (Cardinality(ready) = 0 <=> ready = {})
  BY <1>1, FS_CardinalityType, FS_EmptySet
<1>3. QED
  BY <1>1, <1>2

\* Each entry of the canonical order is ready.
LEMMA CanonicalReady ==
  ASSUME NEW ready \in SUBSET Keys
  PROVE  \A i \in 1..Cardinality(ready) : Canonical(ready)[i] \in ready
<1>1. IsCanonical(Canonical(ready), ready)
  BY ReadySets, CanonicalLists
<1>2. QED
  BY <1>1 DEF IsCanonical

LEMMA FifoReady ==
  ASSUME NEW ready \in SUBSET Keys, ready # {}
  PROVE  FifoChoice(ready) \in ready
<1>1. 1 \in 1..Cardinality(ready)
  BY ReadySets
<1>2. QED
  BY <1>1, CanonicalReady DEF FifoChoice

\* Duties are numbers, so of any some one is least.
LEMMA LeastDuty ==
  ASSUME NEW ds \in SUBSET DutiesOf(Keys), ds # {}
  PROVE  Min(ds) \in ds /\ \A d \in ds : Min(ds) <= d
<1>1. ds \in SUBSET Nat
  BY ReplayAssumption, KeyParts DEF DutiesOf
<1>2. PICK m \in ds : \A k \in Nat : k < m => k \notin ds
  BY <1>1, LeastNatural
<1>3. \A d \in ds : m <= d
  BY <1>1, <1>2
<1>4. \E x \in ds : \A y \in ds : x <= y
  BY <1>3
<1>5. QED
  BY <1>4 DEF Min

\* The next duty in rotation is ready.
LEMMA OwnerReady ==
  ASSUME NEW ready \in SUBSET Keys, ready # {}, NEW cursors \in SUBSET DutiesOf(Keys)
  PROVE  OwnerAfter(cursors, ready) \in DutiesOf(ready)
<1> DEFINE after == {d \in DutiesOf(ready) : \E c \in cursors : d > c}
<1>1. DutiesOf(ready) \in SUBSET DutiesOf(Keys) /\ DutiesOf(ready) # {} /\ after \in SUBSET DutiesOf(Keys)
  BY DEF DutiesOf
<1>2. Min(DutiesOf(ready)) \in DutiesOf(ready) /\ (after # {} => Min(after) \in after)
  BY <1>1, LeastDuty
<1>3. OwnerAfter(cursors, ready) = IF after # {} THEN Min(after) ELSE Min(DutiesOf(ready))
  BY DEF OwnerAfter
<1>4. QED
  BY <1>2, <1>3

\* No ready duty lies between the cursor and the next one.
LEMMA OwnerNext ==
  ASSUME NEW ready \in SUBSET Keys, NEW c \in DutiesOf(Keys), NEW d \in DutiesOf(ready)
  PROVE  /\ d > c => OwnerAfter({c}, ready) > c /\ OwnerAfter({c}, ready) <= d
         /\ OwnerAfter({c}, ready) > c \/ OwnerAfter({c}, ready) <= d
<1> DEFINE after == {x \in DutiesOf(ready) : \E y \in {c} : x > y}
<1>1. DutiesOf(ready) \in SUBSET DutiesOf(Keys) /\ DutiesOf(ready) # {} /\ after \in SUBSET DutiesOf(Keys)
  BY DEF DutiesOf
<1>2. OwnerAfter({c}, ready) = IF after # {} THEN Min(after) ELSE Min(DutiesOf(ready))
  BY DEF OwnerAfter
<1>3. CASE after # {}
  <2>1. Min(after) \in after /\ \A x \in after : Min(after) <= x
    BY <1>1, <1>3, LeastDuty
  <2>2. QED
    BY <1>2, <1>3, <2>1
<1>4. CASE after = {}
  <2>1. Min(DutiesOf(ready)) <= d
    BY <1>1, LeastDuty
  <2>2. QED
    BY <1>2, <1>4, <2>1
<1>5. QED
  BY <1>3, <1>4

\* RoundRobin::choose answers a ready action of that duty.
LEMMA RoundRobinReady ==
  ASSUME NEW ready \in SUBSET Keys, ready # {}, NEW cursors \in SUBSET DutiesOf(Keys)
  PROVE  /\ RoundRobinChoice(cursors, ready) \in ready
         /\ RoundRobinChoice(cursors, ready).duty = OwnerAfter(cursors, ready)
<1> DEFINE own == {key \in ready : key.duty = OwnerAfter(cursors, ready)}
<1>1. OwnerAfter(cursors, ready) \in DutiesOf(ready)
  BY OwnerReady
<1>2. own \in SUBSET Keys /\ own # {}
  BY <1>1 DEF DutiesOf
<1>3. FifoChoice(own) \in own
  BY <1>2, FifoReady
<1>4. QED
  BY <1>3 DEF RoundRobinChoice

\* A scaled draw is an index into the ready set, whatever the draw.
LEMMA SeededReady ==
  ASSUME NEW ready \in SUBSET Keys, ready # {}, NEW draw \in Draws
  PROVE  Canonical(ready)[SeededIndex(draw, ready) + 1] \in ready
<1> DEFINE n == Cardinality(ready)
           x == draw * n
           q == x \div DrawCount
<1>1. n \in Nat /\ n >= 1 /\ DrawCount \in Nat /\ DrawCount >= 1 /\ draw \in Nat /\ draw < DrawCount
  BY ReadySets, SchedulersAssumption DEF Draws
<1>2. x \in Nat /\ x < DrawCount * n
  <2> HIDE DEF n
  <2>1. \A a, b, c \in Nat : a < b /\ c >= 1 => a * c \in Nat /\ a * c < b * c
    OBVIOUS
  <2>2. QED
    BY <1>1, <2>1
<1>3. q \in Nat /\ DrawCount * q <= x
  <2> HIDE DEF x
  <2>1. QED
    BY <1>1, <1>2
<1>4. q < n
  <2> HIDE DEF x, q, n
  <2>1. \A a, b, c \in Nat : c >= 1 /\ b >= a => c * a <= c * b
    OBVIOUS
  <2>2. QED
    BY <1>1, <1>2, <1>3, <2>1
<1>5. q + 1 \in 1..n
  <2> HIDE DEF q, n
  <2>1. QED
    BY <1>1, <1>3, <1>4
<1>6. QED
  BY <1>5, CanonicalReady DEF SeededIndex

\* Every policy answers a ready action; it is the next duty's in the round robin.
LEMMA PoliciesChooseReady ==
  ASSUME policy \in Policies, duty_cursor \in SUBSET DutiesOf(Keys),
         NEW ready \in SUBSET Keys, ready # {}, NEW key \in PolicyChoices(ready)
  PROVE  /\ key \in ready
         /\ policy = "round_robin" => key.duty = OwnerAfter(duty_cursor, ready)
<1>1. CASE policy = "fifo"
  BY <1>1, FifoReady DEF PolicyChoices
<1>2. CASE policy = "round_robin"
  BY <1>2, RoundRobinReady DEF PolicyChoices
<1>3. CASE policy = "seeded"
  BY <1>3, SeededReady DEF PolicyChoices, SeededChoices
<1>4. QED
  BY <1>1, <1>2, <1>3 DEF Policies

---------------------------------------------------------------------------
(* The recorded run                                                        *)

\* A prefix agrees entry by entry.
LEMMA PrefixIs ==
  ASSUME NEW S, NEW s \in Seq(S), NEW t \in Seq(S)
  PROVE  IsPrefix(s, t) <=> Len(s) <= Len(t) /\ \A i \in 1..Len(s) : s[i] = t[i]
<1> DEFINE n == Len(s)
<1>1. n \in Nat /\ Len(t) \in Nat /\ (\A i \in 1..n : s[i] \in S) /\ \A i \in 1..Len(t) : t[i] \in S
  BY LenProperties
<1>2. SUFFICES ASSUME n <= Len(t) PROVE IsPrefix(s, t) <=> \A i \in 1..n : s[i] = t[i]
  BY DEF IsPrefix
<1> DEFINE a == SubSeq(s, 1, n)
           b == SubSeq(t, 1, n)
<1>3. /\ a \in Seq(S) /\ Len(a) = n /\ \A i \in 1..n : a[i] = s[i]
      /\ b \in Seq(S) /\ Len(b) = n /\ \A i \in 1..n : b[i] = t[i]
  <2>1. \A i \in 1..n : t[i] \in S
    BY <1>1, <1>2
  <2>2. /\ a \in Seq(S) /\ Len(a) = (IF 1 <= n THEN n - 1 + 1 ELSE 0)
        /\ \A i \in 1..(n - 1 + 1) : a[i] = s[1 + i - 1]
    BY <1>1, SubSeqProperties
  <2>3. /\ b \in Seq(S) /\ Len(b) = (IF 1 <= n THEN n - 1 + 1 ELSE 0)
        /\ \A i \in 1..(n - 1 + 1) : b[i] = t[1 + i - 1]
    BY <1>1, <2>1, SubSeqProperties
  <2> HIDE DEF a, b, n
  <2>4. QED
    BY <1>1, <2>2, <2>3
<1> HIDE DEF a, b
<1>4. a = b <=> \A i \in 1..n : a[i] = b[i]
  BY <1>3, SeqEqual
<1>5. QED
  BY <1>2, <1>3, <1>4 DEF IsPrefix, a, b

\* So does the prefix up to a cursor.
LEMMA PrefixTo ==
  ASSUME NEW S, NEW h \in Seq(S), NEW t \in Seq(S), NEW n \in Nat, n <= Len(h)
  PROVE  IsPrefix(SubSeq(h, 1, n), t) <=> n <= Len(t) /\ \A i \in 1..n : h[i] = t[i]
<1> DEFINE a == SubSeq(h, 1, n)
<1>1. a \in Seq(S) /\ Len(a) = n /\ \A i \in 1..n : a[i] = h[i]
  <2>1. Len(h) \in Nat /\ \A i \in 1..n : h[i] \in S
    BY LenProperties
  <2>2. /\ a \in Seq(S) /\ Len(a) = (IF 1 <= n THEN n - 1 + 1 ELSE 0)
        /\ \A i \in 1..(n - 1 + 1) : a[i] = h[1 + i - 1]
    BY <2>1, SubSeqProperties
  <2> HIDE DEF a
  <2>3. QED
    BY <2>2
<1> HIDE DEF a
<1>2. IsPrefix(a, t) <=> n <= Len(t) /\ \A i \in 1..n : a[i] = t[i]
  BY <1>1, PrefixIs
<1>3. QED
  BY <1>1, <1>2 DEF a

\* What the invariant says of the sequences, entry by entry.
LEMMA InvFacts ==
  ASSUME ReplayInv
  PROVE  /\ trace \in Seq(TraceEntry) /\ history \in Seq(TraceEntry)
         /\ Len(trace) \in Nat /\ Len(history) \in Nat /\ cursor \in Nat /\ cursor <= Len(trace)
         /\ Len(offered) \in Nat /\ Len(trace) <= Len(offered)
         /\ Len(history) = cursor + (IF divergence = "committed" THEN 1 ELSE 0)
         /\ \A i \in 1..cursor : history[i] = trace[i]
         /\ same => /\ divergence \in {"none", "exhausted"} /\ Len(history) <= Len(trace)
                    /\ \A i \in 1..Len(history) : history[i] = trace[i]
<1>1. trace \in Seq(TraceEntry) /\ history \in Seq(TraceEntry) /\ cursor \in 0..Len(trace)
  BY DEF ReplayInv, ReplaySafe, ReplayTypeOK
<1>2. Len(trace) \in Nat /\ Len(history) \in Nat /\ Len(offered) \in Nat /\ Len(trace) <= Len(offered)
  BY <1>1, LenProperties DEF ReplayInv, Recorded
<1>3. /\ Len(history) = cursor + (IF divergence = "committed" THEN 1 ELSE 0)
      /\ IsPrefix(SubSeq(history, 1, cursor), trace)
  BY DEF ReplayInv, ReplaySafe, FollowsTrace
<1>4. \A i \in 1..cursor : history[i] = trace[i]
  BY <1>1, <1>2, <1>3, PrefixTo
<1>5. same => /\ divergence \in {"none", "exhausted"} /\ Len(history) <= Len(trace)
              /\ \A i \in 1..Len(history) : history[i] = trace[i]
  BY <1>1, PrefixIs DEF ReplayInv, ReplayReproduces
<1>6. QED
  BY <1>1, <1>2, <1>3, <1>4, <1>5

\* Before the replay there is nothing that could differ from the trace.
LEMMA NothingReplayed ==
  ASSUME ReplayInv, stage = "record"
  PROVE  /\ cursor = 0 /\ selected = {} /\ history = <<>> /\ run = "active" /\ divergence = "none"
         /\ awaiting_commit = FALSE
  BY DEF ReplayInv, Replayed, ReplaySafe, InProtocol, ReplayTypeOK

\* And nothing that is recorded next can.
LEMMA RecordingKeeps ==
  ASSUME ReplayInv, stage = "record",
         UNCHANGED <<same, cursor, awaiting_commit, selected, history, run, divergence>>,
         trace' \in Seq(TraceEntry), ReplayTypeOK'
  PROVE  FollowsTrace' /\ InProtocol' /\ CompleteIsExact' /\ ReplayReproduces' /\ Replayed'
<1>1. /\ cursor' = 0 /\ selected' = {} /\ history' = <<>> /\ run' = "active" /\ divergence' = "none"
      /\ awaiting_commit' = FALSE
  BY NothingReplayed
<1>2. history' \in Seq(TraceEntry) /\ Len(history') = 0 /\ Len(trace') \in Nat
  BY <1>1, LenProperties
<1>3. FollowsTrace'
  <2>1. 0 \in Nat /\ 0 <= Len(history') /\ 0 <= Len(trace') /\ \A i \in 1..0 : history'[i] = trace'[i]
    BY <1>2
  <2>2. IsPrefix(SubSeq(history', 1, 0), trace')
    BY <1>2, <2>1, PrefixTo, Zenon
  <2>3. QED
    BY <1>1, <1>2, <2>2 DEF FollowsTrace
<1>4. InProtocol' /\ CompleteIsExact' /\ Replayed'
  BY <1>1 DEF InProtocol, CompleteIsExact, Replayed
<1>5. ReplayReproduces'
  <2>1. Len(history') <= Len(trace') /\ \A i \in 1..Len(history') : history'[i] = trace'[i]
    BY <1>2
  <2>2. IsPrefix(history', trace')
    BY <1>2, <2>1, PrefixIs, Zenon
  <2>3. QED
    BY <1>1, <2>2 DEF ReplayReproduces
<1>6. QED
  BY <1>3, <1>4, <1>5

\* A recorded action.
LEMMA RecordKeeps ==
  ASSUME ReplayInv, NEW o \in Offer, NEW result \in Results, Record(o, result)
  PROVE  ReplayInv'
<1>1. PICK key \in PolicyChoices(o.ready) :
        /\ offered' = Append(offered, [at |-> o.at, ready |-> o.ready, key |-> key])
        /\ duty_cursor' = IF policy = "round_robin" THEN {key.duty} ELSE duty_cursor
        /\ Push([key |-> key, at |-> o.at, result |-> result])
  BY DEF Record
<1> DEFINE offer == [at |-> o.at, ready |-> o.ready, key |-> key]
           entry == [key |-> key, at |-> o.at, result |-> result]
           Offered == [at : Instants, ready : (SUBSET Keys) \ {{}}, key : Keys]
<1>2. /\ stage = "record" /\ ending = "open" /\ Len(offered) < MaxActions
      /\ UNCHANGED <<policy, same, stage, cursor, awaiting_commit, selected, history, run, divergence>>
  BY DEF Record, Recording
<1>3. /\ ReplayTypeOK /\ Recorded /\ Rotates
      /\ policy \in Policies /\ duty_cursor \in SUBSET DutiesOf(Keys)
  BY DEF ReplayInv, ReplaySafe, ReplayTypeOK
<1>4. o.ready \in SUBSET Keys /\ o.ready # {} /\ o.at \in Instants
  BY DEF Offer
<1>5. key \in o.ready /\ (policy = "round_robin" => key.duty = OwnerAfter(duty_cursor, o.ready))
  BY <1>3, <1>4, PoliciesChooseReady
<1>6. offer \in Offered /\ entry \in TraceEntry /\ key.duty \in DutiesOf(Keys)
  BY <1>4, <1>5 DEF TraceEntry, DutiesOf
<1>7. /\ Len(offered) \in Nat /\ Len(trace) \in Nat /\ Len(trace) = Len(offered)
      /\ offered \in Seq(Offered) /\ trace \in Seq(TraceEntry)
  BY <1>2, <1>3, InvFacts DEF Recorded
<1> HIDE DEF offer, entry, Offered
<1>8. /\ offered' \in Seq(Offered) /\ Len(offered') = Len(offered) + 1
      /\ \A i \in 1..Len(offered) : offered'[i] = offered[i]
      /\ offered'[Len(offered) + 1] = offer
  BY <1>1, <1>6, <1>7, AppendProperties DEF offer
<1>9. \/ /\ trace' = Append(trace, entry) /\ ending' = ending /\ Len(trace) < TraceCapacity
      \/ trace' = trace /\ ending' = "failed"
  BY <1>1 DEF Push, entry
<1>10. /\ trace' \in Seq(TraceEntry) /\ Len(trace') <= Len(offered')
       /\ ending' # "failed" => Len(trace') = Len(offered')
       /\ Len(trace') \in Nat /\ Len(trace') <= TraceCapacity
       /\ \A i \in 1..Len(trace) : trace'[i] = trace[i]
       /\ Len(trace') # Len(trace) => Len(trace') = Len(trace) + 1 /\ trace'[Len(trace) + 1] = entry
  <2>1. Len(trace) <= TraceCapacity /\ TraceCapacity \in Nat
    BY <1>3, ReplayAssumption DEF ReplayTypeOK
  <2>2. CASE trace' = trace /\ ending' = "failed"
    BY <1>7, <1>8, <2>1, <2>2
  <2>3. CASE trace' = Append(trace, entry) /\ ending' = ending /\ Len(trace) < TraceCapacity
    <3>1. /\ trace' \in Seq(TraceEntry) /\ Len(trace') = Len(trace) + 1
          /\ \A i \in 1..Len(trace) : trace'[i] = trace[i]
          /\ trace'[Len(trace) + 1] = entry
      BY <1>6, <1>7, <2>3, AppendProperties
    <3>2. QED
      BY <1>7, <1>8, <2>1, <2>3, <3>1
  <2>4. QED
    BY <1>9, <2>2, <2>3
<1>11. ReplayTypeOK'
  <2>1. cursor' \in 0..Len(trace')
    BY <1>2, <1>10, NothingReplayed
  <2>2. Len(offered') <= MaxActions
    BY <1>2, <1>7, <1>8, ReplayAssumption
  <2>3. ending' \in {"open", "failed"} /\ duty_cursor' \subseteq DutiesOf(Keys)
    BY <1>1, <1>2, <1>3, <1>6, <1>9
  <2>4. QED
    BY <1>2, <1>3, <1>10, <2>1, <2>2, <2>3 DEF ReplayTypeOK
<1>12. Recorded'
  <2>1. \A i \in 1..Len(offered') : offered'[i].key \in offered'[i].ready
    BY <1>3, <1>5, <1>7, <1>8 DEF Recorded, offer
  <2>2. ASSUME NEW i \in 1..Len(trace')
        PROVE  trace'[i].key = offered'[i].key /\ trace'[i].at = offered'[i].at
    <3>1. CASE i \in 1..Len(trace)
      <4>1. trace[i].key = offered[i].key /\ trace[i].at = offered[i].at /\ i \in 1..Len(offered)
        BY <1>3, <1>7, <3>1 DEF Recorded
      <4>2. QED
        BY <1>8, <1>10, <3>1, <4>1
    <3>2. CASE i \notin 1..Len(trace)
      <4>1. i = Len(trace) + 1 /\ trace'[i] = entry /\ offered'[i] = offer
        BY <1>7, <1>8, <1>10, <3>2
      <4>2. QED
        BY <4>1 DEF offer, entry
    <3>3. QED BY <3>1, <3>2
  <2>3. QED
    BY <1>8, <1>10, <2>1, <2>2 DEF Recorded, Offered
<1>13. Rotates'
  <2>1. SUFFICES ASSUME policy = "round_robin" PROVE Rotates'
    BY <1>2 DEF Rotates
  <2>2. offered' # <<>> /\ duty_cursor' = {offered'[Len(offered')].key.duty}
    <3>1. offered' # <<>>
      BY <1>7, <1>8, EmptySeq
    <3>2. offered'[Len(offered')].key = key
      BY <1>8 DEF offer
    <3>3. duty_cursor' = {key.duty}
      BY <1>1, <2>1
    <3>4. QED
      BY <3>1, <3>2, <3>3
  <2>3. ASSUME NEW i \in 1..Len(offered')
        PROVE  offered'[i].key.duty =
                 OwnerAfter(IF i = 1 THEN {} ELSE {offered'[i - 1].key.duty}, offered'[i].ready)
    <3>1. CASE i \in 1..Len(offered)
      <4>1. i # 1 => i - 1 \in 1..Len(offered)
        BY <1>7, <3>1
      <4>2. offered'[i] = offered[i] /\ (i # 1 => offered'[i - 1] = offered[i - 1])
        BY <1>8, <3>1, <4>1
      <4>3. QED
        BY <1>3, <2>1, <3>1, <4>2 DEF Rotates
    <3>2. CASE i = Len(offered) + 1
      <4>1. offered'[i].key.duty = OwnerAfter(duty_cursor, offered'[i].ready)
        BY <1>5, <1>8, <2>1, <3>2 DEF offer
      <4>2. duty_cursor = IF i = 1 THEN {} ELSE {offered'[i - 1].key.duty}
        <5>1. duty_cursor = IF offered = <<>> THEN {} ELSE {offered[Len(offered)].key.duty}
          BY <1>3, <2>1 DEF Rotates
        <5>2. CASE offered = <<>>
          BY <3>2, <5>1, <5>2
        <5>3. CASE offered # <<>>
          <6>1. Len(offered) >= 1 /\ i # 1 /\ i - 1 = Len(offered)
            BY <1>7, <3>2, <5>3, EmptySeq
          <6>2. QED
            BY <1>7, <1>8, <5>1, <5>3, <6>1
        <5>4. QED
          BY <5>2, <5>3
      <4>3. QED
        BY <4>1, <4>2
    <3>3. QED
      BY <1>7, <1>8, <3>1, <3>2
  <2>4. QED
    BY <2>2, <2>3 DEF Rotates
<1>14. QED
  BY <1>2, <1>10, <1>11, <1>12, <1>13, RecordingKeeps DEF ReplayInv, ReplaySafe

\* A recorded run that fails before it selects, or that ends.
LEMMA EndingKeeps ==
  ASSUME ReplayInv,
         \/ \E o \in Offer : RecordFails(o)
         \/ \E how \in {"completed", "stopped"} : StartReplay(how)
  PROVE  ReplayInv'
<1>1. /\ stage = "record" /\ stage' \in {"record", "replay"}
      /\ ending' \in {"failed", "completed", "stopped"} /\ (ending = "failed" => ending' = "failed")
      /\ UNCHANGED <<policy, duty_cursor, offered, trace>>
      /\ UNCHANGED <<same, cursor, awaiting_commit, selected, history, run, divergence>>
  BY DEF RecordFails, Recording, StartReplay, ReplayInv, ReplaySafe, ReplayTypeOK
<1>2. ReplayTypeOK'
  BY <1>1 DEF ReplayInv, ReplaySafe, ReplayTypeOK
<1>3. Recorded' /\ Rotates'
  BY <1>1 DEF ReplayInv, Recorded, Rotates
<1>4. trace' \in Seq(TraceEntry)
  BY <1>2 DEF ReplayTypeOK
<1>5. QED
  BY <1>1, <1>2, <1>3, <1>4, RecordingKeeps DEF ReplayInv, ReplaySafe

---------------------------------------------------------------------------
(* The replayed run                                                        *)

\* The recording is over.
LEMMA RecordStays ==
  ASSUME ReplayInv, UNCHANGED recordVars
  PROVE  Recorded' /\ Rotates' /\ trace' = trace /\ offered' = offered /\ ending' = ending
  BY DEF ReplayInv, Recorded, Rotates, recordVars

\* While the run is active nothing has diverged yet.
LEMMA ActiveFacts ==
  ASSUME ReplayInv, Active
  PROVE  /\ stage = "replay" /\ run = "active" /\ divergence = "none" /\ Len(history) = cursor
         /\ awaiting_commit \in BOOLEAN /\ (awaiting_commit <=> selected # {})
         /\ awaiting_commit => cursor < Len(trace)
         /\ selected # {} => \E s \in selected : s.key = trace[cursor + 1].key /\ s.at = trace[cursor + 1].at
<1>1. stage = "replay" /\ run = "active" /\ divergence = "none"
  BY DEF ReplayInv, Replayed, Active
<1>2. Len(history) = cursor
  BY <1>1, InvFacts
<1>3. awaiting_commit \in BOOLEAN
  BY DEF ReplayInv, ReplaySafe, ReplayTypeOK
<1>4. (awaiting_commit <=> selected # {}) /\ (awaiting_commit => cursor < Len(trace))
  BY <1>1 DEF ReplayInv, ReplaySafe, InProtocol
<1>5. selected # {} => \E s \in selected : s.key = trace[cursor + 1].key /\ s.at = trace[cursor + 1].at
  BY <1>1 DEF ReplayInv, Replayed
<1>6. QED
  BY <1>1, <1>2, <1>3, <1>4, <1>5

\* Two runs of the same model that have not diverged are in step.
LEMMA SameInStep ==
  ASSUME ReplayInv
  PROVE  same => InStep
  BY DEF ReplayInv, ReplayReproduces, InStep

\* An offer is a moment and a ready set.
LEMMA OffersAreOffers ==
  ASSUME ReplayInv
  PROVE  Offers \subseteq Offer
  BY DEF Offers

\* In step, whatever the trace still knows is offered again.
LEMMA InStepOffers ==
  ASSUME ReplayInv, Active, InStep, NEW o \in Offers, cursor < Len(trace)
  PROVE  o.at = trace[cursor + 1].at /\ trace[cursor + 1].key \in o.ready
<1>1. /\ Len(history) = cursor /\ Len(history) < Len(offered)
      /\ cursor + 1 \in 1..Len(trace) /\ cursor + 1 \in 1..Len(offered)
  BY ActiveFacts, InvFacts
<1>2. o.at = offered[cursor + 1].at /\ o.ready = offered[cursor + 1].ready
  BY <1>1 DEF Offers
<1>3. /\ offered[cursor + 1].key \in offered[cursor + 1].ready
      /\ trace[cursor + 1].key = offered[cursor + 1].key /\ trace[cursor + 1].at = offered[cursor + 1].at
  BY <1>1 DEF ReplayInv, Recorded
<1>4. QED
  BY <1>2, <1>3

\* Selecting the next entry, or reporting that this run differs.
LEMMA ChooseKeeps ==
  ASSUME ReplayInv, NEW o \in Offers, Choose(o)
  PROVE  ReplayInv'
<1>1. /\ Active /\ selected = {} /\ UNCHANGED <<same, stage, recordVars, cursor, history>>
  BY DEF Choose
<1>2. /\ run = "active" /\ stage = "replay" /\ divergence = "none" /\ awaiting_commit = FALSE
      /\ Len(history) = cursor
  BY <1>1, ActiveFacts
<1>3. /\ trace' = trace /\ offered' = offered /\ ending' = ending /\ Recorded' /\ Rotates'
      /\ cursor' = cursor /\ history' = history /\ same' = same /\ stage' = stage
      /\ policy' = policy /\ duty_cursor' = duty_cursor
  BY <1>1, RecordStays DEF recordVars
<1>4. ReplayTypeOK /\ FollowsTrace /\ ReplayReproduces
  BY DEF ReplayInv, ReplaySafe
<1>5. o \in Offer
  BY OffersAreOffers
<1>6. /\ trace \in Seq(TraceEntry) /\ Len(trace) \in Nat /\ cursor \in Nat /\ cursor <= Len(trace)
  BY InvFacts
<1>7. CASE ChooseFails(o) # "none"
  <2>1. /\ divergence' = ChooseFails(o) /\ run' = "failed" /\ selected' = {}
        /\ awaiting_commit' = FALSE
    BY <1>1, <1>2, <1>7 DEF Choose, Diverge
  <2>2. ChooseFails(o) \in {"exhausted", "moment", "unavailable"}
    BY <1>2, <1>7 DEF ChooseFails
  <2>3. ReplayTypeOK'
    BY <1>3, <1>4, <2>1, <2>2 DEF ReplayTypeOK
  <2>4. FollowsTrace' /\ InProtocol' /\ CompleteIsExact' /\ Replayed'
    BY <1>2, <1>3, <1>4, <2>1, <2>2 DEF FollowsTrace, InProtocol, CompleteIsExact, Replayed
  <2>5. ReplayReproduces'
    <3>1. SUFFICES ASSUME same PROVE ChooseFails(o) = "exhausted"
      BY <1>3, <1>4, <2>1 DEF ReplayReproduces
    <3>2. cursor < Len(trace) => o.at = trace[cursor + 1].at /\ trace[cursor + 1].key \in o.ready
      BY <1>1, <3>1, SameInStep, InStepOffers
    <3>3. QED
      BY <1>2, <1>6, <1>7, <3>2 DEF ChooseFails
  <2>6. QED
    BY <1>3, <2>3, <2>4, <2>5 DEF ReplayInv, ReplaySafe
<1>8. CASE ChooseFails(o) = "none"
  <2>1. /\ selected' = {[key |-> trace[cursor + 1].key, at |-> o.at]}
        /\ awaiting_commit' = TRUE /\ divergence' = "none" /\ run' = "active"
    BY <1>1, <1>2, <1>8 DEF Choose, Await
  <2>2. cursor < Len(trace) /\ trace[cursor + 1].at = o.at
    BY <1>2, <1>6, <1>8 DEF ChooseFails
  <2>3. trace[cursor + 1].key \in Keys /\ o.at \in Instants
    <3>1. cursor + 1 \in 1..Len(trace)
      BY <1>6, <2>2
    <3>2. trace[cursor + 1] \in TraceEntry
      BY <1>6, <3>1, ElementOfSeq
    <3>3. QED
      BY <1>5, <3>2 DEF TraceEntry, Offer
  <2>4. ReplayTypeOK'
    BY <1>3, <1>4, <2>1, <2>3 DEF ReplayTypeOK
  <2>5. FollowsTrace' /\ ReplayReproduces'
    BY <1>2, <1>3, <1>4, <2>1 DEF FollowsTrace, ReplayReproduces
  <2>6. InProtocol' /\ CompleteIsExact' /\ Replayed'
    BY <1>2, <1>3, <2>1, <2>2 DEF InProtocol, CompleteIsExact, Replayed
  <2>7. QED
    BY <1>3, <2>4, <2>5, <2>6 DEF ReplayInv, ReplaySafe
<1>9. QED
  BY <1>7, <1>8

\* The selected action fails in the model.
LEMMA ModelFailsKeeps ==
  ASSUME ReplayInv, ModelFails
  PROVE  ReplayInv'
<1>1. /\ Active /\ selected' = {} /\ run' = "failed" /\ run = "active" /\ stage = "replay"
      /\ UNCHANGED <<same, stage, recordVars, cursor, awaiting_commit, history, divergence>>
  BY DEF ModelFails, Active
<1>2. trace' = trace /\ Recorded' /\ Rotates' /\ UNCHANGED <<offered, ending, policy, duty_cursor>>
  BY <1>1, RecordStays DEF recordVars
<1>3. ReplayTypeOK'
  BY <1>1, <1>2 DEF ReplayInv, ReplaySafe, ReplayTypeOK
<1>4. FollowsTrace' /\ ReplayReproduces'
  BY <1>1, <1>2 DEF ReplayInv, ReplaySafe, FollowsTrace, ReplayReproduces
<1>5. InProtocol' /\ CompleteIsExact' /\ Replayed'
  BY <1>1, <1>2 DEF ReplayInv, ReplaySafe, InProtocol, CompleteIsExact, Replayed
<1>6. QED
  BY <1>2, <1>3, <1>4, <1>5 DEF ReplayInv, ReplaySafe

\* The action commits, and is what the trace says or the last of this run.
LEMMA CommittedKeeps ==
  ASSUME ReplayInv, NEW s \in selected, NEW result \in Results, Committed(s, result)
  PROVE  ReplayInv'
<1> DEFINE actual == [key |-> s.key, at |-> s.at, result |-> result]
<1>1. /\ Active /\ selected' = {} /\ history' = Append(history, actual)
      /\ InStep /\ Len(history) < Len(trace) => result = trace[Len(history) + 1].result
      /\ IF CommitFails(actual) # "none"
         THEN Diverge(CommitFails(actual)) /\ UNCHANGED <<cursor, awaiting_commit>>
         ELSE /\ cursor' = cursor + 1
              /\ awaiting_commit' = FALSE
              /\ UNCHANGED <<divergence, run>>
      /\ UNCHANGED <<same, stage, recordVars>>
  BY DEF Committed
<1>2. /\ run = "active" /\ stage = "replay" /\ divergence = "none" /\ awaiting_commit = TRUE
      /\ Len(history) = cursor /\ cursor < Len(trace)
  BY <1>1, ActiveFacts
<1>3. s.key = trace[cursor + 1].key /\ s.at = trace[cursor + 1].at
  BY <1>2 DEF ReplayInv, Replayed
<1>4. /\ trace' = trace /\ offered' = offered /\ ending' = ending /\ Recorded' /\ Rotates'
      /\ same' = same /\ stage' = stage /\ policy' = policy /\ duty_cursor' = duty_cursor
  BY <1>1, RecordStays DEF recordVars
<1>5. ReplayTypeOK /\ ReplayReproduces /\ s.key \in Keys /\ s.at \in Instants
  BY DEF ReplayInv, ReplaySafe, ReplayTypeOK
<1>6. /\ trace \in Seq(TraceEntry) /\ history \in Seq(TraceEntry)
      /\ Len(trace) \in Nat /\ cursor \in Nat
      /\ \A i \in 1..cursor : history[i] = trace[i]
  BY InvFacts
<1>7. actual \in TraceEntry
  BY <1>5 DEF TraceEntry
<1>8. trace[cursor + 1] \in TraceEntry
  <2>1. cursor + 1 \in 1..Len(trace)
    BY <1>2, <1>6
  <2>2. QED
    BY <1>6, <2>1, ElementOfSeq
<1>9. same => actual = trace[cursor + 1]
  <2>1. same => result = trace[cursor + 1].result
    BY <1>1, <1>2, SameInStep
  <2>2. QED
    BY <1>3, <1>7, <1>8, <2>1 DEF TraceEntry
<1> HIDE DEF actual
<1>10. /\ history' \in Seq(TraceEntry) /\ Len(history') = cursor + 1
       /\ \A i \in 1..cursor : history'[i] = history[i]
       /\ history'[cursor + 1] = actual
  BY <1>1, <1>2, <1>6, <1>7, AppendProperties
<1>11. \A i \in 1..cursor : history'[i] = trace'[i]
  BY <1>4, <1>6, <1>10
<1>12. CASE actual # trace[cursor + 1]
  <2>1. CommitFails(actual) = "committed"
    BY <1>2, <1>12 DEF CommitFails
  <2>2. /\ divergence' = "committed" /\ run' = "failed" /\ cursor' = cursor /\ awaiting_commit' = TRUE
    BY <1>1, <1>2, <2>1 DEF Diverge
  <2>3. ReplayTypeOK'
    BY <1>1, <1>2, <1>4, <1>5, <1>10, <2>2 DEF ReplayTypeOK
  <2>4. FollowsTrace'
    <3>1. cursor <= Len(history') /\ cursor <= Len(trace')
      BY <1>2, <1>4, <1>6, <1>10
    <3>2. trace' \in Seq(TraceEntry)
      BY <1>4, <1>6
    <3>3. IsPrefix(SubSeq(history', 1, cursor), trace')
      BY <1>6, <1>10, <1>11, <3>1, <3>2, PrefixTo, Zenon
    <3>4. QED
      BY <1>4, <1>10, <1>12, <2>2, <3>3 DEF FollowsTrace
  <2>5. InProtocol' /\ CompleteIsExact' /\ Replayed'
    BY <1>1, <1>2, <1>4, <2>2 DEF InProtocol, CompleteIsExact, Replayed
  <2>6. ReplayReproduces'
    BY <1>4, <1>9, <1>12 DEF ReplayReproduces
  <2>7. QED
    BY <1>4, <2>3, <2>4, <2>5, <2>6 DEF ReplayInv, ReplaySafe
<1>13. CASE actual = trace[cursor + 1]
  <2>1. CommitFails(actual) = "none"
    BY <1>2, <1>13 DEF CommitFails
  <2>2. /\ divergence' = "none" /\ run' = "active" /\ cursor' = cursor + 1 /\ awaiting_commit' = FALSE
    BY <1>1, <1>2, <2>1
  <2>3. ReplayTypeOK'
    <3>1. cursor' \in 0..Len(trace')
      BY <1>2, <1>4, <1>6, <2>2
    <3>2. QED
      BY <1>1, <1>2, <1>4, <1>5, <1>10, <2>2, <3>1 DEF ReplayTypeOK
  <2>4. \A i \in 1..(cursor + 1) : history'[i] = trace'[i]
    BY <1>4, <1>6, <1>10, <1>11, <1>13
  <2>5. /\ cursor + 1 <= Len(history') /\ cursor + 1 <= Len(trace') /\ cursor + 1 \in Nat
        /\ trace' \in Seq(TraceEntry)
    BY <1>2, <1>4, <1>6, <1>10
  <2>6. FollowsTrace'
    <3>1. IsPrefix(SubSeq(history', 1, cursor + 1), trace')
      BY <1>10, <2>4, <2>5, PrefixTo, Zenon
    <3>2. QED
      BY <1>10, <2>2, <2>5, <3>1 DEF FollowsTrace
  <2>7. InProtocol' /\ CompleteIsExact' /\ Replayed'
    BY <1>1, <1>2, <1>4, <2>2 DEF InProtocol, CompleteIsExact, Replayed
  <2>8. ReplayReproduces'
    <3>1. IsPrefix(history', trace')
      BY <1>10, <2>4, <2>5, PrefixIs, Zenon
    <3>2. QED
      BY <2>2, <3>1 DEF ReplayReproduces
  <2>9. QED
    BY <1>4, <2>3, <2>6, <2>7, <2>8 DEF ReplayInv, ReplaySafe
<1>14. QED
  BY <1>12, <1>13

\* A replay that is cut short has entries remaining; a complete one has none.
LEMMA FinishedKeeps ==
  ASSUME ReplayInv, Finished
  PROVE  ReplayInv'
<1>1. /\ Active /\ selected = {}
      /\ InStep => ending = "completed" /\ history = trace
      /\ UNCHANGED <<same, stage, recordVars, cursor, awaiting_commit, selected, history>>
  BY DEF Finished
<1>2. /\ run = "active" /\ stage = "replay" /\ divergence = "none" /\ awaiting_commit = FALSE
      /\ Len(history) = cursor
  BY <1>1, ActiveFacts
<1>3. trace' = trace /\ Recorded' /\ Rotates' /\ UNCHANGED <<offered, ending, policy, duty_cursor>>
  BY <1>1, RecordStays DEF recordVars
<1>4. ReplayTypeOK /\ FollowsTrace /\ ReplayReproduces
  BY DEF ReplayInv, ReplaySafe
<1>5. CASE cursor # Len(trace)
  <2>1. divergence' = "remaining" /\ run' = "failed"
    BY <1>2, <1>5 DEF Finished, FinishFails, Diverge
  <2>2. ~same
    BY <1>1, <1>2, <1>5, SameInStep
  <2>3. ReplayTypeOK'
    BY <1>1, <1>3, <1>4, <2>1 DEF ReplayTypeOK
  <2>4. FollowsTrace' /\ ReplayReproduces'
    BY <1>1, <1>2, <1>3, <1>4, <2>1, <2>2 DEF FollowsTrace, ReplayReproduces
  <2>5. InProtocol' /\ CompleteIsExact' /\ Replayed'
    BY <1>1, <1>2, <1>3, <2>1 DEF InProtocol, CompleteIsExact, Replayed
  <2>6. QED
    BY <1>3, <2>3, <2>4, <2>5 DEF ReplayInv, ReplaySafe
<1>6. CASE cursor = Len(trace)
  <2>1. divergence' = "none" /\ run' = "completed"
    BY <1>2, <1>6 DEF Finished, FinishFails
  <2>2. history = trace
    BY <1>2, <1>6, InvFacts, SeqEqual
  <2>3. ReplayTypeOK'
    BY <1>1, <1>3, <1>4, <2>1 DEF ReplayTypeOK
  <2>4. FollowsTrace' /\ ReplayReproduces'
    BY <1>1, <1>2, <1>3, <1>4, <2>1 DEF FollowsTrace, ReplayReproduces
  <2>5. InProtocol' /\ CompleteIsExact' /\ Replayed'
    BY <1>1, <1>2, <1>3, <2>1, <2>2 DEF InProtocol, CompleteIsExact, Replayed
  <2>6. QED
    BY <1>3, <2>3, <2>4, <2>5 DEF ReplayInv, ReplaySafe
<1>7. QED
  BY <1>5, <1>6

---------------------------------------------------------------------------
(* Theorems                                                                *)

LEMMA ReplayInitInv == ReplayInit => ReplayInv
<1> SUFFICES ASSUME ReplayInit PROVE ReplayInv
  OBVIOUS
<1>1. /\ history = <<>> /\ trace = <<>> /\ offered = <<>> /\ Len(history) = 0 /\ Len(trace) = 0
      /\ history \in Seq(TraceEntry) /\ trace \in Seq(TraceEntry)
  BY DEF ReplayInit
<1>2. ReplayTypeOK
  <2>1. Len(offered) <= MaxActions /\ Len(trace) <= TraceCapacity /\ 0 \in 0..Len(trace)
    BY <1>1, ReplayAssumption
  <2>2. QED
    BY <1>1, <2>1 DEF ReplayInit, ReplayTypeOK
<1>3. FollowsTrace /\ ReplayReproduces
  <2>1. 0 \in Nat /\ 0 <= Len(history) /\ 0 <= Len(trace) /\ \A i \in 1..0 : history[i] = trace[i]
    BY <1>1
  <2>2. IsPrefix(SubSeq(history, 1, 0), trace)
    BY <1>1, <2>1, PrefixTo, Zenon
  <2>3. IsPrefix(history, trace)
    BY <1>1, <2>1, PrefixIs, Zenon
  <2>4. QED
    BY <1>1, <2>2, <2>3 DEF ReplayInit, FollowsTrace, ReplayReproduces
<1>4. InProtocol /\ CompleteIsExact /\ Replayed
  BY DEF ReplayInit, InProtocol, CompleteIsExact, Replayed
<1>5. Recorded /\ Rotates
  BY <1>1 DEF ReplayInit, Recorded, Rotates
<1>6. QED
  BY <1>2, <1>3, <1>4, <1>5 DEF ReplayInv, ReplaySafe

LEMMA ReplayNextInv == ReplayInv /\ [ReplayNext]_replayVars => ReplayInv'
<1> SUFFICES ASSUME ReplayInv, [ReplayNext]_replayVars PROVE ReplayInv'
  OBVIOUS
<1>1. CASE \E o \in Offer, result \in Results : Record(o, result)
  BY <1>1, RecordKeeps
<1>2. CASE (\E o \in Offer : RecordFails(o)) \/ \E how \in {"completed", "stopped"} : StartReplay(how)
  BY <1>2, EndingKeeps
<1>3. CASE \E o \in Offers : Choose(o)
  BY <1>3, ChooseKeeps
<1>4. CASE ModelFails
  BY <1>4, ModelFailsKeeps
<1>5. CASE \E s \in selected, result \in Results : Committed(s, result)
  BY <1>5, CommittedKeeps
<1>6. CASE Finished
  BY <1>6, FinishedKeeps
<1>7. CASE UNCHANGED replayVars
  <2>1. /\ UNCHANGED <<same, stage, cursor, awaiting_commit, selected, history, run, divergence>>
        /\ UNCHANGED recordVars
    BY <1>7 DEF replayVars
  <2>2. trace' = trace /\ Recorded' /\ Rotates' /\ UNCHANGED <<offered, ending, policy, duty_cursor>>
    BY <2>1, RecordStays DEF recordVars
  <2>3. ReplayTypeOK'
    BY <2>1, <2>2 DEF ReplayInv, ReplaySafe, ReplayTypeOK
  <2>4. FollowsTrace' /\ ReplayReproduces'
    BY <2>1, <2>2 DEF ReplayInv, ReplaySafe, FollowsTrace, ReplayReproduces
  <2>5. InProtocol' /\ CompleteIsExact' /\ Replayed'
    BY <2>1, <2>2 DEF ReplayInv, ReplaySafe, InProtocol, CompleteIsExact, Replayed
  <2>6. QED
    BY <2>2, <2>3, <2>4, <2>5 DEF ReplayInv, ReplaySafe
<1>8. QED
  BY <1>1, <1>2, <1>3, <1>4, <1>5, <1>6, <1>7 DEF ReplayNext

LEMMA ReplayAlways == ReplaySpec => []ReplayInv
<1>1. QED
  BY ReplayInitInv, ReplayNextInv, PTL DEF ReplaySpec

\* Whatever is replayed (trace/replay.rs), the second run is the trace as far as it
\* goes, its first difference is its last action, and only a whole trace is complete.
THEOREM ReplaySafety == ReplaySpec => []ReplaySafe
<1>1. ReplayInv => ReplaySafe
  BY DEF ReplayInv
<1>2. QED
  BY <1>1, ReplayAlways, PTL

\* A deterministic model is reproduced: no divergence before the end of the trace.
THEOREM ReplayIsFaithful == ReplaySpec => []ReplayReproduces
<1>1. ReplayInv => ReplayReproduces
  BY DEF ReplayInv
<1>2. QED
  BY <1>1, ReplayAlways, PTL

---------------------------------------------------------------------------
(* The fairness of the round robin                                         *)

\* The duties that come after c and before d in rotation.
Between(c, d) ==
  IF c < d THEN {x \in DutiesOf(Keys) : c < x /\ x < d}
  ELSE {x \in DutiesOf(Keys) : x > c \/ x < d}

LEMMA DutyNumbers ==
  /\ DutiesOf(Keys) \in SUBSET Nat
  /\ IsFiniteSet(DutiesOf(Keys)) /\ Cardinality(DutiesOf(Keys)) \in Nat
<1>1. DutiesOf(Keys) \in SUBSET Nat
  BY ReplayAssumption, KeyParts DEF DutiesOf
<1>2. IsFiniteSet(DutiesOf(Keys))
  <2> DEFINE f == [key \in Keys |-> key.duty]
  <2>1. {f[key] : key \in Keys} = DutiesOf(Keys)
    BY DEF DutiesOf
  <2>2. f \in [Keys -> DutiesOf(Keys)]
    BY DEF DutiesOf
  <2> HIDE DEF f
  <2>3. f \in Surjection(Keys, DutiesOf(Keys))
    BY <2>1, <2>2 DEF Surjection
  <2>4. QED
    BY <2>3, ReplayAssumption, FS_Surjection
<1>3. QED
  BY <1>1, <1>2, FS_CardinalityType

\* While d is ready and not selected, each selection comes closer to it.
LEMMA RotationAdvances ==
  ASSUME NEW ready \in SUBSET Keys, NEW c \in DutiesOf(Keys), NEW d \in DutiesOf(ready), c # d,
         OwnerAfter({c}, ready) # d
  PROVE  /\ OwnerAfter({c}, ready) \in Between(c, d)
         /\ Between(OwnerAfter({c}, ready), d) \subseteq Between(c, d) \ {OwnerAfter({c}, ready)}
<1> DEFINE w == OwnerAfter({c}, ready)
<1>1. /\ w \in DutiesOf(Keys) /\ d \in DutiesOf(Keys) /\ c \in Nat /\ d \in Nat /\ w \in Nat
  <2>1. DutiesOf(ready) \subseteq DutiesOf(Keys) /\ ready # {} /\ {c} \in SUBSET DutiesOf(Keys)
    BY DEF DutiesOf
  <2>2. w \in DutiesOf(ready)
    BY <2>1, OwnerReady
  <2>3. QED
    BY <2>1, <2>2, DutyNumbers
<1>2. (d > c => w > c /\ w <= d) /\ (w > c \/ w <= d)
  BY OwnerNext
<1> HIDE DEF w
<1>3. w # d
  BY DEF w
<1>4. w \in Between(c, d)
  BY <1>1, <1>2, <1>3 DEF Between
<1>5. ASSUME NEW x \in Between(w, d) PROVE x \in Between(c, d) /\ x # w
  <2>1. x \in DutiesOf(Keys) /\ x \in Nat
    BY DutyNumbers DEF Between
  <2>2. QED
    BY <1>1, <1>2, <1>3, <2>1 DEF Between
<1>6. QED
  BY <1>4, <1>5 DEF w

\* There are at most as many as there are other duties.
LEMMA BetweenCounts ==
  ASSUME NEW c \in DutiesOf(Keys), NEW d \in DutiesOf(Keys), c # d
  PROVE  /\ IsFiniteSet(Between(c, d)) /\ Cardinality(Between(c, d)) \in Nat
         /\ Cardinality(Between(c, d)) <= Cardinality(DutiesOf(Keys)) - 2
<1> DEFINE D == DutiesOf(Keys)
           others == (D \ {c}) \ {d}
<1>1. IsFiniteSet(others) /\ Cardinality(others) = Cardinality(D) - 2 /\ Cardinality(D) \in Nat
  <2>1. IsFiniteSet(D \ {c}) /\ Cardinality(D \ {c}) = Cardinality(D) - 1 /\ d \in D \ {c}
    BY DutyNumbers, FS_RemoveElement
  <2>2. IsFiniteSet(others) /\ Cardinality(others) = Cardinality(D \ {c}) - 1
    BY <2>1, FS_RemoveElement
  <2>3. QED
    BY <2>1, <2>2, DutyNumbers
<1>2. Between(c, d) \subseteq others
  BY DutyNumbers DEF Between
<1>3. /\ IsFiniteSet(Between(c, d)) /\ Cardinality(Between(c, d)) <= Cardinality(others)
  BY <1>1, <1>2, FS_Subset
<1>4. Cardinality(Between(c, d)) \in Nat
  BY <1>3, FS_CardinalityType
<1>5. QED
  BY <1>1, <1>3, <1>4

\* So it cannot be passed over as often as there are duties.
LEMMA RotationIsFair ==
  ASSUME ReplayInv
  PROVE  RoundRobinIsFair
<1> DEFINE D == DutiesOf(Keys)
           n == Cardinality(D)
<1>1. SUFFICES ASSUME policy = "round_robin", NEW first \in 1..(Len(offered) - n + 1), NEW d \in D,
                      \A i \in first..(first + n - 1) : d \in DutiesOf(offered[i].ready),
                      \A i \in first..(first + n - 1) : offered[i].key.duty # d
               PROVE  FALSE
  BY DEF RoundRobinIsFair
<1>2. n \in Nat /\ n >= 1 /\ Len(offered) \in Nat /\ first \in Nat /\ first >= 1
  <2>1. n \in Nat /\ n # 0
    BY DutyNumbers, FS_EmptySet
  <2>2. Len(offered) \in Nat
    BY InvFacts
  <2> HIDE DEF n
  <2>3. QED
    BY <2>1, <2>2
<1> DEFINE c(k) == offered[first + k].key.duty
           far(k) == Cardinality(Between(c(k), d))
<1> HIDE DEF n
<1>3. ASSUME NEW k \in 0..(n - 1)
      PROVE  /\ first + k \in 1..Len(offered) /\ first + k \in first..(first + n - 1)
             /\ offered[first + k].ready \in SUBSET Keys
             /\ c(k) \in D /\ c(k) # d /\ far(k) \in Nat /\ far(k) <= n - 2
  <2>1. first + k \in 1..Len(offered) /\ first + k \in first..(first + n - 1)
    BY <1>2
  <2>2. offered[first + k].ready \in SUBSET Keys /\ offered[first + k].key \in Keys
    <3> DEFINE Offered == [at : Instants, ready : (SUBSET Keys) \ {{}}, key : Keys]
    <3>1. offered \in Seq(Offered)
      BY DEF ReplayInv, Recorded
    <3>2. offered[first + k] \in Offered
      <4> HIDE DEF Offered
      <4>1. QED
        BY <2>1, <3>1, ElementOfSeq
    <3>3. QED
      BY <3>2
  <2>3. c(k) \in D /\ c(k) # d
    BY <1>1, <2>1, <2>2 DEF DutiesOf
  <2>4. QED
    BY <2>1, <2>2, <2>3, BetweenCounts DEF n
<1>4. ASSUME NEW k \in 0..(n - 1), k # 0
      PROVE  k - 1 \in 0..(n - 1) /\ far(k) <= far(k - 1) - 1
  <2>1. k - 1 \in 0..(n - 1) /\ first + (k - 1) = (first + k) - 1 /\ first + k # 1
    BY <1>2, <1>4
  <2>2. c(k) = OwnerAfter({c(k - 1)}, offered[first + k].ready)
    <3>1. /\ offered[first + k].key.duty =
               OwnerAfter(IF first + k = 1 THEN {} ELSE {offered[(first + k) - 1].key.duty},
                          offered[first + k].ready)
      BY <1>1, <1>3 DEF ReplayInv, Rotates
    <3>2. QED
      BY <2>1, <3>1
  <2>3. c(k - 1) \in D /\ c(k - 1) # d /\ c(k) \in D /\ c(k) # d /\ d \in DutiesOf(offered[first + k].ready)
        /\ offered[first + k].ready \in SUBSET Keys
    BY <1>1, <1>3, <2>1
  <2>4. c(k) \in Between(c(k - 1), d) /\ Between(c(k), d) \subseteq Between(c(k - 1), d) \ {c(k)}
    <3> HIDE DEF c
    <3>1. QED
      BY <2>2, <2>3, RotationAdvances
  <2>5. IsFiniteSet(Between(c(k - 1), d)) /\ far(k - 1) \in Nat
    <3> HIDE DEF c
    <3>1. QED
      BY <2>3, BetweenCounts
  <2> DEFINE B == Between(c(k - 1), d)
  <2>6. IsFiniteSet(B \ {c(k)}) /\ Cardinality(B \ {c(k)}) = far(k - 1) - 1
    <3>1. IsFiniteSet(B) /\ far(k - 1) = Cardinality(B) /\ c(k) \in B
      BY <2>4, <2>5
    <3> HIDE DEF c, far, B
    <3>2. QED
      BY <3>1, FS_RemoveElement
  <2>7. far(k) <= Cardinality(B \ {c(k)})
    <3> HIDE DEF c, B
    <3>1. Between(c(k), d) \in SUBSET (B \ {c(k)})
      BY <2>4 DEF B
    <3>2. QED
      BY <2>6, <3>1, FS_Subset
  <2>8. QED
    BY <2>1, <2>6, <2>7
<1> HIDE DEF c, far
<1> DEFINE Bad == {k \in 0..(n - 1) : ~(far(k) <= n - 2 - k)}
<1>5. ASSUME Bad # {} PROVE FALSE
  <2>1. Bad \in SUBSET Nat
    BY <1>2
  <2>2. PICK k \in Bad : \A m \in Nat : m < k => m \notin Bad
    BY <1>5, <2>1, LeastNatural
  <2>3. k # 0
    BY <1>2, <1>3, <2>2
  <2>4. far(k - 1) <= n - 2 - (k - 1) /\ far(k) <= far(k - 1) - 1
    BY <1>2, <1>4, <2>2, <2>3
  <2>5. far(k) \in Nat /\ far(k - 1) \in Nat /\ k \in Nat
    BY <1>2, <1>3, <1>4, <2>2, <2>3
  <2>6. far(k) <= n - 2 - k
    BY <1>2, <2>4, <2>5
  <2>7. QED
    BY <2>2, <2>6
<1>6. far(n - 1) <= n - 2 - (n - 1) /\ far(n - 1) \in Nat
  <2>1. n - 1 \in 0..(n - 1)
    BY <1>2
  <2>2. n - 1 \notin Bad
    BY <1>5
  <2>3. far(n - 1) <= n - 2 - (n - 1)
    BY <2>1, <2>2
  <2>4. QED
    BY <1>3, <2>1, <2>3
<1>7. QED
  BY <1>2, <1>6

\* RoundRobin::choose passes over no ready duty for as many selections as there are duties.
THEOREM RoundRobinFair == ReplaySpec => []RoundRobinIsFair
<1>1. QED
  BY RotationIsFair, ReplayAlways, PTL

---------------------------------------------------------------------------
(* The measurements of a script as sums                                    *)

ScriptStep == [expected : Requests, response : Seq([delay : Nat, size : Sizes])]

LEMMA ScriptLimitsNat ==
  /\ ScriptLimits.steps \in Nat /\ ScriptLimits.outcomes \in Nat
  /\ ScriptLimits.retained_bytes \in Nat
  /\ \A request \in Requests : RequestBytes[request] \in Nat
  /\ Scripts \subseteq Seq(ScriptStep)
  /\ \A n \in Sizes : n \in Nat
<1>1. \A n \in 0..U64 : n \in Nat
  BY TimelineLimits
<1>2. ScriptLimits.retained_bytes \in 0..U64 /\ Sizes \subseteq 0..U64
  BY ScriptAssumption, TimelineLimits
<1>3. Scripts \subseteq Seq(ScriptStep)
  BY ScriptAssumption DEF ScriptStep, Requests
<1>4. \A request \in Requests : RequestBytes[request] \in 0..U64
  BY ScriptAssumption DEF Requests
<1>5. ScriptLimits.steps \in Nat /\ ScriptLimits.outcomes \in Nat
  BY ScriptAssumption
<1>6. QED
  BY <1>1, <1>2, <1>3, <1>4, <1>5

\* A step and its plan.
LEMMA StepParts ==
  ASSUME NEW step \in ScriptStep
  PROVE  /\ step.expected \in Requests /\ Len(step.response) \in Nat
         /\ DOMAIN step.response = 1..Len(step.response)
         /\ \A i \in 1..Len(step.response) :
              /\ step.response[i].delay \in Nat /\ step.response[i].size \in Sizes
              /\ step.response[i] = [delay |-> step.response[i].delay, size |-> step.response[i].size]
<1>1. step.expected \in Requests /\ step.response \in Seq([delay : Nat, size : Sizes])
  BY DEF ScriptStep
<1>2. \A i \in 1..Len(step.response) : step.response[i] \in [delay : Nat, size : Sizes]
  BY <1>1, ElementOfSeq
<1>3. QED
  BY <1>1, <1>2, LenProperties

OutcomeBytes(r) == [i \in 1..Len(r) |-> r[i].size]

SizeSums(f, b, r, T) ==
  f = [u \in SUBSET T |-> IF u = {} THEN b ELSE r[First(u)].size + f[u \ {First(u)}]]

\* measure_step()
LEMMA MeasureStepNat ==
  ASSUME NEW step \in ScriptStep
  PROVE  Script!MeasureStep(step) \in Nat
<1> DEFINE r == step.response
           b == RequestBytes[step.expected]
           T == 1..Len(r)
           w == OutcomeBytes(r)
           f == CHOOSE f : SizeSums(f, b, r, T)
<1>1. DOMAIN r = T /\ IsFiniteSet(T) /\ b \in Nat /\ \A i \in T : w[i] \in Nat
  <2>1. Len(r) \in Nat /\ DOMAIN r = T /\ \A i \in T : r[i].size \in Sizes
    BY StepParts
  <2>2. IsFiniteSet(T)
    BY <2>1, FS_Interval
  <2>3. b \in Nat /\ \A n \in Sizes : n \in Nat
    BY StepParts, ScriptLimitsNat
  <2>4. QED
    BY <2>1, <2>2, <2>3 DEF OutcomeBytes
<1>2. Script!MeasureStep(step) = f[T]
  BY <1>1 DEF Script!MeasureStep, Script!FoldSeq, Script!FoldFunction,
              Script!FoldFunctionOnSet, Script!MapThenFoldSet, SizeSums, First
<1> HIDE DEF T, b
<1>3. ASSUME NEW h PROVE SizeSums(h, b, r, T) <=> Sums(w, b, h, T)
  <2>1. ASSUME NEW u \in SUBSET T, u # {} PROVE w[First(u)] = r[First(u)].size
    <3>1. First(u) \in T
      BY <2>1 DEF First
    <3>2. QED
      BY <3>1 DEF OutcomeBytes, T
  <2>2. [u \in SUBSET T |-> IF u = {} THEN b ELSE r[First(u)].size + h[u \ {First(u)}]]
          = [u \in SUBSET T |-> IF u = {} THEN b ELSE w[First(u)] + h[u \ {First(u)}]]
    BY <2>1
  <2>3. QED
    BY <2>2 DEF SizeSums, Sums
<1>4. \E g : Sums(w, b, g, T)
  BY <1>1, SumsExist
<1>5. Sums(w, b, f, T) /\ Sums(w, b, CHOOSE g : Sums(w, b, g, T), T)
  BY <1>3, <1>4
<1>6. f[T] = Total(w, b, T)
  BY <1>1, <1>5, SumsUnique DEF Total
<1>7. QED
  BY <1>1, <1>2, <1>6, TotalType

StepBytes(s) == [k \in 1..Len(s) |-> Script!MeasureStep(s[k])]

StepSums(f, s, T) ==
  f = [u \in SUBSET T |-> IF u = {} THEN 0
                          ELSE Script!MeasureStep(s[First(u)]) + f[u \ {First(u)}]]

\* measure_steps()
LEMMA MeasureStepsTotal ==
  ASSUME NEW s \in Seq(ScriptStep)
  PROVE  Script!MeasureSteps(s) = Total(StepBytes(s), 0, 1..Len(s))
<1> DEFINE T == 1..Len(s)
           w == StepBytes(s)
           f == CHOOSE f : StepSums(f, s, T)
<1>1. DOMAIN s = T /\ IsFiniteSet(T)
  BY LenProperties, FS_Interval
<1>2. Script!MeasureSteps(s) = f[T]
  BY <1>1 DEF Script!MeasureSteps, Script!FoldSeq, Script!FoldFunction,
              Script!FoldFunctionOnSet, Script!MapThenFoldSet, StepSums, First
<1> HIDE DEF T
<1>3. ASSUME NEW h PROVE StepSums(h, s, T) <=> Sums(w, 0, h, T)
  <2>1. ASSUME NEW u \in SUBSET T, u # {} PROVE w[First(u)] = Script!MeasureStep(s[First(u)])
    <3>1. First(u) \in T
      BY <2>1 DEF First
    <3>2. QED
      BY <3>1 DEF StepBytes, T
  <2>2. [u \in SUBSET T |-> IF u = {} THEN 0
                            ELSE Script!MeasureStep(s[First(u)]) + h[u \ {First(u)}]]
          = [u \in SUBSET T |-> IF u = {} THEN 0 ELSE w[First(u)] + h[u \ {First(u)}]]
    BY <2>1
  <2>3. QED
    BY <2>2 DEF StepSums, Sums
<1>4. \E g : Sums(w, 0, g, T)
  BY <1>1, SumsExist
<1>5. Sums(w, 0, f, T) /\ Sums(w, 0, CHOOSE g : Sums(w, 0, g, T), T)
  BY <1>3, <1>4
<1>6. f[T] = Total(w, 0, T)
  BY <1>1, <1>5, SumsUnique DEF Total
<1>7. QED
  BY <1>2, <1>6 DEF T

Lengths(s) == [k \in 1..Len(s) |-> Len(s[k].response)]

LengthSums(f, s, T) ==
  f = [u \in SUBSET T |-> IF u = {} THEN 0
                          ELSE Len(s[First(u)].response) + f[u \ {First(u)}]]

\* count_outcomes()
LEMMA CountOutcomesTotal ==
  ASSUME NEW s \in Seq(ScriptStep)
  PROVE  Script!CountOutcomes(s) = Total(Lengths(s), 0, 1..Len(s))
<1> DEFINE T == 1..Len(s)
           w == Lengths(s)
           f == CHOOSE f : LengthSums(f, s, T)
<1>1. DOMAIN s = T /\ IsFiniteSet(T)
  BY LenProperties, FS_Interval
<1>2. Script!CountOutcomes(s) = f[T]
  BY <1>1 DEF Script!CountOutcomes, Script!FoldSeq, Script!FoldFunction,
              Script!FoldFunctionOnSet, Script!MapThenFoldSet, LengthSums, First
<1> HIDE DEF T
<1>3. ASSUME NEW h PROVE LengthSums(h, s, T) <=> Sums(w, 0, h, T)
  <2>1. ASSUME NEW u \in SUBSET T, u # {} PROVE w[First(u)] = Len(s[First(u)].response)
    <3>1. First(u) \in T
      BY <2>1 DEF First
    <3>2. QED
      BY <3>1 DEF Lengths, T
  <2>2. [u \in SUBSET T |-> IF u = {} THEN 0
                            ELSE Len(s[First(u)].response) + h[u \ {First(u)}]]
          = [u \in SUBSET T |-> IF u = {} THEN 0 ELSE w[First(u)] + h[u \ {First(u)}]]
    BY <2>1
  <2>3. QED
    BY <2>2 DEF LengthSums, Sums
<1>4. \E g : Sums(w, 0, g, T)
  BY <1>1, SumsExist
<1>5. Sums(w, 0, f, T) /\ Sums(w, 0, CHOOSE g : Sums(w, 0, g, T), T)
  BY <1>3, <1>4
<1>6. f[T] = Total(w, 0, T)
  BY <1>1, <1>5, SumsUnique DEF Total
<1>7. QED
  BY <1>2, <1>6 DEF T

Left(t) == [k \in 1..Len(t) |-> t[k].retained]

LeftSums(f, t, T) ==
  f = [u \in SUBSET T |-> IF u = {} THEN 0 ELSE t[First(u)].retained + f[u \ {First(u)}]]

\* The steps that remain, each with what it retains.
LEMMA RetainedByTotal ==
  ASSUME NEW S, NEW t \in Seq(S)
  PROVE  Script!RetainedBy(t) = Total(Left(t), 0, 1..Len(t))
<1> DEFINE T == 1..Len(t)
           w == Left(t)
           f == CHOOSE f : LeftSums(f, t, T)
<1>1. DOMAIN t = T /\ IsFiniteSet(T)
  BY LenProperties, FS_Interval
<1>2. Script!RetainedBy(t) = f[T]
  BY <1>1 DEF Script!RetainedBy, Script!FoldSeq, Script!FoldFunction,
              Script!FoldFunctionOnSet, Script!MapThenFoldSet, LeftSums, First
<1> HIDE DEF T
<1>3. ASSUME NEW h PROVE LeftSums(h, t, T) <=> Sums(w, 0, h, T)
  <2>1. ASSUME NEW u \in SUBSET T, u # {} PROVE w[First(u)] = t[First(u)].retained
    <3>1. First(u) \in T
      BY <2>1 DEF First
    <3>2. QED
      BY <3>1 DEF Left, T
  <2>2. [u \in SUBSET T |-> IF u = {} THEN 0 ELSE t[First(u)].retained + h[u \ {First(u)}]]
          = [u \in SUBSET T |-> IF u = {} THEN 0 ELSE w[First(u)] + h[u \ {First(u)}]]
    BY <2>1
  <2>3. QED
    BY <2>2 DEF LeftSums, Sums
<1>4. \E g : Sums(w, 0, g, T)
  BY <1>1, SumsExist
<1>5. Sums(w, 0, f, T) /\ Sums(w, 0, CHOOSE g : Sums(w, 0, g, T), T)
  BY <1>3, <1>4
<1>6. f[T] = Total(w, 0, T)
  BY <1>1, <1>5, SumsUnique DEF Total
<1>7. QED
  BY <1>2, <1>6 DEF T

\* Every element may be taken out first.
LEMMA TotalWithout ==
  ASSUME NEW w, NEW T, IsFiniteSet(T), \A i \in T : w[i] \in Nat
  PROVE  \A e \in T : Total(w, 0, T) = w[e] + Total(w, 0, T \ {e})
<1>1. 0 \in Nat
  OBVIOUS
<1>2. QED
  BY <1>1, TotalRemove

\* A total over an interval, without its last or its first weight.
LEMMA TotalEnds ==
  ASSUME NEW w
  PROVE  \A lo, hi \in Int : lo <= hi /\ (\A i \in lo..hi : w[i] \in Nat) =>
           /\ Total(w, 0, lo..hi) = w[hi] + Total(w, 0, lo..(hi - 1))
           /\ Total(w, 0, lo..hi) = w[lo] + Total(w, 0, (lo + 1)..hi)
<1> SUFFICES ASSUME NEW lo \in Int, NEW hi \in Int, lo <= hi, \A i \in lo..hi : w[i] \in Nat
             PROVE  /\ Total(w, 0, lo..hi) = w[hi] + Total(w, 0, lo..(hi - 1))
                    /\ Total(w, 0, lo..hi) = w[lo] + Total(w, 0, (lo + 1)..hi)
  OBVIOUS
<1> DEFINE T == lo..hi
<1>1. IsFiniteSet(T)
  BY FS_Interval
<1>2. lo \in T /\ hi \in T
  OBVIOUS
<1>3. T \ {hi} = lo..(hi - 1)
  OBVIOUS
<1>4. T \ {lo} = (lo + 1)..hi
  OBVIOUS
<1>5. \A i \in T : w[i] \in Nat
  OBVIOUS
<1> HIDE DEF T
<1>6. \A e \in T : Total(w, 0, T) = w[e] + Total(w, 0, T \ {e})
  BY <1>1, <1>5, TotalWithout
<1>7. Total(w, 0, T) = w[hi] + Total(w, 0, T \ {hi})
  BY <1>2, <1>6, Zenon
<1>8. Total(w, 0, T) = w[lo] + Total(w, 0, T \ {lo})
  BY <1>2, <1>6, Zenon
<1>9. QED
  BY <1>3, <1>4, <1>7, <1>8, Zenon DEF T

\* Sets that share nothing are counted one after the other.
LEMMA DisjointCount ==
  ASSUME NEW S, IsFiniteSet(S), NEW T, IsFiniteSet(T), S \cap T = {}
  PROVE  /\ IsFiniteSet(S \cup T) /\ Cardinality(S \cup T) = Cardinality(S) + Cardinality(T)
         /\ Cardinality(S) \in Nat /\ Cardinality(T) \in Nat
<1>1. Cardinality({}) = 0 /\ Cardinality(S) \in Nat /\ Cardinality(T) \in Nat
  BY FS_EmptySet, FS_CardinalityType
<1>2. /\ IsFiniteSet(S \cup T)
      /\ Cardinality(S \cup T) = Cardinality(S) + Cardinality(T) - Cardinality({})
  BY FS_Union
<1>3. QED
  BY <1>1, <1>2

\* A function on the first n positions is a sequence of n values.
LEMMA Listed ==
  ASSUME NEW S, NEW n \in Nat, NEW f \in [1..n -> S]
  PROVE  f \in Seq(S) /\ Len(f) = n
  OBVIOUS

\* The same weights at shifted positions.
LEMMA Shifted ==
  ASSUME NEW a \in Nat, NEW n \in Nat, NEW v, NEW w,
         \A i \in 1..n : v[i] = w[a + i] /\ v[i] \in Nat
  PROVE  Total(v, 0, 1..n) = Total(w, 0, (a + 1)..(a + n))
<1> DEFINE Bad == {m \in Nat : m \in 0..n /\ Total(v, 0, 1..m) # Total(w, 0, (a + 1)..(a + m))}
<1>1. ASSUME Bad # {} PROVE FALSE
  <2>1. PICK m \in Bad : \A k \in Nat : k < m => k \notin Bad
    BY <1>1, LeastNatural
  <2>2. m \in 0..n /\ m \in Nat /\ Total(v, 0, 1..m) # Total(w, 0, (a + 1)..(a + m))
    BY <2>1
  <2>3. m # 0
    <3>1. 1..0 = {} /\ (a + 1)..(a + 0) = {}
      OBVIOUS
    <3>2. QED
      BY <2>2, <3>1, TotalEmpty
  <2>4. m - 1 \in 0..n /\ m - 1 \in Nat /\ m - 1 < m
    BY <2>2, <2>3
  <2>5. Total(v, 0, 1..(m - 1)) = Total(w, 0, (a + 1)..(a + (m - 1)))
    BY <2>1, <2>4
  <2> HIDE DEF Bad
  <2>6. 1 \in Int /\ m \in Int /\ 1 <= m /\ a + 1 \in Int /\ a + m \in Int /\ a + 1 <= a + m
    BY <2>2, <2>3
  <2>7. \A i \in 1..m : v[i] \in Nat
    BY <2>2
  <2>8. \A i \in (a + 1)..(a + m) : w[i] \in Nat
    <3>1. \A i \in (a + 1)..(a + m) : i - a \in 1..n /\ a + (i - a) = i
      BY <2>2
    <3>2. QED
      BY <3>1
  <2>9. Total(v, 0, 1..m) = v[m] + Total(v, 0, 1..(m - 1))
    BY <2>6, <2>7, TotalEnds
  <2>10. Total(w, 0, (a + 1)..(a + m)) = w[a + m] + Total(w, 0, (a + 1)..(a + (m - 1)))
    <3> DEFINE lo == a + 1
               hi == a + m
    <3>1. hi - 1 = a + (m - 1)
      BY <2>2
    <3>2. lo \in Int /\ hi \in Int /\ lo <= hi /\ \A i \in lo..hi : w[i] \in Nat
      BY <2>6, <2>8
    <3> HIDE DEF lo, hi
    <3>3. Total(w, 0, lo..hi) = w[hi] + Total(w, 0, lo..(hi - 1))
      BY <3>2, TotalEnds
    <3>4. QED
      BY <3>1, <3>3 DEF lo, hi
  <2>11. v[m] = w[a + m]
    BY <2>2, <2>3
  <2>12. QED
    BY <2>2, <2>5, <2>9, <2>10, <2>11
<1>2. n \in 0..n
  OBVIOUS
<1>3. QED
  BY <1>1, <1>2

\* The steps that are left when n are answered.
Rest(s, n) == [j \in 1..(Len(s) - n) |-> Script!Measured(s[n + j])]

MeasuredStep == [step : ScriptStep, retained : Nat]

LEMMA RestParts ==
  ASSUME NEW s \in Seq(ScriptStep), NEW n \in 0..Len(s)
  PROVE  /\ Rest(s, n) \in Seq(MeasuredStep) /\ Len(Rest(s, n)) = Len(s) - n
         /\ DOMAIN Rest(s, n) = 1..(Len(s) - n)
         /\ \A j \in 1..(Len(s) - n) :
              /\ n + j \in 1..Len(s)
              /\ Rest(s, n)[j] = [step |-> s[n + j], retained |-> Script!MeasureStep(s[n + j])]
<1>1. Len(s) \in Nat /\ Len(s) - n \in Nat
  BY LenProperties
<1>2. \A j \in 1..(Len(s) - n) : n + j \in 1..Len(s)
  BY <1>1
<1>3. \A j \in 1..(Len(s) - n) :
        /\ Rest(s, n)[j] = [step |-> s[n + j], retained |-> Script!MeasureStep(s[n + j])]
        /\ Rest(s, n)[j] \in MeasuredStep
  <2> SUFFICES ASSUME NEW j \in 1..(Len(s) - n)
               PROVE  /\ Rest(s, n)[j] = [step |-> s[n + j],
                                          retained |-> Script!MeasureStep(s[n + j])]
                      /\ Rest(s, n)[j] \in MeasuredStep
    OBVIOUS
  <2>1. s[n + j] \in ScriptStep
    BY <1>2, ElementOfSeq
  <2>2. Script!MeasureStep(s[n + j]) \in Nat
    BY <2>1, MeasureStepNat
  <2>3. QED
    BY <2>1, <2>2 DEF Rest, Script!Measured, MeasuredStep
<1>4. Rest(s, n) \in [1..(Len(s) - n) -> MeasuredStep]
  BY <1>3 DEF Rest
<1>5. QED
  BY <1>1, <1>2, <1>3, <1>4

\* What they retain is the measure of the rest of the script.
LEMMA RestRetains ==
  ASSUME NEW s \in Seq(ScriptStep), NEW n \in 0..Len(s)
  PROVE  /\ Script!RetainedBy(Rest(s, n)) = Total(StepBytes(s), 0, (n + 1)..Len(s))
         /\ Script!RetainedBy(Rest(s, n)) \in Nat
<1> DEFINE t == Rest(s, n)
           m == Len(s) - n
<1>1. /\ t \in Seq(MeasuredStep) /\ Len(t) = m
      /\ \A j \in 1..m : /\ n + j \in 1..Len(s)
                         /\ t[j].retained = Script!MeasureStep(s[n + j])
                         /\ t[j].retained \in Nat
  <2>1. \A j \in 1..m : s[n + j] \in ScriptStep
    BY RestParts, ElementOfSeq
  <2>2. \A j \in 1..m : Script!MeasureStep(s[n + j]) \in Nat
    BY <2>1, MeasureStepNat
  <2>3. \A j \in 1..m : /\ n + j \in 1..Len(s)
                        /\ t[j].retained = Script!MeasureStep(s[n + j])
    <3>1. \A j \in 1..m : /\ n + j \in 1..Len(s)
                          /\ t[j] = [step |-> s[n + j], retained |-> Script!MeasureStep(s[n + j])]
      BY RestParts, Zenon
    <3> HIDE DEF t, m
    <3> SUFFICES ASSUME NEW j \in 1..m
                 PROVE  /\ n + j \in 1..Len(s)
                        /\ t[j].retained = Script!MeasureStep(s[n + j])
      OBVIOUS
    <3> DEFINE b == Script!MeasureStep(s[n + j])
    <3>2. n + j \in 1..Len(s) /\ t[j] = [step |-> s[n + j], retained |-> b]
      BY <3>1
    <3> HIDE DEF b
    <3>3. t[j].retained = b
      BY <3>2
    <3>4. QED
      BY <3>2, <3>3 DEF b
  <2>4. t \in Seq(MeasuredStep) /\ Len(t) = m
    BY RestParts
  <2>5. QED
    BY <2>2, <2>3, <2>4
<1>2. Len(s) \in Nat /\ m \in Nat /\ n \in Nat /\ n + m = Len(s)
  BY LenProperties
<1>3. \A j \in 1..m : Left(t)[j] = StepBytes(s)[n + j] /\ Left(t)[j] \in Nat
  BY <1>1 DEF Left, StepBytes
<1>4. Script!RetainedBy(t) = Total(Left(t), 0, 1..m)
  BY <1>1, RetainedByTotal
<1> HIDE DEF t, m
<1>5. Total(Left(t), 0, 1..m) = Total(StepBytes(s), 0, (n + 1)..(n + m))
  <2> DEFINE v == Left(t)
             w == StepBytes(s)
  <2>1. \A j \in 1..m : v[j] = w[n + j] /\ v[j] \in Nat
    BY <1>3
  <2>2. n \in Nat /\ m \in Nat
    BY <1>2
  <2> HIDE DEF v, w
  <2>3. Total(v, 0, 1..m) = Total(w, 0, (n + 1)..(n + m))
    BY <2>1, <2>2, Shifted
  <2>4. QED
    BY <2>3 DEF v, w
<1>6. Total(Left(t), 0, 1..m) \in Nat
  <2>1. IsFiniteSet(1..m)
    BY <1>2, FS_Interval
  <2>2. QED
    BY <1>3, <2>1, TotalType
<1>7. QED
  BY <1>2, <1>4, <1>5, <1>6 DEF t

\* An answer takes its step and no other byte.
LEMMA RestAnswered ==
  ASSUME NEW s \in Seq(ScriptStep), NEW n \in 0..Len(s), n # Len(s)
  PROVE  /\ Rest(s, n) # <<>> /\ Head(Rest(s, n)) = Script!Measured(s[n + 1])
         /\ Tail(Rest(s, n)) = Rest(s, n + 1)
         /\ Script!RetainedBy(Rest(s, n))
              = Script!MeasureStep(s[n + 1]) + Script!RetainedBy(Rest(s, n + 1))
         /\ Script!MeasureStep(s[n + 1]) \in Nat
<1>1. Len(s) \in Nat /\ n + 1 \in 0..Len(s) /\ n + 1 \in 1..Len(s) /\ n \in Nat
  BY LenProperties
<1>2. /\ Rest(s, n) \in Seq(MeasuredStep) /\ Len(Rest(s, n)) = Len(s) - n
      /\ Rest(s, n + 1) \in Seq(MeasuredStep) /\ Len(Rest(s, n + 1)) = Len(s) - (n + 1)
  BY <1>1, RestParts
<1>3. Rest(s, n) # <<>>
  BY <1>1, <1>2
<1>4. Head(Rest(s, n)) = Script!Measured(s[n + 1])
  <2>1. Head(Rest(s, n)) = Rest(s, n)[1]
    BY <1>2, <1>3
  <2>2. QED
    BY <1>1, <2>1 DEF Rest
<1>5. Tail(Rest(s, n)) = Rest(s, n + 1)
  <2>1. /\ Tail(Rest(s, n)) \in Seq(MeasuredStep)
        /\ Len(Tail(Rest(s, n))) = Len(s) - (n + 1)
        /\ \A i \in 1..(Len(s) - (n + 1)) : Tail(Rest(s, n))[i] = Rest(s, n)[i + 1]
    BY <1>1, <1>2, <1>3, HeadTailProperties
  <2>2. ASSUME NEW i \in 1..(Len(s) - (n + 1))
        PROVE  Rest(s, n)[i + 1] = Rest(s, n + 1)[i]
    <3>1. i + 1 \in 1..(Len(s) - n) /\ n + (i + 1) = (n + 1) + i
      BY <1>1
    <3>2. QED
      BY <3>1 DEF Rest
  <2>3. QED
    BY <1>2, <2>1, <2>2, SeqEqual
<1>6. \A k \in 1..Len(s) : StepBytes(s)[k] \in Nat /\ StepBytes(s)[k] = Script!MeasureStep(s[k])
  BY ElementOfSeq, MeasureStepNat DEF StepBytes
<1>7. Total(StepBytes(s), 0, (n + 1)..Len(s))
        = StepBytes(s)[n + 1] + Total(StepBytes(s), 0, ((n + 1) + 1)..Len(s))
  <2> DEFINE w == StepBytes(s)
             lo == n + 1
             hi == Len(s)
  <2>1. lo \in Int /\ hi \in Int /\ lo <= hi /\ \A i \in lo..hi : i \in 1..Len(s)
    BY <1>1
  <2>2. \A i \in lo..hi : w[i] \in Nat
    BY <1>6, <2>1
  <2> HIDE DEF w, lo, hi
  <2>3. Total(w, 0, lo..hi) = w[lo] + Total(w, 0, (lo + 1)..hi)
    BY <2>1, <2>2, TotalEnds
  <2>4. QED
    BY <2>3 DEF w, lo, hi
<1>8. /\ Script!RetainedBy(Rest(s, n)) = Total(StepBytes(s), 0, (n + 1)..Len(s))
      /\ Script!RetainedBy(Rest(s, n + 1)) = Total(StepBytes(s), 0, ((n + 1) + 1)..Len(s))
  BY <1>1, RestRetains
<1>9. QED
  BY <1>1, <1>3, <1>4, <1>5, <1>6, <1>7, <1>8

---------------------------------------------------------------------------
(* The outcomes of a script                                                *)

\* The outcomes of its k-th answer.
AnswerOf(s, k) == {[step |-> k, index |-> i] : i \in DOMAIN s[k].response}

LEMMA AnswerCount ==
  ASSUME NEW s \in Seq(ScriptStep), NEW k \in 1..Len(s)
  PROVE  /\ IsFiniteSet(AnswerOf(s, k)) /\ Cardinality(AnswerOf(s, k)) = Len(s[k].response)
         /\ Len(s[k].response) \in Nat
<1> DEFINE n == Len(s[k].response)
           f == [i \in 1..n |-> [step |-> k, index |-> i]]
<1>1. n \in Nat /\ DOMAIN s[k].response = 1..n
  <2>1. s[k] \in ScriptStep
    BY ElementOfSeq
  <2>2. QED
    BY <2>1, StepParts
<1>2. AnswerOf(s, k) = {[step |-> k, index |-> i] : i \in 1..n}
  BY <1>1 DEF AnswerOf
<1> HIDE DEF n
<1>3. f \in Bijection(1..n, AnswerOf(s, k))
  BY <1>2 DEF Bijection, Injection, Surjection, IsInjective
<1>4. IsFiniteSet(1..n) /\ Cardinality(1..n) = n
  <2>1. 1 \in Int /\ n \in Int
    BY <1>1
  <2>2. IsFiniteSet(1..n) /\ Cardinality(1..n) = IF 1 > n THEN 0 ELSE n - 1 + 1
    BY <2>1, FS_Interval
  <2>3. QED
    BY <1>1, <2>2
<1>5. QED
  BY <1>1, <1>3, <1>4, FS_Bijection DEF ExistsBijection, n

\* One more answer brings its own outcomes.
LEMMA OutcomesGrow ==
  ASSUME NEW s, NEW n \in Nat
  PROVE  /\ OutcomesOf(s, n + 1) = OutcomesOf(s, n) \cup AnswerOf(s, n + 1)
         /\ OutcomesOf(s, n) \cap AnswerOf(s, n + 1) = {}
         /\ \A o \in OutcomesOf(s, n) : o.step \in 1..n
<1>1. 1..(n + 1) = (1..n) \cup {n + 1} /\ n + 1 \notin 1..n
  OBVIOUS
<1>2. OutcomesOf(s, n) = UNION {AnswerOf(s, k) : k \in 1..n}
  BY DEF OutcomesOf, AnswerOf
<1>3. OutcomesOf(s, n + 1) = UNION {AnswerOf(s, k) : k \in 1..(n + 1)}
  BY DEF OutcomesOf, AnswerOf
<1>4. \A k : \A o \in AnswerOf(s, k) : o.step = k
  BY DEF AnswerOf
<1>5. OutcomesOf(s, n + 1) = OutcomesOf(s, n) \cup AnswerOf(s, n + 1)
  BY <1>1, <1>2, <1>3
<1>6. \A o \in OutcomesOf(s, n) : o.step \in 1..n
  BY <1>2, <1>4
<1>7. QED
  BY <1>1, <1>4, <1>5, <1>6

LEMMA NoOutcomes == ASSUME NEW s PROVE OutcomesOf(s, 0) = {}
<1>1. 1..0 = {}
  OBVIOUS
<1>2. QED
  BY <1>1 DEF OutcomesOf

\* They are as many as the lengths of the answers add up to.
LEMMA OutcomesCount ==
  ASSUME NEW s \in Seq(ScriptStep), NEW n \in 0..Len(s)
  PROVE  /\ IsFiniteSet(OutcomesOf(s, n))
         /\ Cardinality(OutcomesOf(s, n)) = Total(Lengths(s), 0, 1..n)
<1> DEFINE Good(m) == /\ IsFiniteSet(OutcomesOf(s, m))
                      /\ Cardinality(OutcomesOf(s, m)) = Total(Lengths(s), 0, 1..m)
           Bad == {m \in Nat : m \in 0..Len(s) /\ ~Good(m)}
<1>0. Len(s) \in Nat
  BY LenProperties
<1>1. ASSUME Bad # {} PROVE FALSE
  <2>1. PICK m \in Bad : \A k \in Nat : k < m => k \notin Bad
    BY <1>1, LeastNatural
  <2>2. m \in 0..Len(s) /\ m \in Nat /\ ~Good(m)
    BY <2>1
  <2>3. m # 0
    <3>1. 1..0 = {} /\ IsFiniteSet({}) /\ Cardinality({}) = 0
      BY FS_EmptySet
    <3>2. Good(0)
      BY <3>1, NoOutcomes, TotalEmpty
    <3>3. QED
      BY <2>2, <3>2
  <2> DEFINE k == m - 1
  <2>4. k \in Nat /\ k < m /\ k \in 0..Len(s) /\ k + 1 = m /\ m \in 1..Len(s)
    BY <1>0, <2>2, <2>3
  <2>5. Good(k)
    BY <2>1, <2>4
  <2> HIDE DEF Bad, k
  <2>6. /\ OutcomesOf(s, m) = OutcomesOf(s, k) \cup AnswerOf(s, m)
        /\ OutcomesOf(s, k) \cap AnswerOf(s, m) = {}
    BY <2>4, OutcomesGrow
  <2>7. /\ IsFiniteSet(AnswerOf(s, m)) /\ Cardinality(AnswerOf(s, m)) = Len(s[m].response)
        /\ Len(s[m].response) \in Nat
    BY <2>4, AnswerCount
  <2>8. /\ IsFiniteSet(OutcomesOf(s, m))
        /\ Cardinality(OutcomesOf(s, m)) = Cardinality(OutcomesOf(s, k)) + Len(s[m].response)
    <3> DEFINE S == OutcomesOf(s, k)
               T == AnswerOf(s, m)
    <3>1. IsFiniteSet(S) /\ IsFiniteSet(T) /\ S \cap T = {}
      BY <2>5, <2>6, <2>7
    <3> HIDE DEF S, T
    <3>2. IsFiniteSet(S \cup T) /\ Cardinality(S \cup T) = Cardinality(S) + Cardinality(T)
      BY <3>1, DisjointCount
    <3>3. QED
      BY <2>6, <2>7, <3>2 DEF S, T
  <2>9. Total(Lengths(s), 0, 1..m) = Lengths(s)[m] + Total(Lengths(s), 0, 1..k)
    <3> DEFINE w == Lengths(s)
    <3>1. \A i \in 1..m : i \in 1..Len(s)
      BY <1>0, <2>4
    <3>2. \A i \in 1..m : w[i] \in Nat
      BY <3>1, AnswerCount DEF Lengths
    <3>3. 1 \in Int /\ m \in Int /\ 1 <= m /\ m - 1 = k
      BY <2>2, <2>4
    <3> HIDE DEF w
    <3>4. Total(w, 0, 1..m) = w[m] + Total(w, 0, 1..(m - 1))
      BY <3>2, <3>3, TotalEnds
    <3>5. QED
      BY <3>3, <3>4 DEF w
  <2>10. Lengths(s)[m] = Len(s[m].response)
    BY <2>4 DEF Lengths
  <2>11. Cardinality(OutcomesOf(s, k)) \in Nat
    BY <2>5, FS_CardinalityType
  <2>12. Good(m)
    BY <2>5, <2>7, <2>8, <2>9, <2>10, <2>11
  <2>13. QED
    BY <2>2, <2>12
<1>2. n \in Nat
  OBVIOUS
<1>3. QED
  BY <1>1, <1>2

\* So they are never more than the script was allowed to have.
LEMMA OutcomesBound ==
  ASSUME NEW s \in Seq(ScriptStep), NEW n \in 0..Len(s)
  PROVE  /\ Cardinality(OutcomesOf(s, n)) <= Script!CountOutcomes(s)
         /\ Cardinality(OutcomesOf(s, n)) \in Nat /\ Script!CountOutcomes(s) \in Nat
<1>1. Len(s) \in Nat /\ n \in Nat /\ Len(s) \in 0..Len(s)
  BY LenProperties
<1>2. /\ IsFiniteSet(1..n) /\ IsFiniteSet((n + 1)..Len(s))
      /\ (1..n) \cap ((n + 1)..Len(s)) = {}
      /\ (1..n) \cup ((n + 1)..Len(s)) = 1..Len(s)
  <2>1. n + 1 \in Int /\ Len(s) \in Int /\ 1 \in Int /\ n \in Int
    BY <1>1
  <2>2. IsFiniteSet(1..n) /\ IsFiniteSet((n + 1)..Len(s))
    BY <2>1, FS_Interval
  <2>3. QED
    BY <1>1, <2>2
<1>3. \A k \in 1..Len(s) : Lengths(s)[k] \in Nat
  BY AnswerCount DEF Lengths
<1>4. Total(Lengths(s), 0, 1..Len(s))
        = Total(Lengths(s), 0, 1..n) + Total(Lengths(s), 0, (n + 1)..Len(s))
  BY <1>2, <1>3, TotalUnion
<1>5. /\ Total(Lengths(s), 0, 1..n) \in Nat
      /\ Total(Lengths(s), 0, (n + 1)..Len(s)) \in Nat
  <2>1. /\ \A k \in 1..n : Lengths(s)[k] \in Nat
        /\ \A k \in (n + 1)..Len(s) : Lengths(s)[k] \in Nat
    BY <1>2, <1>3
  <2>2. QED
    BY <1>2, <2>1, TotalType
<1>6. Cardinality(OutcomesOf(s, n)) = Total(Lengths(s), 0, 1..n)
  BY OutcomesCount
<1>7. Script!CountOutcomes(s) = Total(Lengths(s), 0, 1..Len(s))
  BY CountOutcomesTotal
<1>8. QED
  BY <1>4, <1>5, <1>6, <1>7

---------------------------------------------------------------------------
(* The parts of the invariant                                              *)

Planned1 == [delay : Nat, size : Sizes, outcome : Payloads]
PendingOutcomes == {e.payload : e \in events}
DeliveredOutcomes == {e.payload : e \in ToSet(delivered)}

AllPlaced ==
  Outcomes = PlannedOutcomes \cup PendingOutcomes \cup DeliveredOutcomes \cup EndedOutcomes

Counted ==
  Cardinality(Outcomes) = Len(planned) + Cardinality(events) + Len(delivered) + Cardinality(ended)

OnTime ==
  \A i \in DOMAIN delivered :
    /\ delivered[i].at = answered[delivered[i].payload.step][2] + DelayOf(script, delivered[i].payload)
    /\ \A j \in 1..(i - 1) :
         \/ delivered[j].at < delivered[i].at
         \/ delivered[j].at = delivered[i].at /\ delivered[j].id < delivered[i].id

LEMMA DeliveredParts == OutcomesDelivered <=> AllPlaced /\ Counted /\ OnTime
  BY DEF OutcomesDelivered, AllPlaced, Counted, OnTime, PlannedOutcomes, PendingOutcomes,
         DeliveredOutcomes, EndedOutcomes

ScriptSide ==
  /\ phase \in {"new", "refused", "built"}
  /\ StepsLeft /\ Script!ScriptAccounts /\ AnsweredInOrder

Parts == TimelineSafe /\ ScriptSide /\ PlannedLast /\ OneFate /\ AllPlaced /\ Counted /\ OnTime

\* Everything that the invariant says follows from these.
LEMMA PartsSuffice ==
  Parts <=> ScriptInv
<1>1. ScriptInv => Parts
  BY DeliveredParts DEF ScriptInv, ScriptSafe, ScriptedTypeOK, Parts, ScriptSide, OneFate, TimelineSafe
<1>2. ASSUME Parts PROVE ScriptInv
  <2>1. /\ script \in Seq(ScriptStep) /\ answered \in Seq(Requests \X Moments)
        /\ Script!CountOutcomes(script) <= ScriptLimits.outcomes /\ Len(answered) <= Len(script)
    <3>1. <<>> \in Seq(ScriptStep)
      OBVIOUS
    <3>2. script \in Scripts \cup {<<>>}
      BY <1>2 DEF Parts, ScriptSide, StepsLeft
    <3>3. script \in Seq(ScriptStep)
      BY <3>1, <3>2, ScriptLimitsNat
    <3>4. QED
      BY <1>2, <3>3 DEF Parts, ScriptSide, StepsLeft
  <2>2. Len(answered) \in 0..Len(script)
    <3>1. Len(answered) \in Nat /\ Len(script) \in Nat
      BY <2>1, LenProperties
    <3>2. QED
      BY <2>1, <3>1
  <2>3. /\ Cardinality(Outcomes) <= Script!CountOutcomes(script)
        /\ Cardinality(Outcomes) \in Nat /\ Script!CountOutcomes(script) \in Nat
    BY <2>1, <2>2, OutcomesBound DEF Outcomes
  <2>4. /\ Len(planned) \in Nat /\ Len(delivered) \in Nat
        /\ Cardinality(events) \in Nat /\ Cardinality(ended) \in Nat
    BY <1>2, LenProperties, FS_CardinalityType DEF Parts, PlannedLast, OneFate
  <2>5. Len(delivered) + Cardinality(ended) <= ScriptLimits.outcomes
    <3>1. Cardinality(Outcomes) = Len(planned) + Cardinality(events) + Len(delivered)
                                  + Cardinality(ended)
      BY <1>2 DEF Parts, Counted
    <3>2. QED
      BY <2>1, <2>3, <2>4, <3>1, ScriptLimitsNat
  <2>6. ScriptedTypeOK
    BY <1>2, <2>5 DEF Parts, ScriptSide, TimelineSafe, ScriptedTypeOK
  <2>7. QED
    BY <1>2, <2>6, DeliveredParts DEF Parts, ScriptSide, TimelineSafe, ScriptSafe, ScriptInv
<1>3. QED
  BY <1>1, <1>2

\* What the invariant says of the values of the variables.
LEMMA PartsFacts ==
  ASSUME Parts
  PROVE  /\ script \in Seq(ScriptStep) /\ Len(script) \in Nat
         /\ answered \in Seq(Requests \X Moments) /\ Len(answered) \in Nat
         /\ Len(answered) \in 0..Len(script) /\ DOMAIN answered = 1..Len(answered)
         /\ DOMAIN script = 1..Len(script)
         /\ steps = Rest(script, Len(answered))
         /\ planned \in Seq(Planned1) /\ Len(planned) \in Nat /\ DOMAIN planned = 1..Len(planned)
         /\ delivered \in Seq(Event) /\ Len(delivered) \in Nat
         /\ DOMAIN delivered = 1..Len(delivered)
         /\ events \in SUBSET Event /\ IsFiniteSet(events) /\ IsFiniteSet(ended)
         /\ Cardinality(events) \in Nat /\ Cardinality(ended) \in Nat
         /\ now \in Moments /\ now \in Nat
         /\ \A o \in Outcomes : o.step \in 1..Len(answered)
<1>1. script \in Seq(ScriptStep)
  <2>1. <<>> \in Seq(ScriptStep)
    OBVIOUS
  <2>2. script \in Scripts \cup {<<>>}
    BY DEF Parts, ScriptSide, StepsLeft
  <2>3. QED
    BY <2>1, <2>2, ScriptLimitsNat
<1>2. /\ answered \in Seq(Requests \X Moments) /\ Len(answered) <= Len(script)
      /\ steps = [j \in 1..(Len(script) - Len(answered)) |->
                    Script!Measured(script[Len(answered) + j])]
  BY DEF Parts, ScriptSide, StepsLeft
<1>3. planned \in Seq(Planned1) /\ delivered \in Seq(Event) /\ IsFiniteSet(ended)
  BY DEF Parts, PlannedLast, OneFate, Planned1
<1>4. events \in SUBSET Event /\ IsFiniteSet(events) /\ now \in Moments /\ now \in Nat
  BY TimelineLimits DEF Parts, TimelineSafe, TimelineTypeOK
<1>5. /\ Len(script) \in Nat /\ Len(answered) \in Nat /\ Len(planned) \in Nat
      /\ Len(delivered) \in Nat /\ DOMAIN answered = 1..Len(answered)
      /\ DOMAIN planned = 1..Len(planned) /\ DOMAIN delivered = 1..Len(delivered)
      /\ DOMAIN script = 1..Len(script)
  BY <1>1, <1>2, <1>3, LenProperties
<1>6. Cardinality(events) \in Nat /\ Cardinality(ended) \in Nat
  BY <1>3, <1>4, FS_CardinalityType
<1>7. \A o \in Outcomes : o.step \in 1..Len(answered)
  BY <1>5, OutcomesGrow DEF Outcomes
<1>8. steps = Rest(script, Len(answered))
  BY <1>2 DEF Rest
<1>9. QED
  BY <1>1, <1>2, <1>3, <1>4, <1>5, <1>6, <1>7, <1>8

---------------------------------------------------------------------------
(* Every action keeps it                                                   *)

\* What the script's owner keeps does not move with the timeline.
LEMMA ScriptStays ==
  ASSUME Parts, UNCHANGED <<steps, scriptRetained, phase, script, answered>>
  PROVE  ScriptSide' /\ Outcomes' = Outcomes
<1>1. ScriptSide /\ /\ steps' = steps /\ scriptRetained' = scriptRetained /\ phase' = phase
                   /\ script' = script /\ answered' = answered
  BY DEF Parts
<1>2. StepsLeft'
  BY <1>1 DEF ScriptSide, StepsLeft
<1>3. Script!ScriptAccounts'
  BY <1>1 DEF ScriptSide, Script!ScriptAccounts
<1>4. AnsweredInOrder'
  BY <1>1 DEF ScriptSide, AnsweredInOrder
<1>5. Outcomes' = Outcomes
  BY <1>1 DEF Outcomes
<1>6. QED
  BY <1>1, <1>2, <1>3, <1>4, <1>5 DEF ScriptSide

\* What was answered and what remains make up the script.
LEMMA InOrder ==
  ASSUME NEW s \in Seq(ScriptStep), NEW a \in Seq(Requests \X Moments),
         Len(a) \in 0..Len(s), \A k \in 1..Len(a) : a[k][1] = s[k].expected
  PROVE  [i \in DOMAIN a |-> a[i][1]]
           \o [i \in DOMAIN Rest(s, Len(a)) |-> Rest(s, Len(a))[i].step.expected]
           = [i \in DOMAIN s |-> s[i].expected]
<1> DEFINE n == Len(a)
           m == Len(s)
           t == Rest(s, n)
           x == [i \in 1..n |-> a[i][1]]
           y == [i \in 1..(m - n) |-> t[i].step.expected]
           z == [i \in 1..m |-> s[i].expected]
<1>1. /\ n \in Nat /\ m \in Nat /\ m - n \in Nat
      /\ DOMAIN a = 1..n /\ DOMAIN s = 1..m /\ DOMAIN t = 1..(m - n)
  BY LenProperties, RestParts
<1>2. \A i \in 1..m : s[i].expected \in Requests
  BY ElementOfSeq, StepParts
<1>3. \A i \in 1..(m - n) : n + i \in 1..m /\ t[i].step.expected = s[n + i].expected
  <2> SUFFICES ASSUME NEW i \in 1..(m - n)
               PROVE  n + i \in 1..m /\ t[i].step.expected = s[n + i].expected
    OBVIOUS
  <2>1. n + i \in 1..m
        /\ t[i] = [step |-> s[n + i], retained |-> Script!MeasureStep(s[n + i])]
    BY RestParts, Zenon
  <2> HIDE DEF n, m, t
  <2> DEFINE b == Script!MeasureStep(s[n + i])
  <2>2. t[i] = [step |-> s[n + i], retained |-> b]
    BY <2>1
  <2> HIDE DEF b
  <2>3. QED
    BY <2>1, <2>2
<1>4. \A i \in 1..n : i \in 1..m /\ a[i][1] = s[i].expected
  BY <1>1
<1> HIDE DEF t, n, m
<1>5. x \in Seq(Requests) /\ Len(x) = n
  <2>1. x \in [1..n -> Requests] /\ n \in Nat
    BY <1>1, <1>2, <1>4
  <2> HIDE DEF x
  <2>2. QED
    BY <2>1, Listed
<1>6. y \in Seq(Requests) /\ Len(y) = m - n
  <2>1. \A i \in 1..(m - n) : t[i].step.expected \in Requests
    BY <1>2, <1>3
  <2>2. y \in [1..(m - n) -> Requests] /\ m - n \in Nat
    BY <1>1, <2>1
  <2> HIDE DEF y
  <2>3. QED
    BY <2>2, Listed
<1>7. z \in Seq(Requests) /\ Len(z) = m
  <2>1. z \in [1..m -> Requests] /\ m \in Nat
    BY <1>1, <1>2
  <2> HIDE DEF z
  <2>2. QED
    BY <2>1, Listed
<1> HIDE DEF x, y, z
<1>8. /\ x \o y \in Seq(Requests) /\ Len(x \o y) = n + (m - n)
      /\ \A i \in 1..(n + (m - n)) : (x \o y)[i] = IF i <= n THEN x[i] ELSE y[i - n]
  <2>1. /\ x \o y \in Seq(Requests) /\ Len(x \o y) = Len(x) + Len(y)
        /\ \A i \in 1..(Len(x) + Len(y)) :
             (x \o y)[i] = IF i <= Len(x) THEN x[i] ELSE y[i - Len(x)]
    BY <1>5, <1>6, ConcatProperties
  <2>2. QED
    BY <1>5, <1>6, <2>1
<1>9. \A i \in 1..m : (x \o y)[i] = z[i]
  <2> SUFFICES ASSUME NEW i \in 1..m PROVE (x \o y)[i] = z[i]
    OBVIOUS
  <2>1. n + (m - n) = m
    BY <1>1
  <2>2. (x \o y)[i] = IF i <= n THEN x[i] ELSE y[i - n]
    BY <1>8, <2>1
  <2>3. CASE i <= n
    <3>1. i \in 1..n
      BY <1>1, <2>3
    <3>2. QED
      BY <1>4, <2>2, <2>3, <3>1 DEF x, z
  <2>4. CASE ~(i <= n)
    <3>1. i - n \in 1..(m - n) /\ n + (i - n) = i
      BY <1>1, <2>4
    <3>2. QED
      BY <1>3, <2>2, <2>4, <3>1 DEF y, z
  <2>5. QED
    BY <2>3, <2>4
<1>10. Len(x \o y) = Len(z)
  BY <1>1, <1>7, <1>8
<1>11. x \o y = z
  BY <1>7, <1>8, <1>9, <1>10, SeqEqual
<1>12. QED
  BY <1>1, <1>11 DEF x, y, z, n, m, t

LEMMA InitParts == ScriptedInit => Parts
<1> SUFFICES ASSUME ScriptedInit PROVE Parts
  OBVIOUS
<1>1. /\ steps = <<>> /\ scriptRetained = 0 /\ phase = "new" /\ planned = <<>> /\ script = <<>>
      /\ answered = <<>> /\ delivered = <<>> /\ ended = {}
  BY DEF ScriptedInit
<1>2. now \in Moments /\ events = {} /\ next_id = {0} /\ retained = 0 /\ timelinePanic = FALSE
  BY DEF ScriptedInit, TimelineInit
<1>3. Len(<<>>) = 0 /\ DOMAIN <<>> = {} /\ 1..0 = {} /\ Cardinality({}) = 0 /\ IsFiniteSet({})
      /\ \A S : <<>> \in Seq(S)
  BY FS_EmptySet
<1>4. TimelineSafe
  <2>1. Cardinality({0}) = 1 /\ BytesOf({}) = 0
    BY FS_Singleton, BytesEmpty
  <2>2. TimelineTypeOK
    <3>1. 0 \in 0..U64 /\ {0} \subseteq 0..U64 /\ 1 <= 1
      BY TimelineLimits
    <3>2. QED
      BY <1>2, <2>1, <3>1 DEF TimelineTypeOK
  <2>3. NothingInThePast
    BY <1>2 DEF NothingInThePast
  <2>4. TimelineAccounts
    BY <1>2, <1>3, <2>1, TimelineLimits DEF TimelineAccounts
  <2>5. QED
    BY <1>2, <1>3, <2>2, <2>3, <2>4 DEF TimelineSafe
<1>5. Outcomes = {}
  BY <1>1, <1>3, NoOutcomes DEF Outcomes
<1>6. Rest(<<>>, 0) = <<>> /\ Script!RetainedBy(<<>>) = 0 /\ Script!CountOutcomes(<<>>) = 0
  <2>1. Rest(<<>>, 0) = <<>>
    <3>1. 0 \in 0..Len(<<>>) /\ <<>> \in Seq(ScriptStep)
      BY <1>3
    <3> DEFINE e == <<>>
    <3> HIDE DEF e
    <3>2. Rest(e, 0) \in Seq(MeasuredStep) /\ Len(Rest(e, 0)) = Len(e) - 0
      BY <3>1, RestParts DEF e
    <3>3. Len(Rest(e, 0)) = 0
      BY <1>3, <3>2 DEF e
    <3>4. QED
      BY <3>2, <3>3, EmptySeq DEF e
  <2>2. Script!RetainedBy(<<>>) = Total(Left(<<>>), 0, {})
    BY <1>3, RetainedByTotal
  <2>3. Script!CountOutcomes(<<>>) = Total(Lengths(<<>>), 0, {})
    BY <1>3, CountOutcomesTotal
  <2>4. QED
    BY <2>1, <2>2, <2>3, TotalEmpty
<1>7. ScriptSide
  <2>1. StepsLeft
    BY <1>1, <1>3, <1>6, ScriptLimitsNat DEF StepsLeft, Rest
  <2>2. Script!ScriptAccounts
    BY <1>1, <1>3, <1>6, ScriptLimitsNat DEF Script!ScriptAccounts
  <2>3. AnsweredInOrder
    BY <1>1, <1>3 DEF AnsweredInOrder
  <2>4. QED
    BY <1>1, <2>1, <2>2, <2>3 DEF ScriptSide
<1>8. PlannedOutcomes = {} /\ PendingOutcomes = {} /\ DeliveredOutcomes = {} /\ EndedOutcomes = {}
  BY <1>1, <1>2, <1>3 DEF PlannedOutcomes, PendingOutcomes, DeliveredOutcomes, EndedOutcomes, ToSet
<1>9. AllPlaced /\ Counted /\ OnTime
  BY <1>1, <1>2, <1>3, <1>5, <1>8 DEF AllPlaced, Counted, OnTime
<1>10. PlannedLast /\ OneFate
  BY <1>1, <1>2, <1>3, <1>8 DEF PlannedLast, OneFate
<1>11. QED
  BY <1>4, <1>7, <1>9, <1>10 DEF Parts

\* try_new
LEMMA BuildKeeps ==
  ASSUME Parts, NEW s \in Scripts, Build(s)
  PROVE  Parts'
<1>1. /\ phase \in {"new", "refused"}
      /\ UNCHANGED <<timelineVars, planned, answered, delivered, ended>>
      /\ phase # "built" => script = <<>>
  BY DEF Build, Parts, ScriptSide, StepsLeft
<1>2. script = <<>> /\ Len(script) = 0 /\ Len(answered) = 0
  BY <1>1, PartsFacts
<1>3. Outcomes = {} /\ Cardinality(Outcomes) = 0
  BY <1>2, NoOutcomes, FS_EmptySet DEF Outcomes
<1>4. planned = <<>> /\ events = {} /\ delivered = <<>> /\ ended = {}
  <2>1. 0 = Len(planned) + Cardinality(events) + Len(delivered) + Cardinality(ended)
    BY <1>3 DEF Parts, Counted
  <2>2. Len(planned) = 0 /\ Cardinality(events) = 0 /\ Len(delivered) = 0 /\ Cardinality(ended) = 0
    BY <2>1, PartsFacts
  <2>3. events = {} /\ ended = {}
    BY <2>2, PartsFacts, FS_EmptySet
  <2>4. planned = <<>> /\ delivered = <<>>
    BY <2>2, PartsFacts, EmptySeq
  <2>5. QED
    BY <2>3, <2>4
<1>5. answered = <<>>
  BY <1>2, PartsFacts, EmptySeq
<1>6. TimelineSafe'
  BY <1>1 DEF Parts, TimelineSafe, TimelineTypeOK, NothingInThePast, TimelineAccounts, timelineVars
<1>7. /\ Len(<<>>) = 0 /\ DOMAIN <<>> = {} /\ Cardinality({}) = 0 /\ IsFiniteSet({})
      /\ \A S : <<>> \in Seq(S)
  BY FS_EmptySet
<1>8. /\ planned' = <<>> /\ events' = {} /\ delivered' = <<>> /\ ended' = {} /\ answered' = <<>>
      /\ now' = now /\ next_id' = next_id
  BY <1>1, <1>4, <1>5 DEF timelineVars
<1>9. /\ PlannedOutcomes' = {} /\ PendingOutcomes' = {} /\ DeliveredOutcomes' = {}
      /\ EndedOutcomes' = {} /\ Outcomes' = {}
  <2>1. Outcomes' = OutcomesOf(script', 0)
    BY <1>7, <1>8 DEF Outcomes
  <2>2. QED
    BY <1>7, <1>8, <2>1, NoOutcomes
       DEF PlannedOutcomes, PendingOutcomes, DeliveredOutcomes, EndedOutcomes, ToSet
<1>10. AllPlaced' /\ Counted' /\ OnTime'
  BY <1>7, <1>8, <1>9 DEF AllPlaced, Counted, OnTime
<1>11. PlannedLast' /\ OneFate'
  BY <1>7, <1>8, <1>9 DEF PlannedLast, OneFate
<1>12. ScriptSide'
  <2>1. CASE UNCHANGED <<steps, scriptRetained, script>> /\ phase' = "refused"
    <3>1. StepsLeft'
      BY <1>1, <2>1 DEF Parts, ScriptSide, StepsLeft
    <3>2. Script!ScriptAccounts'
      BY <2>1 DEF Parts, ScriptSide, Script!ScriptAccounts
    <3>3. AnsweredInOrder'
      BY <1>1, <2>1 DEF Parts, ScriptSide, AnsweredInOrder
    <3>4. QED
      BY <2>1, <3>1, <3>2, <3>3 DEF ScriptSide
  <2>2. CASE Script!TryNew(s) /\ phase' = "built" /\ script' = s
    <3>1. /\ s \in Seq(ScriptStep) /\ Len(s) \in Nat /\ DOMAIN s = 1..Len(s) /\ 0 \in 0..Len(s)
      <4>1. s \in Seq(ScriptStep)
        BY ScriptLimitsNat
      <4>2. QED
        BY <4>1, LenProperties
    <3>2. /\ Script!BuildFailure(s) = "none"
          /\ steps' = [i \in 1..Len(s) |-> Script!Measured(s[i])]
          /\ scriptRetained' = Script!MeasureSteps(s)
      BY <2>2, <3>1 DEF Script!TryNew
    <3>3. /\ ~(Len(s) > ScriptLimits.steps)
          /\ ~(Script!CountOutcomes(s) > ScriptLimits.outcomes)
          /\ ~(Script!MeasureSteps(s) > ScriptLimits.retained_bytes)
      BY <3>2 DEF Script!BuildFailure
    <3>4. Len(s) - 0 = Len(s) /\ \A i \in 1..Len(s) : 0 + i = i
      BY <3>1
    <3>5. steps' = Rest(s, 0)
      BY <3>2, <3>4 DEF Rest
    <3>6. Script!MeasureSteps(s) = Script!RetainedBy(Rest(s, 0)) /\ Script!MeasureSteps(s) \in Nat
      <4>1. 0 + 1 = 1
        OBVIOUS
      <4>2. Script!RetainedBy(Rest(s, 0)) = Total(StepBytes(s), 0, 1..Len(s))
            /\ Script!RetainedBy(Rest(s, 0)) \in Nat
        BY <3>1, <4>1, RestRetains
      <4>3. QED
        BY <3>1, <4>2, MeasureStepsTotal
    <3>7. Script!CountOutcomes(s) \in Nat
      BY <3>1, OutcomesBound
    <3>8. StepsLeft'
      <4>1. Script!CountOutcomes(s) <= ScriptLimits.outcomes
        BY <3>3, <3>7, ScriptLimitsNat
      <4>2. answered' \in Seq(Requests \X Moments) /\ Len(answered') = 0 /\ DOMAIN answered' = {}
        BY <1>7, <1>8
      <4>3. QED
        BY <2>2, <3>1, <3>5, <4>1, <4>2 DEF StepsLeft, Rest
    <3>9. Script!ScriptAccounts'
      <4>1. Len(Rest(s, 0)) = Len(s)
        BY <3>1, <3>4, RestParts
      <4>2. Len(s) <= ScriptLimits.steps
        BY <3>1, <3>3, ScriptLimitsNat
      <4>3. Script!MeasureSteps(s) <= ScriptLimits.retained_bytes
        BY <3>3, <3>6, ScriptLimitsNat
      <4>4. QED
        BY <3>2, <3>5, <3>6, <4>1, <4>2, <4>3 DEF Script!ScriptAccounts
    <3>10. AnsweredInOrder'
      <4>1. /\ answered' \in Seq(Requests \X Moments) /\ Len(answered') = 0
            /\ Len(answered') \in 0..Len(s)
            /\ \A k \in 1..Len(answered') : answered'[k][1] = s[k].expected
        BY <1>7, <1>8, <3>1
      <4>2. [i \in DOMAIN answered' |-> answered'[i][1]]
              \o [i \in DOMAIN Rest(s, 0) |-> Rest(s, 0)[i].step.expected]
              = [i \in DOMAIN s |-> s[i].expected]
        BY <3>1, <4>1, InOrder
      <4>3. QED
        BY <2>2, <3>5, <4>2 DEF AnsweredInOrder
    <3>11. QED
      BY <2>2, <3>8, <3>9, <3>10 DEF ScriptSide
  <2>3. QED
    BY <2>1, <2>2 DEF Build
<1>13. QED
  BY <1>6, <1>10, <1>11, <1>12 DEF Parts

\* Every pending outcome was answered, and is nowhere else.
LEMMA PendingParts ==
  ASSUME Parts, NEW e \in events
  PROVE  /\ e \in Event /\ e.payload \in Outcomes /\ e.payload.step \in 1..Len(answered)
         /\ e.at = answered[e.payload.step][2] + DelayOf(script, e.payload)
         /\ e.payload \notin PlannedOutcomes /\ e.payload \notin EndedOutcomes
         /\ \A f \in events : e.payload = f.payload => e = f
<1>1. e.payload \in Outcomes
  BY DEF Parts, AllPlaced, PendingOutcomes
<1>2. QED
  BY <1>1, PartsFacts DEF Parts, OneFate

\* cancel
LEMMA CancelKeeps ==
  ASSUME Parts, NEW e \in events, Cancel(e)
  PROVE  Parts'
<1>1. /\ planned = <<>> /\ CancelEvent(e)
      /\ ended' = ended \cup {<<e.payload, "cancelled">>}
      /\ UNCHANGED <<steps, scriptRetained, phase, planned, script, answered, delivered>>
  BY DEF Cancel
<1>2. /\ TimelineSafe' /\ events' = events \ {e} /\ now' = now /\ next_id' = next_id
  BY <1>1, Cancelled DEF Parts, CancelEvent
<1>3. ScriptSide' /\ Outcomes' = Outcomes
  BY <1>1, ScriptStays
<1>4. /\ answered' = answered /\ script' = script /\ delivered' = delivered /\ planned' = planned
  BY <1>1
<1>5. PlannedLast' /\ PlannedOutcomes' = PlannedOutcomes
  BY <1>2, <1>4 DEF Parts, PlannedLast, PlannedOutcomes
<1>6. OnTime'
  BY <1>3, <1>4 DEF Parts, OnTime
<1>7. EndedOutcomes' = EndedOutcomes \cup {e.payload}
  <2>1. <<e.payload, "cancelled">>[1] = e.payload
    OBVIOUS
  <2>2. EndedOutcomes' = EndedOutcomes \cup {<<e.payload, "cancelled">>[1]}
    BY <1>1, Zenon DEF EndedOutcomes
  <2>3. QED
    BY <2>1, <2>2
<1>8. PendingOutcomes = PendingOutcomes' \cup {e.payload}
  BY <1>2 DEF PendingOutcomes
<1>9. AllPlaced'
  <2>1. DeliveredOutcomes' = DeliveredOutcomes
    BY <1>4 DEF DeliveredOutcomes
  <2>2. QED
    BY <1>3, <1>5, <1>7, <1>8, <2>1 DEF Parts, AllPlaced
<1>10. Counted' /\ IsFiniteSet(events') /\ IsFiniteSet(ended')
  <2>1. <<e.payload, "cancelled">> \notin ended
    BY PendingParts DEF EndedOutcomes
  <2>2. IsFiniteSet(ended') /\ Cardinality(ended') = Cardinality(ended) + 1
    BY <1>1, <2>1, PartsFacts, FS_AddElement
  <2>3. IsFiniteSet(events') /\ Cardinality(events') = Cardinality(events) - 1
    BY <1>2, PartsFacts, FS_RemoveElement
  <2>4. Len(planned) + Cardinality(events) + Len(delivered) + Cardinality(ended)
          = Len(planned) + Cardinality(events') + Len(delivered) + Cardinality(ended')
    BY <2>2, <2>3, PartsFacts
  <2>5. QED
    BY <1>3, <1>4, <2>2, <2>3, <2>4 DEF Parts, Counted
<1>11. OneFate'
  <2>1. PlannedOutcomes' \cap EndedOutcomes' = {}
    BY <1>5, <1>7, PendingParts DEF Parts, OneFate
  <2>2. ASSUME NEW f \in events'
        PROVE  /\ f.at = answered'[f.payload.step][2] + DelayOf(script', f.payload)
               /\ f.payload \notin PlannedOutcomes' \cup EndedOutcomes'
               /\ \A g \in events' : f.payload = g.payload => f = g
    <3>1. f \in events /\ f # e
      BY <1>2
    <3>2. f.payload # e.payload
      BY <3>1, PendingParts
    <3>3. f.at = answered[f.payload.step][2] + DelayOf(script, f.payload)
      BY <3>1, PendingParts
    <3>4. f.payload \notin PlannedOutcomes' \cup EndedOutcomes'
      BY <1>5, <1>7, <3>1, <3>2, PendingParts
    <3>5. \A g \in events' : f.payload = g.payload => f = g
      BY <1>2, <3>1, PendingParts
    <3>6. QED
      BY <1>3, <1>4, <3>3, <3>4, <3>5
  <2>3. /\ delivered' \in Seq(Event)
        /\ \A i \in DOMAIN delivered' :
             /\ delivered'[i].at <= now'
             /\ \A id \in next_id' : delivered'[i].id < id
             /\ \A f \in events' :
                  \/ delivered'[i].at < f.at
                  \/ delivered'[i].at = f.at /\ delivered'[i].id < f.id
    BY <1>2, <1>4 DEF Parts, OneFate
  <2>4. QED
    BY <1>10, <2>1, <2>2, <2>3 DEF OneFate
<1>12. QED
  BY <1>2, <1>3, <1>5, <1>6, <1>9, <1>10, <1>11 DEF Parts

\* pop_next
LEMMA DeliverKeeps ==
  ASSUME Parts, Deliver
  PROVE  Parts'
<1>1. PICK e \in events : PopNext(e) /\ delivered' = Append(delivered, e)
  BY DEF Deliver
<1>2. planned = <<>> /\ UNCHANGED <<steps, scriptRetained, phase, planned, script, answered, ended>>
  BY DEF Deliver
<1>3. /\ TimelineSafe' /\ e \in Event /\ events' = events \ {e} /\ now' = e.at /\ now' >= now
      /\ next_id' = next_id
      /\ \A f \in events' : e.at < f.at \/ (e.at = f.at /\ e.id < f.id)
  BY <1>1, Popped DEF Parts
<1>4. ScriptSide' /\ Outcomes' = Outcomes
  BY <1>2, ScriptStays
<1>5. answered' = answered /\ script' = script /\ ended' = ended /\ planned' = planned
  BY <1>2
<1> DEFINE n == Len(delivered)
<1>6. /\ n \in Nat /\ DOMAIN delivered = 1..n
      /\ delivered' \in Seq(Event) /\ Len(delivered') = n + 1 /\ DOMAIN delivered' = 1..(n + 1)
      /\ \A i \in 1..n : delivered'[i] = delivered[i]
      /\ delivered'[n + 1] = e
  <2>1. n \in Nat /\ DOMAIN delivered = 1..n /\ delivered \in Seq(Event)
    BY PartsFacts
  <2>2. /\ delivered' \in Seq(Event) /\ Len(delivered') = n + 1
        /\ \A i \in 1..n : delivered'[i] = delivered[i]
        /\ delivered'[n + 1] = e
    BY <1>1, <1>3, <2>1, AppendProperties
  <2>3. QED
    BY <2>1, <2>2, LenProperties
<1> HIDE DEF n
<1>7. PlannedLast' /\ PlannedOutcomes' = {} /\ PlannedOutcomes = {} /\ EndedOutcomes' = EndedOutcomes
  <2>1. PlannedLast'
    BY <1>2, <1>5 DEF Parts, PlannedLast
  <2>2. DOMAIN planned = {}
    BY <1>2
  <2>3. QED
    BY <1>5, <2>1, <2>2 DEF PlannedOutcomes, EndedOutcomes, ToSet
<1>8. PendingOutcomes = PendingOutcomes' \cup {e.payload}
  BY <1>1, <1>3 DEF PendingOutcomes
<1>9. DeliveredOutcomes' = DeliveredOutcomes \cup {e.payload}
  <2>1. 1..(n + 1) = (1..n) \cup {n + 1}
    BY <1>6
  <2>2. ToSet(delivered') = ToSet(delivered) \cup {e}
    BY <1>6, <2>1 DEF ToSet
  <2>3. QED
    BY <2>2 DEF DeliveredOutcomes
<1>10. AllPlaced'
  BY <1>4, <1>7, <1>8, <1>9 DEF Parts, AllPlaced
<1>11. Counted' /\ IsFiniteSet(events') /\ IsFiniteSet(ended')
  <2>1. IsFiniteSet(events') /\ Cardinality(events') = Cardinality(events) - 1
    BY <1>1, <1>3, PartsFacts, FS_RemoveElement
  <2>2. Len(planned) + Cardinality(events) + Len(delivered) + Cardinality(ended)
          = Len(planned) + Cardinality(events') + Len(delivered') + Cardinality(ended)
    <3>1. /\ Len(planned) \in Nat /\ Cardinality(events) \in Nat /\ Cardinality(ended) \in Nat
          /\ Len(delivered) = n
      BY PartsFacts DEF n
    <3>2. ASSUME NEW p \in Nat, NEW q \in Nat, NEW x \in Nat
          PROVE  p + q + n + x = p + (q - 1) + (n + 1) + x
      BY <1>6
    <3>3. QED
      BY <1>6, <2>1, <3>1, <3>2
  <2>3. QED
    BY <1>4, <1>5, <2>1, <2>2, PartsFacts DEF Parts, Counted
<1>12. OnTime'
  <2> SUFFICES ASSUME NEW i \in 1..(n + 1)
               PROVE  /\ delivered'[i].at = answered'[delivered'[i].payload.step][2]
                                              + DelayOf(script', delivered'[i].payload)
                      /\ \A j \in 1..(i - 1) :
                           \/ delivered'[j].at < delivered'[i].at
                           \/ /\ delivered'[j].at = delivered'[i].at
                              /\ delivered'[j].id < delivered'[i].id
    BY <1>6 DEF OnTime
  <2>1. CASE i \in 1..n
    <3>1. \A j \in 1..(i - 1) : j \in 1..n
      BY <1>6, <2>1
    <3>2. /\ delivered[i].at = answered[delivered[i].payload.step][2] + DelayOf(script, delivered[i].payload)
          /\ \A j \in 1..(i - 1) :
               \/ delivered[j].at < delivered[i].at
               \/ delivered[j].at = delivered[i].at /\ delivered[j].id < delivered[i].id
      BY <1>6, <2>1 DEF Parts, OnTime
    <3>3. QED
      BY <1>4, <1>5, <1>6, <2>1, <3>1, <3>2
  <2>2. CASE i = n + 1
    <3>1. \A j \in 1..(i - 1) : j \in 1..n
      BY <1>6, <2>2
    <3>2. e.at = answered[e.payload.step][2] + DelayOf(script, e.payload)
      BY PendingParts
    <3>3. \A j \in 1..n : delivered[j].at < e.at \/ (delivered[j].at = e.at /\ delivered[j].id < e.id)
      BY <1>6 DEF Parts, OneFate
    <3>4. QED
      BY <1>4, <1>5, <1>6, <2>2, <3>1, <3>2, <3>3
  <2>3. QED
    BY <1>6, <2>1, <2>2
<1>13. OneFate'
  <2>1. ASSUME NEW f \in events'
        PROVE  /\ f.at = answered'[f.payload.step][2] + DelayOf(script', f.payload)
               /\ f.payload \notin PlannedOutcomes' \cup EndedOutcomes'
               /\ \A g \in events' : f.payload = g.payload => f = g
    <3>1. f \in events
      BY <1>3
    <3>2. QED
      BY <1>3, <1>4, <1>5, <1>7, <3>1, PendingParts
  <2>2. ASSUME NEW i \in 1..(n + 1)
        PROVE  /\ delivered'[i].at <= now'
               /\ \A id \in next_id' : delivered'[i].id < id
               /\ \A f \in events' :
                    \/ delivered'[i].at < f.at
                    \/ delivered'[i].at = f.at /\ delivered'[i].id < f.id
    <3>1. CASE i \in 1..n
      <4>1. /\ delivered[i].at <= now /\ \A id \in next_id : delivered[i].id < id
            /\ \A f \in events : \/ delivered[i].at < f.at
                                 \/ delivered[i].at = f.at /\ delivered[i].id < f.id
        BY <1>6, <3>1 DEF Parts, OneFate
      <4>2. delivered[i].at <= now'
        <5>1. delivered[i] \in Event
          BY <3>1, PartsFacts, ElementOfSeq DEF n
        <5>2. delivered[i].at \in Nat /\ e.at \in Nat
          BY <1>3, <5>1, TimelineLimits DEF Event
        <5>3. QED
          BY <1>3, <4>1, <5>2, PartsFacts
      <4>3. QED
        BY <1>3, <1>6, <3>1, <4>1, <4>2
    <3>2. CASE i = n + 1
      <4>1. e.at <= e.at
        <5>1. e.at \in Nat
          BY <1>3, TimelineLimits DEF Event
        <5>2. QED
          BY <5>1
      <4>2. \A id \in next_id : e.id < id
        BY <1>1 DEF Parts, TimelineSafe, NothingInThePast
      <4>3. QED
        BY <1>3, <1>6, <3>2, <4>1, <4>2
    <3>3. QED
      BY <1>6, <3>1, <3>2
  <2>3. PlannedOutcomes' \cap EndedOutcomes' = {}
    BY <1>7
  <2>4. QED
    BY <1>6, <1>11, <2>1, <2>2, <2>3 DEF OneFate
<1>14. QED
  BY <1>3, <1>4, <1>7, <1>10, <1>11, <1>12, <1>13 DEF Parts

\* The plan of the k-th answer.
PlanOf(s, k) ==
  [i \in DOMAIN s[k].response |->
     [delay |-> s[k].response[i].delay, size |-> s[k].response[i].size,
      outcome |-> [step |-> k, index |-> i]]]

\* An answer plans the outcomes of the next step, at this moment.
LEMMA AnswerParts ==
  ASSUME Parts, NEW request \in Requests, Ask(request), NEW n, n = Len(answered)
  PROVE  /\ script \in Scripts /\ n \in Nat /\ n + 1 \in 1..Len(script) /\ n \in 0..Len(script)
         /\ script[n + 1] \in ScriptStep /\ request = script[n + 1].expected
         /\ answered' = Append(answered, <<request, now>>)
         /\ steps' = Rest(script, n + 1)
         /\ scriptRetained = Script!MeasureStep(script[n + 1]) + scriptRetained'
         /\ scriptRetained' = Script!RetainedBy(Rest(script, n + 1))
         /\ planned' = PlanOf(script, n + 1)
<1>1. /\ script \in Seq(ScriptStep) /\ n \in Nat /\ n \in 0..Len(script)
      /\ Len(script) \in Nat /\ steps = Rest(script, n)
  BY PartsFacts
<1>2. /\ steps # <<>> /\ ~Script!Mismatch(request)
      /\ steps' = Tail(steps) /\ scriptRetained' = scriptRetained - Head(steps).retained
      /\ answered' = Append(answered, <<request, now>>)
  BY DEF Ask, Script!Exhausted, Script!Advance
<1>3. n # Len(script)
  <2> SUFFICES ASSUME n = Len(script) PROVE FALSE
    OBVIOUS
  <2>1. Rest(script, n) \in Seq(MeasuredStep) /\ Len(Rest(script, n)) = 0
    BY <1>1, RestParts
  <2>2. QED
    BY <1>1, <1>2, <2>1, EmptySeq
<1>4. n + 1 \in 1..Len(script)
  BY <1>1, <1>3
<1>5. script \in Scripts
  <2>1. script # <<>>
    BY <1>4
  <2>2. QED
    BY <2>1 DEF Parts, ScriptSide, StepsLeft
<1>6. script[n + 1] \in ScriptStep
  BY <1>1, <1>4, ElementOfSeq
<1> DEFINE b == Script!MeasureStep(script[n + 1])
<1>7. /\ Head(steps) = [step |-> script[n + 1], retained |-> b]
      /\ Tail(steps) = Rest(script, n + 1)
      /\ Script!RetainedBy(steps) = b + Script!RetainedBy(Rest(script, n + 1)) /\ b \in Nat
  BY <1>1, <1>3, RestAnswered DEF Script!Measured
<1>8. Script!RetainedBy(Rest(script, n + 1)) \in Nat
  <2>1. n + 1 \in 0..Len(script)
    BY <1>4
  <2>2. QED
    BY <1>1, <2>1, RestRetains
<1>9. scriptRetained = Script!RetainedBy(steps)
  BY DEF Parts, ScriptSide, Script!ScriptAccounts
<1> HIDE DEF b
<1>10. Head(steps).step = script[n + 1] /\ Head(steps).retained = b
  BY <1>7
<1>11. request = script[n + 1].expected
  BY <1>2, <1>10 DEF Script!Mismatch
<1>12. /\ scriptRetained = b + scriptRetained'
       /\ scriptRetained' = Script!RetainedBy(Rest(script, n + 1))
  BY <1>2, <1>7, <1>8, <1>9, <1>10
<1>13. planned' = PlanOf(script, n + 1)
  BY <1>10 DEF Ask, PlanOf
<1>14. QED
  BY <1>1, <1>2, <1>4, <1>5, <1>6, <1>7, <1>11, <1>12, <1>13 DEF b

OutcomesIn(p) == {x.outcome : x \in ToSet(p)}

\* The plan it leaves.
LEMMA PlanParts ==
  ASSUME NEW s \in Scripts, NEW k \in 1..Len(s), NEW p, p = PlanOf(s, k)
  PROVE  /\ p \in Seq(Planned1) /\ Len(p) = Len(s[k].response) /\ Len(p) \in Nat
         /\ DOMAIN p = 1..Len(p)
         /\ OutcomesIn(p) = AnswerOf(s, k)
         /\ \A i \in 1..Len(p) :
              p[i] = [delay |-> s[k].response[i].delay, size |-> s[k].response[i].size,
                      outcome |-> [step |-> k, index |-> i]]
<1> DEFINE r == s[k].response
           m == Len(r)
<1>1. s \in Seq(ScriptStep) /\ DOMAIN s = 1..Len(s)
  <2>1. s \in Seq(ScriptStep)
    BY ScriptLimitsNat
  <2>2. QED
    BY <2>1, LenProperties
<1>2. /\ m \in Nat /\ DOMAIN r = 1..m
      /\ \A i \in 1..m : r[i].delay \in Nat /\ r[i].size \in Sizes
  <2>1. s[k] \in ScriptStep
    BY <1>1, ElementOfSeq
  <2>2. QED
    BY <2>1, StepParts
<1>3. \A i \in 1..m : [step |-> k, index |-> i] \in Payloads
  BY <1>1, <1>2, ScriptAssumption
<1>4. p = [i \in 1..m |-> [delay |-> r[i].delay, size |-> r[i].size,
                           outcome |-> [step |-> k, index |-> i]]]
  BY <1>2 DEF PlanOf
<1>5. AnswerOf(s, k) = {[step |-> k, index |-> i] : i \in 1..m}
  BY <1>2 DEF AnswerOf
<1> HIDE DEF r, m
<1>6. \A i \in 1..m : p[i] \in Planned1 /\ p[i].outcome = [step |-> k, index |-> i]
  <2> SUFFICES ASSUME NEW i \in 1..m
               PROVE  p[i] \in Planned1 /\ p[i].outcome = [step |-> k, index |-> i]
    OBVIOUS
  <2> DEFINE d == r[i].delay
             z == r[i].size
             o == [step |-> k, index |-> i]
  <2>1. d \in Nat /\ z \in Sizes /\ o \in Payloads
    BY <1>2, <1>3
  <2>2. p[i] = [delay |-> d, size |-> z, outcome |-> o]
    BY <1>4
  <2> HIDE DEF d, z, o
  <2>3. p[i] \in Planned1 /\ p[i].outcome = o
    BY <2>1, <2>2 DEF Planned1
  <2>4. QED
    BY <2>3 DEF o
<1>7. p \in Seq(Planned1) /\ Len(p) = m /\ DOMAIN p = 1..m
  <2>1. DOMAIN p = 1..m
    BY <1>4
  <2>2. p \in [1..m -> Planned1]
    BY <1>4, <1>6, <2>1
  <2>3. QED
    BY <1>2, <2>1, <2>2
<1>8. {x.outcome : x \in ToSet(p)} = {[step |-> k, index |-> i] : i \in 1..m}
  <2>1. ToSet(p) = {p[i] : i \in 1..m}
    BY <1>7 DEF ToSet
  <2>2. ASSUME NEW i \in 1..m PROVE [step |-> k, index |-> i] \in {x.outcome : x \in ToSet(p)}
    <3>1. p[i] \in ToSet(p)
      BY <2>1
    <3>2. p[i].outcome = [step |-> k, index |-> i]
      BY <1>6
    <3>3. QED
      BY <3>1, <3>2, Zenon
  <2>3. ASSUME NEW x \in ToSet(p) PROVE x.outcome \in {[step |-> k, index |-> i] : i \in 1..m}
    <3>1. PICK i \in 1..m : x = p[i]
      BY <2>1
    <3>2. x.outcome = [step |-> k, index |-> i]
      BY <1>6, <3>1
    <3>3. QED
      BY <3>2, Zenon
  <2>4. QED
    BY <2>2, <2>3, Zenon
<1>9. QED
  BY <1>2, <1>4, <1>5, <1>7, <1>8 DEF r, m, OutcomesIn

\* respond
LEMMA AskKeeps ==
  ASSUME Parts, NEW request \in Requests, Ask(request)
  PROVE  Parts'
<1> DEFINE n == Len(answered)
           k == n + 1
           m == Len(script[k].response)
<1>1. /\ planned = <<>> /\ phase' = phase /\ phase = "built" /\ script' = script
      /\ delivered' = delivered /\ ended' = ended /\ UNCHANGED timelineVars
  BY DEF Ask
<1>2. /\ script \in Scripts /\ n \in Nat /\ k \in 1..Len(script) /\ n \in 0..Len(script)
      /\ script[k] \in ScriptStep /\ request = script[k].expected
      /\ answered' = Append(answered, <<request, now>>)
      /\ steps' = Rest(script, k)
      /\ scriptRetained = Script!MeasureStep(script[k]) + scriptRetained'
      /\ scriptRetained' = Script!RetainedBy(Rest(script, k))
  BY AnswerParts
<1>3. /\ planned' \in Seq(Planned1) /\ Len(planned') = m /\ m \in Nat
      /\ DOMAIN planned' = 1..m /\ PlannedOutcomes' = AnswerOf(script, k)
      /\ \A i \in 1..m :
           planned'[i] = [delay |-> script[k].response[i].delay,
                          size |-> script[k].response[i].size,
                          outcome |-> [step |-> k, index |-> i]]
  <2> DEFINE p == planned'
  <2>1. p = PlanOf(script, k)
    BY AnswerParts
  <2>2. script \in Scripts /\ k \in 1..Len(script)
    BY <1>2
  <2> HIDE DEF p, k
  <2>3. /\ p \in Seq(Planned1) /\ Len(p) = Len(script[k].response) /\ Len(p) \in Nat
        /\ DOMAIN p = 1..Len(p)
        /\ OutcomesIn(p) = AnswerOf(script, k)
        /\ \A i \in 1..Len(p) :
             p[i] = [delay |-> script[k].response[i].delay, size |-> script[k].response[i].size,
                     outcome |-> [step |-> k, index |-> i]]
    BY <2>1, <2>2, PlanParts
  <2>4. QED
    BY <2>3 DEF p, PlannedOutcomes, OutcomesIn
<1>4. /\ script \in Seq(ScriptStep) /\ Len(script) \in Nat
      /\ answered \in Seq(Requests \X Moments) /\ DOMAIN answered = 1..n /\ now \in Moments
      /\ DOMAIN delivered = 1..Len(delivered) /\ Len(delivered) \in Nat
  BY PartsFacts
<1> HIDE DEF n, m
<1>5. /\ answered' \in Seq(Requests \X Moments) /\ Len(answered') = k
      /\ DOMAIN answered' = 1..k
      /\ \A i \in 1..n : answered'[i] = answered[i]
      /\ answered'[k] = <<request, now>>
  <2>1. <<request, now>> \in Requests \X Moments
    BY <1>4
  <2>2. /\ answered' \in Seq(Requests \X Moments) /\ Len(answered') = k
        /\ \A i \in 1..n : answered'[i] = answered[i]
        /\ answered'[k] = <<request, now>>
    BY <1>2, <1>4, <2>1, AppendProperties DEF n
  <2>3. QED
    BY <2>2, LenProperties
<1>6. TimelineSafe'
  BY <1>1 DEF Parts, TimelineSafe, TimelineTypeOK, NothingInThePast, TimelineAccounts, timelineVars
<1>7. /\ events' = events /\ now' = now /\ next_id' = next_id
  BY <1>1 DEF timelineVars
<1>8. /\ Outcomes' = Outcomes \cup AnswerOf(script, k)
      /\ Outcomes \cap AnswerOf(script, k) = {}
      /\ \A o \in Outcomes : o.step \in 1..n
  <2>1. Outcomes = OutcomesOf(script, n) /\ Outcomes' = OutcomesOf(script, k)
    BY <1>1, <1>5 DEF Outcomes, n
  <2>2. QED
    BY <1>2, <2>1, OutcomesGrow
<1>9. ScriptSide'
  <2>1. \A i \in 1..k : answered'[i][1] = script[i].expected
    <3>1. \A i \in 1..n : answered[i][1] = script[i].expected
      BY <1>4 DEF Parts, ScriptSide, StepsLeft
    <3>2. \A i \in 1..k : i \in 1..n \/ i = k
      BY <1>2
    <3>3. <<request, now>>[1] = script[k].expected
      BY <1>2
    <3>4. QED
      BY <1>5, <3>1, <3>2, <3>3
  <2>2. StepsLeft'
    <3>1. /\ Script!CountOutcomes(script) <= ScriptLimits.outcomes /\ k <= Len(script)
      BY <1>2, <1>4 DEF Parts, ScriptSide, StepsLeft
    <3>2. QED
      BY <1>1, <1>2, <1>5, <2>1, <3>1 DEF StepsLeft, Rest
  <2>3. Script!ScriptAccounts'
    <3>1. k \in 0..Len(script)
      BY <1>2
    <3>2. Len(steps) = Len(script) - n /\ Len(steps') = Len(script) - k
      BY <1>2, <1>4, <3>1, RestParts, PartsFacts DEF n
    <3>3. scriptRetained' \in Nat /\ Script!MeasureStep(script[k]) \in Nat
      BY <1>2, <1>4, <3>1, RestRetains, MeasureStepNat
    <3>4. scriptRetained <= ScriptLimits.retained_bytes /\ Len(steps) <= ScriptLimits.steps
      BY DEF Parts, ScriptSide, Script!ScriptAccounts
    <3>5. scriptRetained' <= ScriptLimits.retained_bytes
      BY <1>2, <3>3, <3>4, ScriptLimitsNat
    <3>6. Len(steps') <= ScriptLimits.steps
      BY <1>2, <1>4, <3>2, <3>4, ScriptLimitsNat
    <3>7. QED
      BY <1>2, <3>5, <3>6 DEF Script!ScriptAccounts
  <2>4. AnsweredInOrder'
    <3> DEFINE a == answered'
    <3>1. a \in Seq(Requests \X Moments) /\ Len(a) = k
      BY <1>5
    <3>2. Len(a) \in 0..Len(script) /\ \A i \in 1..Len(a) : a[i][1] = script[i].expected
      BY <1>2, <2>1, <3>1
    <3>3. steps' = Rest(script, Len(a))
      BY <1>2, <3>1
    <3> HIDE DEF a
    <3>4. [i \in DOMAIN a |-> a[i][1]]
            \o [i \in DOMAIN Rest(script, Len(a)) |-> Rest(script, Len(a))[i].step.expected]
            = [i \in DOMAIN script |-> script[i].expected]
      BY <1>4, <3>1, <3>2, InOrder
    <3>5. QED
      BY <1>1, <3>3, <3>4 DEF AnsweredInOrder, a
  <2>5. QED
    BY <1>1, <2>2, <2>3, <2>4 DEF ScriptSide
<1>10. PlannedLast'
  <2>1. planned' \in Seq([delay : Nat, size : Sizes, outcome : Payloads])
    BY <1>3 DEF Planned1
  <2>2. k >= 1 /\ m - m = 0 /\ \A i \in 1..m : 0 + i = i
    BY <1>2, <1>3
  <2>3. answered'[k][2] = now'
    <3>1. <<request, now>>[2] = now
      OBVIOUS
    <3>2. QED
      BY <1>5, <1>7, <3>1
  <2>4. Len(script'[k].response) - Len(planned') = 0
    BY <1>1, <1>3, <2>2 DEF m
  <2>5. QED
    BY <1>1, <1>3, <1>5, <2>1, <2>2, <2>3, <2>4 DEF PlannedLast
<1>11. PlannedOutcomes = {}
  <2>1. DOMAIN planned = {}
    BY <1>1
  <2>2. QED
    BY <2>1 DEF PlannedOutcomes, ToSet
<1>12. /\ PendingOutcomes' = PendingOutcomes /\ DeliveredOutcomes' = DeliveredOutcomes
       /\ EndedOutcomes' = EndedOutcomes
  BY <1>1, <1>7 DEF PendingOutcomes, DeliveredOutcomes, EndedOutcomes
<1>13. AllPlaced'
  BY <1>3, <1>8, <1>11, <1>12 DEF Parts, AllPlaced
<1>14. Counted'
  <2>1. /\ IsFiniteSet(Outcomes) /\ IsFiniteSet(AnswerOf(script, k))
        /\ Cardinality(AnswerOf(script, k)) = m
    <3>1. IsFiniteSet(Outcomes)
      BY <1>2, <1>4, OutcomesCount DEF Outcomes, n
    <3>2. IsFiniteSet(AnswerOf(script, k)) /\ Cardinality(AnswerOf(script, k)) = m
      BY <1>2, <1>4, AnswerCount DEF m
    <3>3. QED
      BY <3>1, <3>2
  <2>2. /\ Cardinality(Outcomes \cup AnswerOf(script, k))
             = Cardinality(Outcomes) + Cardinality(AnswerOf(script, k))
        /\ Cardinality(Outcomes) \in Nat
    BY <1>8, <2>1, DisjointCount
  <2>3. Cardinality(Outcomes') = Cardinality(Outcomes \cup AnswerOf(script, k))
    BY <1>8
  <2>4. Cardinality(Outcomes') = Cardinality(Outcomes) + m
    BY <2>1, <2>2, <2>3
  <2>5. Cardinality(Outcomes) = 0 + Cardinality(events) + Len(delivered) + Cardinality(ended)
    <3>1. Len(planned) = 0
      BY <1>1
    <3>2. QED
      BY <3>1 DEF Parts, Counted
  <2>6. Cardinality(Outcomes') = m + Cardinality(events) + Len(delivered) + Cardinality(ended)
    BY <1>3, <2>4, <2>5, PartsFacts
  <2>7. QED
    BY <1>1, <1>3, <1>7, <2>6 DEF Counted
<1>15. ASSUME NEW o \in Outcomes
       PROVE  /\ o.step \in 1..n /\ o \notin AnswerOf(script, k)
              /\ answered'[o.step][2] + DelayOf(script', o)
                   = answered[o.step][2] + DelayOf(script, o)
  <2>1. o.step \in 1..n /\ o \notin AnswerOf(script, k)
    BY <1>8
  <2>2. answered'[o.step] = answered[o.step]
    BY <1>5, <2>1
  <2>3. QED
    BY <1>1, <2>1, <2>2
<1>16. OnTime'
  <2>1. ASSUME NEW i \in DOMAIN delivered PROVE delivered[i].payload \in Outcomes
    <3>1. delivered[i].payload \in DeliveredOutcomes
      BY DEF DeliveredOutcomes, ToSet
    <3>2. QED
      BY <3>1 DEF Parts, AllPlaced
  <2>2. \A i \in DOMAIN delivered :
          answered'[delivered[i].payload.step][2] + DelayOf(script', delivered[i].payload)
            = answered[delivered[i].payload.step][2] + DelayOf(script, delivered[i].payload)
    BY <1>15, <2>1
  <2>3. QED
    BY <1>1, <2>2 DEF Parts, OnTime
<1>17. OneFate'
  <2>1. PlannedOutcomes' \cap EndedOutcomes' = {}
    BY <1>3, <1>8, <1>12 DEF Parts, AllPlaced
  <2>2. ASSUME NEW e \in events
        PROVE  /\ e.at = answered'[e.payload.step][2] + DelayOf(script', e.payload)
               /\ e.payload \notin PlannedOutcomes' \cup EndedOutcomes'
               /\ \A f \in events : e.payload = f.payload => e = f
    <3>1. /\ e.payload \in Outcomes /\ e.payload \notin EndedOutcomes
          /\ e.at = answered[e.payload.step][2] + DelayOf(script, e.payload)
          /\ \A f \in events : e.payload = f.payload => e = f
      BY PendingParts
    <3>2. e.at = answered'[e.payload.step][2] + DelayOf(script', e.payload)
      BY <1>15, <3>1
    <3>3. e.payload \notin PlannedOutcomes'
      BY <1>3, <1>15, <3>1
    <3>4. QED
      BY <1>12, <3>1, <3>2, <3>3
  <2>3. QED
    BY <1>1, <1>7, <2>1, <2>2 DEF Parts, OneFate
<1>18. QED
  BY <1>6, <1>9, <1>10, <1>13, <1>14, <1>16, <1>17 DEF Parts
\* The next outcome leaves the plan, and is due its delay from now.
LEMMA PlanTaken ==
  ASSUME Parts, planned # <<>>, planned' = Tail(planned),
         answered' = answered, script' = script, now' = now,
         NEW p, p = Head(planned)
  PROVE  /\ p.delay \in Nat /\ p.size \in Sizes /\ p.outcome \in Payloads
         /\ PlannedLast' /\ Len(planned') + 1 = Len(planned) /\ Len(planned') \in Nat
         /\ PlannedOutcomes = PlannedOutcomes' \cup {p.outcome}
         /\ p.outcome \notin PlannedOutcomes'
         /\ p.outcome \notin EndedOutcomes /\ p.outcome \notin PendingOutcomes
         /\ now + p.delay = answered[p.outcome.step][2] + DelayOf(script, p.outcome)
<1> DEFINE n == Len(planned)
           q == planned'
           k == Len(answered)
           r == script[k].response
           rest == Len(r) - n
<1>1. /\ planned \in Seq(Planned1) /\ n \in Nat /\ n >= 1 /\ DOMAIN planned = 1..n
      /\ k \in 1..Len(script) /\ k >= 1 /\ answered[k][2] = now
  <2>1. planned \in Seq(Planned1) /\ n \in Nat /\ DOMAIN planned = 1..n /\ Len(script) \in Nat
        /\ k \in 0..Len(script)
    BY PartsFacts
  <2>2. n # 0
    BY <2>1, EmptySeq
  <2>3. k >= 1 /\ answered[k][2] = now
    BY DEF Parts, PlannedLast
  <2>4. QED
    BY <2>1, <2>2, <2>3
<1>2. /\ Len(r) \in Nat /\ \A i \in 1..Len(r) : r[i].delay \in Nat
  <2>1. script[k] \in ScriptStep
    BY <1>1, PartsFacts, ElementOfSeq
  <2>2. QED
    BY <2>1, StepParts
<1>3. /\ rest >= 0 /\ rest \in Nat
      /\ \A i \in 1..n : /\ planned[i] = [delay |-> r[rest + i].delay, size |-> r[rest + i].size,
                                          outcome |-> [step |-> k, index |-> rest + i]]
                         /\ rest + i \in 1..Len(r)
  <2>1. /\ rest >= 0
        /\ \A i \in 1..n : planned[i] = [delay |-> r[rest + i].delay, size |-> r[rest + i].size,
                                         outcome |-> [step |-> k, index |-> rest + i]]
    BY <1>1, Zenon DEF Parts, PlannedLast
  <2>2. \A i \in 1..n : rest + i \in 1..Len(r)
    BY <1>1, <1>2, <2>1
  <2>3. rest \in Nat
    BY <1>1, <1>2, <2>1
  <2>4. QED
    BY <2>1, <2>2, <2>3
<1>4. /\ q \in Seq(Planned1) /\ Len(q) = n - 1 /\ DOMAIN q = 1..(n - 1)
      /\ \A i \in 1..(n - 1) : q[i] = planned[i + 1]
      /\ p = planned[1] /\ p \in Planned1
  <2>1. /\ Tail(planned) \in Seq(Planned1) /\ Len(Tail(planned)) = n - 1
        /\ \A i \in 1..(n - 1) : Tail(planned)[i] = planned[i + 1]
        /\ Head(planned) \in Planned1
    BY <1>1, HeadTailProperties
  <2>2. DOMAIN Tail(planned) = 1..(n - 1)
    BY <2>1, LenProperties
  <2>3. Head(planned) = planned[1]
    BY <1>1
  <2>4. QED
    BY <2>1, <2>2, <2>3
<1> HIDE DEF n, k, r, rest, q
<1>5. \A i \in 1..n : planned[i].outcome = [step |-> k, index |-> rest + i]
  <2> SUFFICES ASSUME NEW i \in 1..n
               PROVE  planned[i].outcome = [step |-> k, index |-> rest + i]
    OBVIOUS
  <2> DEFINE o == [step |-> k, index |-> rest + i]
             d == r[rest + i].delay
             z == r[rest + i].size
  <2>1. planned[i] = [delay |-> d, size |-> z, outcome |-> o]
    BY <1>3
  <2> HIDE DEF o, d, z
  <2>2. planned[i].outcome = o
    BY <2>1
  <2>3. QED
    BY <2>2 DEF o
<1>6. p.outcome = [step |-> k, index |-> rest + 1] /\ p.delay = r[rest + 1].delay
  <2>1. 1 \in 1..n
    BY <1>1
  <2>2. p.outcome = [step |-> k, index |-> rest + 1]
    BY <1>4, <1>5, <2>1
  <2> DEFINE o == [step |-> k, index |-> rest + 1]
             d == r[rest + 1].delay
             z == r[rest + 1].size
  <2>3. p = [delay |-> d, size |-> z, outcome |-> o]
    BY <1>3, <1>4, <2>1
  <2> HIDE DEF o, d, z
  <2>4. p.delay = d
    BY <2>3
  <2>5. QED
    BY <2>2, <2>4 DEF d
<1>7. p.delay \in Nat /\ p.size \in Sizes /\ p.outcome \in Payloads
  BY <1>4 DEF Planned1
<1>8. Len(q) + 1 = n /\ Len(q) \in Nat
  BY <1>1, <1>4
<1>9. /\ PlannedOutcomes = {planned[i].outcome : i \in 1..n}
      /\ PlannedOutcomes' = {q[i].outcome : i \in 1..(n - 1)}
  <2>1. ToSet(planned) = {planned[i] : i \in 1..n} /\ ToSet(q) = {q[i] : i \in 1..(n - 1)}
    BY <1>1, <1>4 DEF ToSet
  <2>2. {x.outcome : x \in ToSet(planned)} = {planned[i].outcome : i \in 1..n}
    BY <2>1
  <2>3. {x.outcome : x \in ToSet(q)} = {q[i].outcome : i \in 1..(n - 1)}
    BY <2>1
  <2>4. QED
    BY <2>2, <2>3 DEF PlannedOutcomes, q
<1>10. PlannedOutcomes = PlannedOutcomes' \cup {p.outcome}
  <2>1. \A i \in 1..n : i = 1 \/ (i - 1 \in 1..(n - 1) /\ (i - 1) + 1 = i)
    BY <1>1
  <2>2. 1 \in 1..n /\ \A i \in 1..(n - 1) : i + 1 \in 1..n
    BY <1>1
  <2>3. ASSUME NEW i \in 1..n PROVE planned[i].outcome \in PlannedOutcomes' \cup {p.outcome}
    <3>1. CASE i = 1
      BY <1>4, <3>1
    <3>2. CASE i # 1
      <4>1. q[i - 1] = planned[i]
        BY <1>4, <2>1, <3>2
      <4>2. QED
        BY <1>9, <2>1, <3>2, <4>1
    <3>3. QED
      BY <3>1, <3>2
  <2>4. ASSUME NEW i \in 1..(n - 1) PROVE q[i].outcome \in PlannedOutcomes
    BY <1>4, <1>9, <2>2
  <2>5. p.outcome \in PlannedOutcomes
    BY <1>4, <1>9, <2>2
  <2>6. QED
    BY <1>9, <2>3, <2>4, <2>5
<1>11. p.outcome \notin PlannedOutcomes'
  <2> SUFFICES ASSUME NEW i \in 1..(n - 1) PROVE q[i].outcome # p.outcome
    BY <1>9
  <2>1. i + 1 \in 1..n /\ rest + (i + 1) # rest + 1
    BY <1>1, <1>3
  <2>2. q[i].outcome = [step |-> k, index |-> rest + (i + 1)]
    BY <1>4, <1>5, <2>1
  <2>3. q[i].outcome.index = rest + (i + 1) /\ p.outcome.index = rest + 1
    BY <1>6, <2>2
  <2>4. QED
    BY <2>1, <2>3
<1>12. p.outcome \notin EndedOutcomes /\ p.outcome \notin PendingOutcomes
  <2>1. p.outcome \in PlannedOutcomes
    BY <1>10
  <2>2. QED
    BY <2>1 DEF Parts, OneFate, PendingOutcomes
<1>13. now + p.delay = answered[p.outcome.step][2] + DelayOf(script, p.outcome)
  <2>1. p.outcome.step = k /\ p.outcome.index = rest + 1
    BY <1>6
  <2>2. QED
    BY <1>1, <1>6, <2>1 DEF DelayOf, r
<1>14. PlannedLast'
  <2>1. q \in Seq([delay : Nat, size : Sizes, outcome : Payloads])
    BY <1>4 DEF Planned1
  <2>2. Len(r) - Len(q) = rest + 1 /\ rest + 1 >= 0
    BY <1>1, <1>2, <1>3, <1>4 DEF rest
  <2>3. ASSUME NEW i \in 1..(n - 1)
        PROVE  q[i] = [delay |-> r[(rest + 1) + i].delay, size |-> r[(rest + 1) + i].size,
                       outcome |-> [step |-> k, index |-> (rest + 1) + i]]
    <3>1. i + 1 \in 1..n /\ rest + (i + 1) = (rest + 1) + i
      BY <1>1, <1>3
    <3>2. q[i] = [delay |-> r[rest + (i + 1)].delay, size |-> r[rest + (i + 1)].size,
                  outcome |-> [step |-> k, index |-> rest + (i + 1)]]
      BY <1>3, <1>4, <3>1
    <3>3. QED
      BY <3>1, <3>2
  <2>4. QED
    BY <1>1, <1>4, <2>1, <2>2, <2>3 DEF PlannedLast, q, k, r
<1>15. QED
  BY <1>7, <1>8, <1>10, <1>11, <1>12, <1>13, <1>14 DEF n, q
\* Everything delivered came before what is scheduled now.
LEMMA ScheduleKeeps ==
  ASSUME Parts, SchedulePlanned, NEW p, p = Head(planned), ~TimeOverflows(p.delay),
         ScheduleAt(now + p.delay, p.size, p.outcome), ended' = ended
  PROVE  Parts'
<1>1. /\ planned # <<>> /\ planned' = Tail(planned)
      /\ UNCHANGED <<steps, scriptRetained, phase, script, answered, delivered>>
  BY DEF SchedulePlanned
<1>2. now + p.delay \in Moments
  BY DEF TimeOverflows
<1>3. now' = now
  BY DEF ScheduleAt
<1>4. /\ p.delay \in Nat /\ p.size \in Sizes /\ p.outcome \in Payloads
      /\ PlannedLast' /\ Len(planned') + 1 = Len(planned) /\ Len(planned') \in Nat
      /\ PlannedOutcomes = PlannedOutcomes' \cup {p.outcome}
      /\ p.outcome \notin PlannedOutcomes'
      /\ p.outcome \notin EndedOutcomes /\ p.outcome \notin PendingOutcomes
      /\ now + p.delay = answered[p.outcome.step][2] + DelayOf(script, p.outcome)
  BY <1>1, <1>3, PlanTaken
<1> DEFINE at == now + p.delay
<1>5. /\ TimelineSafe'
      /\ \E e \in Event :
           /\ e.id \in next_id /\ e.at = at /\ e.payload = p.outcome
           /\ \A id \in next_id' : id = e.id + 1
           /\ e \notin events /\ events' = events \cup {e}
  <2>1. TimelineSafe /\ at \in Moments
    BY <1>2 DEF Parts
  <2> HIDE DEF at
  <2>2. ScheduleAt(at, p.size, p.outcome)
    BY DEF at
  <2>3. QED
    BY <1>4, <2>1, <2>2, Scheduled
<1>6. PICK e \in Event :
        /\ e.id \in next_id /\ e.at = at /\ e.payload = p.outcome
        /\ \A id \in next_id' : id = e.id + 1
        /\ e \notin events /\ events' = events \cup {e}
  BY <1>5
<1>7. ScriptSide' /\ Outcomes' = Outcomes
  BY <1>1, ScriptStays
<1>8. answered' = answered /\ script' = script /\ delivered' = delivered
  BY <1>1
<1>9. /\ EndedOutcomes' = EndedOutcomes /\ DeliveredOutcomes' = DeliveredOutcomes
      /\ PendingOutcomes' = PendingOutcomes \cup {p.outcome}
  <2>1. EndedOutcomes' = EndedOutcomes /\ DeliveredOutcomes' = DeliveredOutcomes
    BY <1>8 DEF EndedOutcomes, DeliveredOutcomes
  <2>2. PendingOutcomes' = PendingOutcomes \cup {e.payload}
    BY <1>6 DEF PendingOutcomes
  <2>3. QED
    BY <1>6, <2>1, <2>2
<1>10. AllPlaced'
  BY <1>4, <1>7, <1>9 DEF Parts, AllPlaced
<1>11. Counted' /\ IsFiniteSet(events') /\ IsFiniteSet(ended')
  <2>1. IsFiniteSet(events') /\ Cardinality(events') = Cardinality(events) + 1
    BY <1>6, PartsFacts, FS_AddElement
  <2>2. Len(planned) + Cardinality(events) + Len(delivered) + Cardinality(ended)
          = Len(planned') + Cardinality(events') + Len(delivered) + Cardinality(ended)
    <3>1. /\ Len(planned') \in Nat /\ Cardinality(events) \in Nat /\ Len(delivered) \in Nat
          /\ Cardinality(ended) \in Nat
      BY <1>4, PartsFacts
    <3>2. ASSUME NEW a \in Nat, NEW b \in Nat, NEW c \in Nat, NEW d \in Nat
          PROVE  (a + 1) + b + c + d = a + (b + 1) + c + d
      OBVIOUS
    <3>3. (Len(planned') + 1) + Cardinality(events) + Len(delivered) + Cardinality(ended)
            = Len(planned') + (Cardinality(events) + 1) + Len(delivered) + Cardinality(ended)
      BY <3>1, <3>2
    <3>4. Len(planned) = Len(planned') + 1 /\ Cardinality(events') = Cardinality(events) + 1
      BY <1>4, <2>1
    <3>5. QED
      BY <3>3, <3>4, Zenon
  <2>3. QED
    BY <1>7, <1>8, <2>1, <2>2, PartsFacts DEF Parts, Counted
<1>12. OnTime'
  BY <1>8 DEF Parts, OnTime
<1>13. OneFate'
  <2>1. PlannedOutcomes' \cap EndedOutcomes' = {}
    BY <1>4, <1>9 DEF Parts, OneFate
  <2>2. ASSUME NEW f \in events'
        PROVE  /\ f.at = answered[f.payload.step][2] + DelayOf(script, f.payload)
               /\ f.payload \notin PlannedOutcomes' \cup EndedOutcomes'
               /\ \A g \in events' : f.payload = g.payload => f = g
    <3>1. \A g \in events : g.payload # p.outcome
      BY <1>4 DEF PendingOutcomes
    <3>2. CASE f = e
      <4>1. f.at = answered[f.payload.step][2] + DelayOf(script, f.payload)
        BY <1>4, <1>6, <3>2
      <4>2. f.payload \notin PlannedOutcomes' \cup EndedOutcomes'
        BY <1>4, <1>6, <1>9, <3>2
      <4>3. \A g \in events' : f.payload = g.payload => f = g
        BY <1>6, <3>1, <3>2
      <4>4. QED
        BY <4>1, <4>2, <4>3
    <3>3. CASE f \in events
      <4>1. /\ f.at = answered[f.payload.step][2] + DelayOf(script, f.payload)
            /\ f.payload \notin PlannedOutcomes /\ f.payload \notin EndedOutcomes
            /\ \A g \in events : f.payload = g.payload => f = g
        BY <3>3, PendingParts
      <4>2. \A g \in events' : f.payload = g.payload => f = g
        BY <1>6, <3>1, <3>3, <4>1
      <4>3. QED
        BY <1>4, <1>9, <4>1, <4>2
    <3>4. QED
      BY <1>6, <3>2, <3>3
  <2>3. ASSUME NEW i \in DOMAIN delivered
        PROVE  /\ delivered[i].at <= now
               /\ \A id \in next_id' : delivered[i].id < id
               /\ \A f \in events' :
                    \/ delivered[i].at < f.at
                    \/ delivered[i].at = f.at /\ delivered[i].id < f.id
    <3>1. /\ delivered[i].at <= now /\ \A id \in next_id : delivered[i].id < id
          /\ \A f \in events : \/ delivered[i].at < f.at
                               \/ delivered[i].at = f.at /\ delivered[i].id < f.id
      BY DEF Parts, OneFate
    <3>2. delivered[i] \in Event
      BY PartsFacts, ElementOfSeq
    <3>3. delivered[i].at \in Nat /\ delivered[i].id \in Nat /\ e.id \in Nat /\ now \in Nat
      <4>1. \A x \in Event : x.at \in Moments /\ x.id \in 0..U64
        BY DEF Event
      <4>2. \A x \in 0..U64 : x \in Nat
        BY TimelineLimits
      <4>3. \A x \in Moments : x \in Nat
        BY TimelineLimits
      <4>4. now \in Nat
        BY PartsFacts
      <4>5. QED
        BY <3>2, <4>1, <4>2, <4>3, <4>4
    <3>4. delivered[i].id < e.id
      BY <1>6, <3>1
    <3>5. delivered[i].at <= at
      BY <1>4, <3>1, <3>3
    <3>6. \A id \in next_id' : delivered[i].id < id
      BY <1>6, <3>3, <3>4
    <3>7. at \in Nat /\ e.at = at
      BY <1>4, <1>6, <3>3
    <3> HIDE DEF at
    <3>8. delivered[i].at < e.at \/ (delivered[i].at = e.at /\ delivered[i].id < e.id)
      BY <3>3, <3>4, <3>5, <3>7
    <3>9. QED
      BY <1>6, <3>1, <3>6, <3>8
  <2>4. QED
    BY <1>3, <1>8, <1>11, <2>1, <2>2, <2>3 DEF Parts, OneFate
<1>14. QED
  BY <1>4, <1>5, <1>7, <1>10, <1>11, <1>12, <1>13 DEF Parts

LEMMA RefuseKeeps ==
  ASSUME Parts, SchedulePlanned, NEW p, p = Head(planned),
         ended' = ended \cup {<<p.outcome, "refused">>}, UNCHANGED timelineVars
  PROVE  Parts'
<1>1. /\ planned # <<>> /\ planned' = Tail(planned)
      /\ UNCHANGED <<steps, scriptRetained, phase, script, answered, delivered>>
  BY DEF SchedulePlanned
<1>2. events' = events /\ now' = now /\ next_id' = next_id
  BY DEF timelineVars
<1>3. /\ PlannedLast' /\ Len(planned') + 1 = Len(planned) /\ Len(planned') \in Nat
      /\ PlannedOutcomes = PlannedOutcomes' \cup {p.outcome}
      /\ p.outcome \notin PlannedOutcomes'
      /\ p.outcome \notin EndedOutcomes /\ p.outcome \notin PendingOutcomes
  BY <1>1, <1>2, PlanTaken
<1>4. TimelineSafe'
  BY DEF Parts, TimelineSafe, TimelineTypeOK, NothingInThePast, TimelineAccounts, timelineVars
<1>5. ScriptSide' /\ Outcomes' = Outcomes
  BY <1>1, ScriptStays
<1>6. answered' = answered /\ script' = script /\ delivered' = delivered
  BY <1>1
<1>7. /\ PendingOutcomes' = PendingOutcomes /\ DeliveredOutcomes' = DeliveredOutcomes
      /\ EndedOutcomes' = EndedOutcomes \cup {p.outcome}
  <2>1. PendingOutcomes' = PendingOutcomes /\ DeliveredOutcomes' = DeliveredOutcomes
    BY <1>2, <1>6 DEF PendingOutcomes, DeliveredOutcomes
  <2>2. <<p.outcome, "refused">>[1] = p.outcome
    OBVIOUS
  <2>3. EndedOutcomes' = EndedOutcomes \cup {<<p.outcome, "refused">>[1]}
    BY Zenon DEF EndedOutcomes
  <2>4. QED
    BY <2>1, <2>2, <2>3
<1>8. AllPlaced'
  BY <1>3, <1>5, <1>7 DEF Parts, AllPlaced
<1>9. Counted' /\ IsFiniteSet(ended')
  <2>1. <<p.outcome, "refused">> \notin ended
    BY <1>3 DEF EndedOutcomes
  <2>2. IsFiniteSet(ended') /\ Cardinality(ended') = Cardinality(ended) + 1
    BY <2>1, PartsFacts, FS_AddElement
  <2>3. Len(planned) + Cardinality(events) + Len(delivered) + Cardinality(ended)
          = Len(planned') + Cardinality(events) + Len(delivered) + Cardinality(ended')
    <3>1. /\ Len(planned') \in Nat /\ Cardinality(events) \in Nat /\ Len(delivered) \in Nat
          /\ Cardinality(ended) \in Nat
      BY <1>3, PartsFacts
    <3>2. ASSUME NEW a \in Nat, NEW b \in Nat, NEW c \in Nat, NEW d \in Nat
          PROVE  (a + 1) + b + c + d = a + b + c + (d + 1)
      OBVIOUS
    <3>3. (Len(planned') + 1) + Cardinality(events) + Len(delivered) + Cardinality(ended)
            = Len(planned') + Cardinality(events) + Len(delivered) + (Cardinality(ended) + 1)
      BY <3>1, <3>2
    <3>4. Len(planned) = Len(planned') + 1 /\ Cardinality(ended') = Cardinality(ended) + 1
      BY <1>3, <2>2
    <3>5. QED
      BY <3>3, <3>4, Zenon
  <2>4. QED
    BY <1>2, <1>5, <1>6, <2>2, <2>3 DEF Parts, Counted
<1>10. OnTime'
  BY <1>6 DEF Parts, OnTime
<1>11. OneFate'
  <2>1. PlannedOutcomes' \cap EndedOutcomes' = {}
    BY <1>3, <1>7 DEF Parts, OneFate
  <2>2. ASSUME NEW f \in events
        PROVE  /\ f.at = answered[f.payload.step][2] + DelayOf(script, f.payload)
               /\ f.payload \notin PlannedOutcomes' \cup EndedOutcomes'
               /\ \A g \in events : f.payload = g.payload => f = g
    <3>1. f.payload # p.outcome
      BY <1>3 DEF PendingOutcomes
    <3>2. QED
      BY <1>3, <1>7, <3>1, PendingParts
  <2>3. QED
    BY <1>2, <1>6, <1>9, <2>1, <2>2 DEF Parts, OneFate
<1>12. QED
  BY <1>3, <1>4, <1>5, <1>8, <1>9, <1>10, <1>11 DEF Parts

\* schedule_planned
LEMMA SchedulePlannedKeeps ==
  ASSUME Parts, SchedulePlanned
  PROVE  Parts'
<1>1. PICK p : p = Head(planned)
  OBVIOUS
<1>2. \/ /\ ~TimeOverflows(p.delay)
         /\ ScheduleAt(now + p.delay, p.size, p.outcome)
         /\ ended' = ended
      \/ /\ ended' = ended \cup {<<p.outcome, "refused">>}
         /\ UNCHANGED timelineVars
  BY <1>1 DEF SchedulePlanned
<1>3. QED
  BY <1>1, <1>2, ScheduleKeeps, RefuseKeeps

LEMMA StutterKeeps ==
  ASSUME Parts, UNCHANGED vars
  PROVE  Parts'
<1>1. /\ UNCHANGED <<steps, scriptRetained, phase, script, answered>>
      /\ planned' = planned /\ delivered' = delivered /\ ended' = ended
      /\ UNCHANGED timelineVars
  BY DEF vars
<1>2. ScriptSide' /\ Outcomes' = Outcomes
  BY <1>1, ScriptStays
<1>3. events' = events /\ now' = now /\ next_id' = next_id /\ answered' = answered
      /\ script' = script
  BY <1>1 DEF timelineVars
<1>4. TimelineSafe'
  BY <1>1 DEF Parts, TimelineSafe, TimelineTypeOK, NothingInThePast, TimelineAccounts, timelineVars
<1>5. /\ PlannedOutcomes' = PlannedOutcomes /\ PendingOutcomes' = PendingOutcomes
      /\ DeliveredOutcomes' = DeliveredOutcomes /\ EndedOutcomes' = EndedOutcomes
  BY <1>1, <1>3 DEF PlannedOutcomes, PendingOutcomes, DeliveredOutcomes, EndedOutcomes
<1>6. AllPlaced' /\ Counted' /\ OnTime'
  BY <1>1, <1>2, <1>3, <1>5 DEF Parts, AllPlaced, Counted, OnTime
<1>7. PlannedLast' /\ OneFate'
  BY <1>1, <1>3, <1>5 DEF Parts, PlannedLast, OneFate
<1>8. QED
  BY <1>2, <1>4, <1>6, <1>7 DEF Parts

LEMMA PartsAlways == ScriptedSpec => []Parts
<1>1. ASSUME Parts, [ScriptedNext]_vars PROVE Parts'
  <2>1. CASE UNCHANGED vars
    BY <1>1, <2>1, StutterKeeps
  <2>2. CASE ScriptedNext
    <3>1. CASE \E s \in Scripts : Build(s)
      BY <1>1, <3>1, BuildKeeps
    <3>2. CASE \E request \in Requests : Ask(request)
      BY <1>1, <3>2, AskKeeps
    <3>3. CASE SchedulePlanned
      BY <1>1, <3>3, SchedulePlannedKeeps
    <3>4. CASE Deliver
      BY <1>1, <3>4, DeliverKeeps
    <3>5. CASE \E e \in events : Cancel(e)
      BY <1>1, <3>5, CancelKeeps
    <3>6. QED
      BY <2>2, <3>1, <3>2, <3>3, <3>4, <3>5 DEF ScriptedNext
  <2>3. QED
    BY <1>1, <2>1, <2>2
<1>2. QED
  BY <1>1, InitParts, PTL DEF ScriptedSpec

\* The scripted service always keeps its script's and its timeline's accounts exact
\* and within their limits, and answers in script order: answered and remaining
\* steps always make up the script (try_new, respond, schedule_planned, pop_next).
THEOREM ScriptSafety == ScriptedSpec => []ScriptSafe
<1>1. Parts => ScriptSafe
  BY PartsSuffice DEF ScriptInv
<1>2. QED
  BY <1>1, PartsAlways, PTL

\* Every outcome of an answered request is in one place and in one only: planned,
\* pending, delivered, cancelled or refused; what is delivered comes exactly its
\* delay after the answer, in the order of (moment, identity).
THEOREM OutcomesDeliveredOnce == ScriptedSpec => []OutcomesDelivered
<1>1. Parts => OutcomesDelivered
  BY PartsSuffice DEF ScriptInv
<1>2. QED
  BY <1>1, PartsAlways, PTL
=============================================================================
