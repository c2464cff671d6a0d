--------------------------- MODULE TimelineProofs ---------------------------
(***************************************************************************)
(* The simulator's timeline, for every width and limit: what its           *)
(* operations keep.  The byte account is a sum over the pending events;    *)
(* what the proofs need of such sums comes first, each fact from a least   *)
(* counterexample, since a recursive function has no equation until one is *)
(* shown to exist.                                                         *)
(***************************************************************************)
EXTENDS Timeline, FiniteSetTheorems, WellFoundedInduction, NaturalsInduction, TLAPS

---------------------------------------------------------------------------
(* Sums over finite sets                                                   *)

\* The element that the sum takes next.
First(s) == CHOOSE x \in s : TRUE

\* f gives the sum of every subset of T.
Sums(w, b, f, T) ==
  f = [s \in SUBSET T |-> IF s = {} THEN b ELSE w[First(s)] + f[s \ {First(s)}]]

Total(w, b, T) == (CHOOSE f : Sums(w, b, f, T))[T]

\* A set of natural numbers has a least one.
LEMMA LeastNatural ==
  ASSUME NEW B \in SUBSET Nat, B # {}
  PROVE  \E n \in B : \A m \in Nat : m < n => m \notin B
<1>1. PICK n \in B : \A m \in B : ~(<<m, n>> \in OpToRel(<, Nat))
  BY NatLessThanWellFounded, WFMin, Zenon
<1>2. \A m \in B : ~(m < n)
  BY <1>1, Zenon DEF OpToRel
<1>3. QED
  BY <1>2

\* A finite set without one of its elements.
LEMMA Without ==
  ASSUME NEW s, IsFiniteSet(s), s # {}
  PROVE  /\ First(s) \in s
         /\ \A x \in s : /\ IsFiniteSet(s \ {x}) /\ Cardinality(s) \in Nat
                         /\ Cardinality(s \ {x}) \in Nat
                         /\ Cardinality(s \ {x}) < Cardinality(s)
<1>1. First(s) \in s
  BY DEF First
<1>2. ASSUME NEW x \in s
      PROVE  /\ IsFiniteSet(s \ {x}) /\ Cardinality(s) \in Nat
             /\ Cardinality(s \ {x}) \in Nat
             /\ Cardinality(s \ {x}) < Cardinality(s)
  <2>1. IsFiniteSet(s \ {x}) /\ Cardinality(s \ {x}) = Cardinality(s) - 1
    BY <1>2, FS_RemoveElement
  <2>2. Cardinality(s) \in Nat /\ Cardinality(s \ {x}) \in Nat
    BY <2>1, FS_CardinalityType
  <2>3. QED
    BY <2>1, <2>2
<1>3. QED
  BY <1>1, <1>2

\* Sums of the same weights agree where both are defined.
LEMMA SumsUnique ==
  ASSUME NEW w, NEW b, NEW v, NEW T, NEW U, NEW f, NEW g, Sums(w, b, f, T), Sums(v, b, g, U),
         IsFiniteSet(T), NEW u \in SUBSET T, u \subseteq U, \A x \in u : w[x] = v[x]
  PROVE  f[u] = g[u]
<1> DEFINE Bad == {n \in Nat : \E s \in SUBSET u : Cardinality(s) = n /\ f[s] # g[s]}
<1>1. \A s \in SUBSET u : f[s] = IF s = {} THEN b ELSE w[First(s)] + f[s \ {First(s)}]
  BY DEF Sums
<1>2. \A s \in SUBSET u : g[s] = IF s = {} THEN b ELSE v[First(s)] + g[s \ {First(s)}]
  BY DEF Sums
<1>3. IsFiniteSet(u) /\ Cardinality(u) \in Nat
  BY FS_Subset, FS_CardinalityType
<1>4. ASSUME Bad # {} PROVE FALSE
  <2>1. PICK n \in Bad : \A m \in Nat : m < n => m \notin Bad
    BY <1>4, LeastNatural
  <2>2. PICK s \in SUBSET u : Cardinality(s) = n /\ f[s] # g[s]
    BY <2>1
  <2>3. s # {} /\ IsFiniteSet(s)
    BY <2>2, <1>1, <1>2, <1>3, FS_Subset
  <2> DEFINE r == s \ {First(s)}
  <2>4. r \in SUBSET u /\ Cardinality(r) \in Nat /\ Cardinality(r) < n /\ First(s) \in u
    BY <2>2, <2>3, Without
  <2>5. Cardinality(r) \notin Bad
    BY <2>1, <2>4
  <2>6. f[r] = g[r]
    BY <2>4, <2>5
  <2>7. QED
    BY <2>2, <2>3, <2>4, <2>6, <1>1, <1>2
<1>5. Cardinality(u) \notin Bad /\ u \in SUBSET u
  BY <1>4
<1>6. QED
  BY <1>3, <1>5

\* Every finite set has one.
LEMMA SumsExist ==
  ASSUME NEW w, NEW b, NEW T, IsFiniteSet(T)
  PROVE  \E f : Sums(w, b, f, T)
<1> DEFINE Bad == {n \in Nat : \E s \in SUBSET T : Cardinality(s) = n /\ ~\E f : Sums(w, b, f, s)}
<1>1. ASSUME Bad # {} PROVE FALSE
  <2>1. PICK n \in Bad : \A m \in Nat : m < n => m \notin Bad
    BY <1>1, LeastNatural
  <2>2. PICK s \in SUBSET T : Cardinality(s) = n /\ ~\E f : Sums(w, b, f, s)
    BY <2>1
  <2>3. IsFiniteSet(s)
    BY FS_Subset
  <2> DEFINE sol(r) == CHOOSE f : Sums(w, b, f, r)
  <2>4. \A r \in SUBSET s : r # s => Sums(w, b, sol(r), r) /\ IsFiniteSet(r)
    <3> SUFFICES ASSUME NEW r \in SUBSET s, r # s PROVE Sums(w, b, sol(r), r) /\ IsFiniteSet(r)
      OBVIOUS
    <3>1. IsFiniteSet(r) /\ Cardinality(r) <= n /\ Cardinality(r) # n
      BY <2>2, <2>3, FS_Subset
    <3>2. Cardinality(r) \in Nat /\ Cardinality(r) < n
      BY <3>1, FS_CardinalityType
    <3>3. \E f : Sums(w, b, f, r)
      BY <2>1, <3>2
    <3>4. QED
      BY <3>1, <3>3
  <2> HIDE DEF sol
  <2> DEFINE total(r) == IF r = {} THEN b
                         ELSE w[First(r)] + sol(r \ {First(r)})[r \ {First(r)}]
             h == [r \in SUBSET s |-> IF r = s THEN total(s) ELSE sol(r)[r]]
  <2>5. \A r \in SUBSET s : r # s => sol(r)[r] = total(r)
    <3> SUFFICES ASSUME NEW r \in SUBSET s, r # s PROVE sol(r)[r] = total(r)
      OBVIOUS
    <3>1. sol(r)[r] = IF r = {} THEN b ELSE w[First(r)] + sol(r)[r \ {First(r)}]
      BY <2>4 DEF Sums
    <3>2. CASE r = {}
      BY <3>1, <3>2
    <3>3. CASE r # {}
      <4> DEFINE q == r \ {First(r)}
      <4>1. q \in SUBSET s /\ q # s /\ q \in SUBSET r
        BY <3>3
      <4>2. Sums(w, b, sol(r), r) /\ Sums(w, b, sol(q), q) /\ IsFiniteSet(r)
        BY <2>4, <4>1
      <4>3. sol(r)[q] = sol(q)[q]
        BY <4>1, <4>2, SumsUnique
      <4>4. QED
        BY <3>1, <3>3, <4>3
    <3>4. QED BY <3>2, <3>3
  <2>6. \A r \in SUBSET s : h[r] = total(r)
    BY <2>5
  <2>7. ASSUME NEW r \in SUBSET s, r # {}
        PROVE  h[r \ {First(r)}] = sol(r \ {First(r)})[r \ {First(r)}]
    <3>1. r \ {First(r)} \in SUBSET s /\ r \ {First(r)} # s
      BY <2>7 DEF First
    <3>2. QED
      BY <3>1
  <2>8. \A r \in SUBSET s :
          h[r] = IF r = {} THEN b ELSE w[First(r)] + h[r \ {First(r)}]
    BY <2>6, <2>7
  <2> HIDE DEF total
  <2>9. h = [r \in SUBSET s |-> h[r]]
    OBVIOUS
  <2> HIDE DEF h
  <2>10. h = [r \in SUBSET s |-> IF r = {} THEN b ELSE w[First(r)] + h[r \ {First(r)}]]
    BY <2>8, <2>9
  <2>11. QED
    BY <2>2, <2>10 DEF Sums
<1>2. Cardinality(T) \in Nat /\ Cardinality(T) \notin Bad /\ T \in SUBSET T
  BY <1>1, FS_CardinalityType
<1>3. QED
  BY <1>2

\* The equation that defines Total().
LEMMA TotalUnfold ==
  ASSUME NEW w, NEW b, NEW T, IsFiniteSet(T)
  PROVE  Total(w, b, T) = IF T = {} THEN b ELSE w[First(T)] + Total(w, b, T \ {First(T)})
<1> DEFINE f == CHOOSE f : Sums(w, b, f, T)
           R == T \ {First(T)}
           g == CHOOSE g : Sums(w, b, g, R)
<1>1. Sums(w, b, f, T)
  BY SumsExist
<1>2. Total(w, b, T) = f[T]
  BY DEF Total
<1>3. f[T] = IF T = {} THEN b ELSE w[First(T)] + f[R]
  BY <1>1 DEF Sums
<1>4. CASE T = {}
  BY <1>2, <1>3, <1>4
<1>5. CASE T # {}
  <2>1. IsFiniteSet(R)
    BY FS_RemoveElement
  <2>2. Sums(w, b, g, R) /\ Total(w, b, R) = g[R]
    BY <2>1, SumsExist DEF Total
  <2>3. f[R] = g[R]
    BY <1>1, <2>2, SumsUnique
  <2>4. QED
    BY <1>2, <1>3, <1>5, <2>2, <2>3
<1>6. QED BY <1>4, <1>5

LEMMA TotalEmpty == ASSUME NEW w, NEW b PROVE Total(w, b, {}) = b
<1>1. IsFiniteSet({})
  BY FS_EmptySet
<1>2. QED
  BY <1>1, TotalUnfold

\* Equal weights give equal totals.
LEMMA TotalEqual ==
  ASSUME NEW w, NEW b, NEW v, NEW T, IsFiniteSet(T), \A x \in T : w[x] = v[x]
  PROVE  Total(w, b, T) = Total(v, b, T)
<1>1. Sums(w, b, CHOOSE f : Sums(w, b, f, T), T) /\ Sums(v, b, CHOOSE f : Sums(v, b, f, T), T)
  BY SumsExist
<1>2. QED
  BY <1>1, SumsUnique DEF Total

\* A sum of sizes is a size.
LEMMA TotalType ==
  ASSUME NEW w, NEW b \in Nat, NEW T, IsFiniteSet(T), \A x \in T : w[x] \in Nat
  PROVE  Total(w, b, T) \in Nat
<1> DEFINE Bad == {n \in Nat : \E s \in SUBSET T : Cardinality(s) = n /\ Total(w, b, s) \notin Nat}
<1>1. ASSUME Bad # {} PROVE FALSE
  <2>1. PICK n \in Bad : \A m \in Nat : m < n => m \notin Bad
    BY <1>1, LeastNatural
  <2>2. PICK s \in SUBSET T : Cardinality(s) = n /\ Total(w, b, s) \notin Nat
    BY <2>1
  <2>3. IsFiniteSet(s)
    BY FS_Subset
  <2>4. s # {}
    BY <2>2, TotalEmpty
  <2> DEFINE r == s \ {First(s)}
  <2>5. r \in SUBSET T /\ Cardinality(r) \in Nat /\ Cardinality(r) < n /\ First(s) \in T
    BY <2>2, <2>3, <2>4, Without
  <2>6. Cardinality(r) \notin Bad
    BY <2>1, <2>5
  <2>7. Total(w, b, r) \in Nat
    BY <2>5, <2>6
  <2>8. QED
    BY <2>2, <2>3, <2>4, <2>5, <2>7, TotalUnfold
<1>2. Cardinality(T) \in Nat /\ Cardinality(T) \notin Bad /\ T \in SUBSET T
  BY <1>1, FS_CardinalityType
<1>3. QED
  BY <1>2

\* Any element may be taken out first.
LEMMA TotalRemove ==
  ASSUME NEW w, NEW b \in Nat, NEW T, IsFiniteSet(T), \A x \in T : w[x] \in Nat, NEW e \in T
  PROVE  Total(w, b, T) = w[e] + Total(w, b, T \ {e})
<1> DEFINE Bad == {n \in Nat : \E s \in SUBSET T, x \in T :
                     /\ x \in s /\ Cardinality(s) = n
                     /\ Total(w, b, s) # w[x] + Total(w, b, s \ {x})}
<1>1. ASSUME Bad # {} PROVE FALSE
  <2>1. PICK n \in Bad : \A m \in Nat : m < n => m \notin Bad
    BY <1>1, LeastNatural
  <2>2. PICK s \in SUBSET T, x \in T : /\ x \in s /\ Cardinality(s) = n
                                       /\ Total(w, b, s) # w[x] + Total(w, b, s \ {x})
    BY <2>1
  <2>3. IsFiniteSet(s) /\ s # {}
    BY <2>2, FS_Subset
  <2> DEFINE c == First(s)
  <2>4. c \in s /\ Total(w, b, s) = w[c] + Total(w, b, s \ {c})
    BY <2>3, Without, TotalUnfold
  <2>5. c # x
    BY <2>2, <2>4
  <2>6. /\ Cardinality(s \ {c}) \in Nat /\ Cardinality(s \ {c}) < n
        /\ Cardinality(s \ {x}) \in Nat /\ Cardinality(s \ {x}) < n
    BY <2>2, <2>3, <2>4, Without
  <2>7. Total(w, b, s \ {c}) = w[x] + Total(w, b, (s \ {c}) \ {x})
    <3>1. s \ {c} \in SUBSET T /\ x \in s \ {c}
      BY <2>2, <2>4, <2>5
    <3>2. Cardinality(s \ {c}) \notin Bad
      BY <2>1, <2>6
    <3>3. QED
      BY <3>1, <3>2, <2>6
  <2>8. Total(w, b, s \ {x}) = w[c] + Total(w, b, (s \ {x}) \ {c})
    <3>1. s \ {x} \in SUBSET T /\ c \in s \ {x} /\ c \in T
      BY <2>2, <2>4, <2>5
    <3>2. Cardinality(s \ {x}) \notin Bad
      BY <2>1, <2>6
    <3>3. QED
      BY <3>1, <3>2, <2>6
  <2>9. (s \ {c}) \ {x} = (s \ {x}) \ {c}
    OBVIOUS
  <2>10. Total(w, b, (s \ {c}) \ {x}) \in Nat
    <3>1. IsFiniteSet((s \ {c}) \ {x})
      BY <2>3, FS_RemoveElement
    <3>2. QED
      BY <3>1, TotalType
  <2>11. w[c] \in Nat /\ w[x] \in Nat
    BY <2>4
  <2>12. ASSUME NEW i \in Nat, NEW j \in Nat, NEW rest \in Nat
         PROVE  i + (j + rest) = j + (i + rest)
    OBVIOUS
  <2>13. w[c] + (w[x] + Total(w, b, (s \ {c}) \ {x})) = w[x] + (w[c] + Total(w, b, (s \ {c}) \ {x}))
    BY <2>10, <2>11, <2>12
  <2>14. Total(w, b, s) = w[c] + (w[x] + Total(w, b, (s \ {c}) \ {x}))
    BY <2>4, <2>7, Zenon
  <2>15. w[x] + Total(w, b, s \ {x}) = w[x] + (w[c] + Total(w, b, (s \ {c}) \ {x}))
    BY <2>8, <2>9, Zenon
  <2>16. QED
    BY <2>2, <2>13, <2>14, <2>15, Zenon
<1>2. Cardinality(T) \in Nat /\ T \in SUBSET T
  BY FS_CardinalityType
<1>3. Cardinality(T) \notin Bad
  BY <1>1
<1>4. QED
  BY <1>2, <1>3

\* The totals of two disjoint sets add up.
LEMMA TotalUnion ==
  ASSUME NEW w, NEW S, NEW T, IsFiniteSet(S), IsFiniteSet(T), S \cap T = {},
         \A x \in S \cup T : w[x] \in Nat
  PROVE  Total(w, 0, S \cup T) = Total(w, 0, S) + Total(w, 0, T)
<1> DEFINE Bad == {n \in Nat : \E t \in SUBSET T :
                     /\ Cardinality(t) = n
                     /\ Total(w, 0, S \cup t) # Total(w, 0, S) + Total(w, 0, t)}
<1>1. ASSUME Bad # {} PROVE FALSE
  <2>1. PICK n \in Bad : \A m \in Nat : m < n => m \notin Bad
    BY <1>1, LeastNatural
  <2>2. PICK t \in SUBSET T : /\ Cardinality(t) = n
                             /\ Total(w, 0, S \cup t) # Total(w, 0, S) + Total(w, 0, t)
    BY <2>1
  <2>3. IsFiniteSet(t) /\ IsFiniteSet(S \cup t)
    BY FS_Subset, FS_Union
  <2>4. Total(w, 0, S) \in Nat /\ \A u \in SUBSET T : Total(w, 0, u) \in Nat
    BY FS_Subset, TotalType
  <2>5. t # {}
    <3>1. S \cup {} = S /\ Total(w, 0, S) = Total(w, 0, S) + 0
      BY <2>4
    <3>2. QED
      BY <3>1, <2>2, TotalEmpty
  <2> DEFINE c == First(t)
             r == t \ {c}
  <2>6. c \in t /\ r \in SUBSET T /\ Cardinality(r) \in Nat /\ Cardinality(r) < n
    BY <2>2, <2>3, <2>5, Without
  <2>7. Total(w, 0, S \cup r) = Total(w, 0, S) + Total(w, 0, r)
    <3>1. Cardinality(r) \notin Bad
      BY <2>1, <2>6
    <3>2. QED
      BY <3>1, <2>6
  <2>8. (S \cup t) \ {c} = S \cup r /\ c \in S \cup t
    BY <2>6
  <2>9. Total(w, 0, S \cup t) = w[c] + Total(w, 0, S \cup r)
    BY <2>3, <2>8, TotalRemove
  <2>10. Total(w, 0, t) = w[c] + Total(w, 0, r)
    BY <2>3, <2>6, TotalRemove
  <2>11. w[c] \in Nat /\ Total(w, 0, r) \in Nat
    BY <2>4, <2>6
  <2>12. QED
    BY <2>2, <2>4, <2>7, <2>9, <2>10, <2>11
<1>2. Cardinality(T) \in Nat /\ T \in SUBSET T
  BY FS_CardinalityType
<1>3. Cardinality(T) \notin Bad
  BY <1>1
<1>4. QED
  BY <1>2, <1>3

---------------------------------------------------------------------------
(* The byte account as such a sum                                          *)

Weights(T) == [e \in T |-> e.retained]

BytesSums(f, T) ==
  f = [s \in SUBSET T |-> IF s = {} THEN 0 ELSE First(s).retained + f[s \ {First(s)}]]

LEMMA BytesTotal ==
  ASSUME NEW T, IsFiniteSet(T), NEW U \in SUBSET T
  PROVE  BytesOf(U) = Total(Weights(T), 0, U)
<1> DEFINE f == CHOOSE f : BytesSums(f, U)
           g == CHOOSE g : Sums(Weights(U), 0, g, U)
<1>1. BytesOf(U) = f[U] /\ IsFiniteSet(U)
  BY FS_Subset DEF BytesOf, MapThenSumSet, MapThenFoldSet, BytesSums, First
<1>2. ASSUME NEW h PROVE BytesSums(h, U) <=> Sums(Weights(U), 0, h, U)
  <2>1. ASSUME NEW s \in SUBSET U, s # {} PROVE Weights(U)[First(s)] = First(s).retained
    <3>1. First(s) \in U
      BY <2>1 DEF First
    <3>2. QED
      BY <3>1 DEF Weights
  <2>2. [s \in SUBSET U |-> IF s = {} THEN 0 ELSE First(s).retained + h[s \ {First(s)}]]
          = [s \in SUBSET U |-> IF s = {} THEN 0 ELSE Weights(U)[First(s)] + h[s \ {First(s)}]]
    BY <2>1
  <2>3. QED
    BY <2>2 DEF BytesSums, Sums
<1>3. Sums(Weights(U), 0, g, U)
  BY <1>1, SumsExist
<1>4. Sums(Weights(U), 0, f, U)
  BY <1>2, <1>3
<1>5. f[U] = g[U]
  BY <1>1, <1>3, <1>4, SumsUnique
<1>6. BytesOf(U) = Total(Weights(U), 0, U)
  BY <1>1, <1>5 DEF Total
<1>7. Total(Weights(U), 0, U) = Total(Weights(T), 0, U)
  <2>1. \A x \in U : Weights(U)[x] = Weights(T)[x]
    BY DEF Weights
  <2>2. QED
    BY <1>1, <2>1, TotalEqual
<1>8. QED
  BY <1>6, <1>7

\* A sum of sizes is a size.
LEMMA BytesType ==
  ASSUME NEW T, IsFiniteSet(T), \A e \in T : e.retained \in Nat
  PROVE  BytesOf(T) \in Nat
<1>1. \A e \in T : Weights(T)[e] \in Nat
  BY DEF Weights
<1>2. Total(Weights(T), 0, T) \in Nat
  BY <1>1, TotalType
<1>3. QED
  BY <1>2, BytesTotal

\* Any element may be taken out first.
LEMMA BytesRemove ==
  ASSUME NEW T, IsFiniteSet(T), \A e \in T : e.retained \in Nat, NEW e \in T
  PROVE  BytesOf(T) = e.retained + BytesOf(T \ {e})
<1>1. \A x \in T : Weights(T)[x] \in Nat /\ Weights(T)[x] = x.retained
  BY DEF Weights
<1>2. Total(Weights(T), 0, T) = e.retained + Total(Weights(T), 0, T \ {e})
  BY <1>1, TotalRemove
<1>3. BytesOf(T) = Total(Weights(T), 0, T) /\ BytesOf(T \ {e}) = Total(Weights(T), 0, T \ {e})
  BY BytesTotal
<1>4. QED
  BY <1>2, <1>3

\* The bytes of two disjoint sets add up.
LEMMA BytesUnion ==
  ASSUME NEW S, NEW T, IsFiniteSet(S), IsFiniteSet(T), S \cap T = {},
         \A e \in S \cup T : e.retained \in Nat
  PROVE  BytesOf(S \cup T) = BytesOf(S) + BytesOf(T)
<1> DEFINE U == S \cup T
<1>1. \A x \in U : Weights(U)[x] \in Nat
  BY DEF Weights
<1>2. IsFiniteSet(U) /\ S \in SUBSET U /\ T \in SUBSET U
  BY FS_Union
<1>3. Total(Weights(U), 0, U) = Total(Weights(U), 0, S) + Total(Weights(U), 0, T)
  BY <1>1, TotalUnion
<1> HIDE DEF U
<1>4. /\ BytesOf(U) = Total(Weights(U), 0, U) /\ BytesOf(S) = Total(Weights(U), 0, S)
      /\ BytesOf(T) = Total(Weights(U), 0, T)
  BY <1>2, BytesTotal
<1>5. QED
  BY <1>3, <1>4 DEF U

---------------------------------------------------------------------------
(* The timeline's operations                                               *)

LEMMA TimelineLimits ==
  /\ U64 \in Nat /\ MaxEvents \in Nat /\ MaxEvents >= 1 /\ MaxBytes \in 0..U64
  /\ Moments \subseteq Nat /\ Sizes \subseteq 0..U64
  BY TimelineAssumption

LEMMA BytesEmpty == IsFiniteSet({}) /\ BytesOf({}) = 0
  BY FS_EmptySet, BytesTotal, TotalEmpty

LEMMA EventSizes ==
  ASSUME NEW S \in SUBSET Event
  PROVE  \A e \in S : e.retained \in Nat
<1>1. \A x \in Sizes : x \in Nat
  BY TimelineLimits
<1>2. \A e \in Event : e.retained \in Sizes
  BY DEF Event
<1>3. QED
  BY <1>1, <1>2

\* One more event.
LEMMA BytesAdd ==
  ASSUME NEW S \in SUBSET Event, IsFiniteSet(S), NEW e \in Event, e \notin S
  PROVE  /\ IsFiniteSet(S \cup {e}) /\ Cardinality(S \cup {e}) = Cardinality(S) + 1
         /\ BytesOf(S \cup {e}) = BytesOf(S) + e.retained
         /\ BytesOf(S) \in Nat /\ e.retained \in Nat
<1> DEFINE T == S \cup {e}
<1>1. IsFiniteSet(T) /\ Cardinality(T) = Cardinality(S) + 1
  BY FS_AddElement
<1>2. T \in SUBSET Event /\ e \in T /\ T \ {e} = S
  OBVIOUS
<1>3. BytesOf(T) = e.retained + BytesOf(S)
  <2>1. \A x \in T : x.retained \in Nat
    BY <1>2, EventSizes
  <2> HIDE DEF T
  <2>2. QED
    BY <1>1, <1>2, <2>1, BytesRemove
<1>4. BytesOf(S) \in Nat /\ e.retained \in Nat
  BY EventSizes, BytesType
<1>5. QED
  BY <1>1, <1>3, <1>4

\* One event less.
LEMMA BytesLess ==
  ASSUME NEW S \in SUBSET Event, IsFiniteSet(S), NEW e \in S
  PROVE  /\ IsFiniteSet(S \ {e}) /\ Cardinality(S \ {e}) = Cardinality(S) - 1
         /\ Cardinality(S) \in Nat
         /\ BytesOf(S \ {e}) = BytesOf(S) - e.retained
         /\ BytesOf(S \ {e}) \in Nat /\ BytesOf(S) \in Nat /\ e.retained \in Nat
<1>1. /\ IsFiniteSet(S \ {e}) /\ Cardinality(S \ {e}) = Cardinality(S) - 1
      /\ Cardinality(S) \in Nat
  BY FS_RemoveElement, FS_CardinalityType
<1>2. \A x \in S : x.retained \in Nat
  BY EventSizes
<1>3. BytesOf(S) = e.retained + BytesOf(S \ {e})
  BY <1>2, BytesRemove
<1>4. BytesOf(S \ {e}) \in Nat /\ BytesOf(S) \in Nat /\ e.retained \in Nat
  BY <1>1, <1>2, BytesType
<1>5. QED
  BY <1>1, <1>3, <1>4

\* What a set of at most one identity is followed by.
LEMMA NextRawAlone ==
  ASSUME NEW id \in Nat
  PROVE  /\ NextRaw(id) \subseteq 0..U64 /\ Cardinality(NextRaw(id)) <= 1
         /\ \A i \in NextRaw(id) : i = id + 1
<1>1. NextRaw(id) = {} \/ NextRaw(id) = {id + 1}
  BY DEF NextRaw
<1>2. Cardinality({}) = 0 /\ Cardinality({id + 1}) = 1
  BY FS_EmptySet, FS_Singleton
<1>3. Cardinality(NextRaw(id)) <= 1
  BY <1>1, <1>2
<1>4. NextRaw(id) \subseteq 0..U64 /\ \A i \in NextRaw(id) : i = id + 1
  BY TimelineLimits DEF NextRaw
<1>5. QED
  BY <1>3, <1>4

\* What the timeline always keeps.
TimelineSafe ==
  TimelineTypeOK /\ NothingInThePast /\ TimelineAccounts /\ IsFiniteSet(events)

\* Scheduling adds one event, under an identity above all others.
LEMMA Scheduled ==
  ASSUME TimelineSafe, NEW at \in Moments, NEW size \in Sizes, NEW payload \in Payloads,
         ScheduleAt(at, size, payload)
  PROVE  /\ TimelineSafe' /\ now' = now /\ timelinePanic' = timelinePanic
         /\ \E e \in Event :
              /\ e.id \in next_id /\ e.at = at /\ e.retained = size /\ e.payload = payload
              /\ \A id \in next_id' : id = e.id + 1
              /\ e \notin events /\ events' = events \cup {e}
<1>1. PICK id \in next_id :
        /\ next_id' = NextRaw(id)
        /\ events' = events \cup
             {[id |-> id, at |-> at, retained |-> size, payload |-> payload]}
  BY DEF ScheduleAt
<1> DEFINE e == [id |-> id, at |-> at, retained |-> size, payload |-> payload]
<1>2. id \in 0..U64 /\ id \in Nat
  BY TimelineLimits DEF TimelineSafe, TimelineTypeOK
<1>3. e \in Event /\ e.id = id /\ e.at = at /\ e.retained = size /\ e.payload = payload
  BY <1>2 DEF Event
<1>4. events \in SUBSET Event /\ \A f \in events : f.id < id /\ f.id \in Nat
  BY TimelineLimits DEF TimelineSafe, TimelineTypeOK, NothingInThePast, Event
<1>5. e \notin events
  BY <1>2, <1>3, <1>4
<1>6. events' = events \cup {e}
  BY <1>1
<1>7. /\ now' = now /\ timelinePanic' = timelinePanic /\ retained' = retained + size
      /\ ~(at < now) /\ Cardinality(events) < MaxEvents
      /\ retained + size <= U64 /\ retained + size <= MaxBytes
  <2>1. Cardinality(events) \in Nat
    BY FS_CardinalityType DEF TimelineSafe
  <2>2. retained \in Nat /\ size \in Nat
    BY TimelineLimits DEF TimelineSafe, TimelineTypeOK
  <2>3. QED
    BY <2>1, <2>2, TimelineLimits DEF ScheduleAt, ScheduleFails, InPast
<1> HIDE DEF e
<1>8. TimelineTypeOK'
  <2>1. next_id' \subseteq 0..U64 /\ Cardinality(next_id') <= 1
    BY <1>1, <1>2, NextRawAlone
  <2>2. retained' \in 0..U64
    BY <1>7, TimelineLimits DEF TimelineSafe, TimelineTypeOK
  <2>3. QED
    BY <2>1, <2>2, <1>3, <1>4, <1>6, <1>7 DEF TimelineSafe, TimelineTypeOK
<1>9. \A i \in next_id' : i = id + 1
  BY <1>1, <1>2, NextRawAlone
<1>10. NothingInThePast'
  <2>1. now \in Nat /\ at \in Nat /\ ~timelinePanic /\ \A f \in events : f.at >= now
    BY TimelineLimits DEF TimelineSafe, TimelineTypeOK, NothingInThePast
  <2>2. \A f, g \in events : f.id = g.id => f = g
    BY DEF TimelineSafe, NothingInThePast
  <2>3. \A f, g \in events' : f.id = g.id => f = g
    BY <1>2, <1>3, <1>4, <1>6, <2>2
  <2>4. \A f \in events', i \in next_id' : f.id < i
    BY <1>2, <1>3, <1>4, <1>6, <1>9
  <2>5. \A f \in events' : f.at >= now'
    BY <1>3, <1>6, <1>7, <2>1
  <2>6. QED
    BY <1>7, <2>1, <2>3, <2>4, <2>5 DEF NothingInThePast
<1>11. TimelineAccounts' /\ IsFiniteSet(events')
  <2>1. /\ IsFiniteSet(events') /\ Cardinality(events') = Cardinality(events) + 1
        /\ BytesOf(events') = BytesOf(events) + size
    BY <1>3, <1>4, <1>5, <1>6, BytesAdd DEF TimelineSafe
  <2>2. Cardinality(events) \in Nat /\ retained = BytesOf(events)
    BY FS_CardinalityType DEF TimelineSafe, TimelineAccounts
  <2>3. QED
    BY <1>7, <2>1, <2>2, TimelineLimits DEF TimelineAccounts
<1>12. QED
  BY <1>3, <1>5, <1>6, <1>7, <1>8, <1>9, <1>10, <1>11 DEF TimelineSafe

\* Taking one event out.
LEMMA Cancelled ==
  ASSUME TimelineSafe, NEW e, CancelEvent(e)
  PROVE  TimelineSafe' /\ e \in events /\ e \in Event
<1>1. /\ e \in events /\ e \in Event /\ events \in SUBSET Event /\ IsFiniteSet(events)
      /\ events' = events \ {e} /\ retained' = retained - e.retained
      /\ now' = now /\ next_id' = next_id /\ timelinePanic' = timelinePanic
  BY DEF TimelineSafe, TimelineTypeOK, CancelEvent
<1>2. /\ IsFiniteSet(events') /\ Cardinality(events') = Cardinality(events) - 1
      /\ Cardinality(events) \in Nat
      /\ BytesOf(events') = BytesOf(events) - e.retained
      /\ BytesOf(events') \in Nat /\ BytesOf(events) \in Nat /\ e.retained \in Nat
  BY <1>1, BytesLess
<1>3. retained' = BytesOf(events') /\ retained' <= retained /\ retained' \in Nat
  BY <1>1, <1>2 DEF TimelineSafe, TimelineAccounts
<1>4. TimelineAccounts'
  <2>1. retained \in Nat /\ retained <= MaxBytes /\ Cardinality(events) <= MaxEvents
    BY TimelineLimits DEF TimelineSafe, TimelineTypeOK, TimelineAccounts
  <2>2. QED
    BY <1>2, <1>3, <2>1, TimelineLimits DEF TimelineAccounts
<1>5. TimelineTypeOK'
  BY <1>1, <1>3, TimelineLimits DEF TimelineSafe, TimelineTypeOK
<1>6. NothingInThePast'
  BY <1>1 DEF TimelineSafe, NothingInThePast
<1>7. QED
  BY <1>1, <1>2, <1>4, <1>5, <1>6 DEF TimelineSafe

\* pop_next() moves time to the event it takes; all others come after it.
LEMMA Popped ==
  ASSUME TimelineSafe, NEW e, PopNext(e)
  PROVE  /\ TimelineSafe' /\ e \in events /\ e \in Event /\ events' = events \ {e}
         /\ now' = e.at /\ now' >= now /\ next_id' = next_id
         /\ \A f \in events' : e.at < f.at \/ (e.at = f.at /\ e.id < f.id)
<1>1. /\ e \in events /\ e \in Event /\ events \in SUBSET Event /\ IsFiniteSet(events)
      /\ events' = events \ {e} /\ retained' = retained - e.retained /\ next_id' = next_id
      /\ \A f \in events : e.at < f.at \/ (e.at = f.at /\ e.id <= f.id)
  BY DEF TimelineSafe, TimelineTypeOK, PopNext, FirstOf
<1>2. /\ \A f \in events : f.at \in Nat /\ f.id \in Nat /\ f.at >= now
      /\ now \in Nat /\ e.at \in Moments
      /\ \A f, g \in events : f.id = g.id => f = g
      /\ \A f \in events, id \in next_id : f.id < id
  <2>1. \A f \in Event : f.at \in Moments /\ f.id \in 0..U64
    BY DEF Event
  <2>2. \A f \in events : f.at \in Moments /\ f.at \in Nat /\ f.id \in Nat
    <3>1. \A n \in 0..U64 : n \in Nat
      BY TimelineLimits
    <3>2. \A n \in Moments : n \in Nat
      BY TimelineLimits
    <3>3. QED
      BY <1>1, <2>1, <3>1, <3>2
  <2>3. now \in Nat
    BY TimelineLimits DEF TimelineSafe, TimelineTypeOK
  <2>4. /\ \A f \in events : f.at >= now
        /\ \A f, g \in events : f.id = g.id => f = g
        /\ \A f \in events, id \in next_id : f.id < id
    BY DEF TimelineSafe, NothingInThePast
  <2>5. QED
    BY <1>1, <2>2, <2>3, <2>4
<1>3. now' = e.at /\ now' >= now /\ timelinePanic' = timelinePanic
  <2>1. e.at \in Nat /\ now \in Nat /\ e.at >= now /\ timelinePanic \in BOOLEAN
    BY <1>1, <1>2 DEF TimelineSafe, TimelineTypeOK
  <2>2. ~(e.at < now)
    BY <2>1
  <2>3. QED
    BY <2>1, <2>2 DEF PopNext, ClockTo
<1>4. \A f \in events' : e.at < f.at \/ (e.at = f.at /\ e.id < f.id)
  BY <1>1, <1>2
<1>5. /\ IsFiniteSet(events') /\ Cardinality(events') = Cardinality(events) - 1
      /\ Cardinality(events) \in Nat
      /\ BytesOf(events') = BytesOf(events) - e.retained
      /\ BytesOf(events') \in Nat /\ BytesOf(events) \in Nat /\ e.retained \in Nat
  BY <1>1, BytesLess
<1>6. retained' = BytesOf(events') /\ retained' <= retained /\ retained' \in Nat
  BY <1>1, <1>5 DEF TimelineSafe, TimelineAccounts
<1>7. TimelineAccounts'
  <2>1. retained \in Nat /\ retained <= MaxBytes /\ Cardinality(events) <= MaxEvents
    BY TimelineLimits DEF TimelineSafe, TimelineTypeOK, TimelineAccounts
  <2>2. QED
    BY <1>5, <1>6, <2>1, TimelineLimits DEF TimelineAccounts
<1>8. TimelineTypeOK'
  BY <1>1, <1>2, <1>3, <1>6, TimelineLimits DEF TimelineSafe, TimelineTypeOK
<1>9. NothingInThePast'
  <2>1. \A f \in events' : f \in events /\ f.at \in Nat /\ f.at >= e.at
    BY <1>1, <1>2, <1>4
  <2>2. \A f \in events', id \in next_id' : f.id < id
    BY <1>1, <1>2
  <2>3. \A f, g \in events' : f.id = g.id => f = g
    BY <1>1, <1>2
  <2>4. ~timelinePanic'
    BY <1>3 DEF TimelineSafe, NothingInThePast
  <2>5. QED
    BY <1>3, <2>1, <2>2, <2>3, <2>4 DEF NothingInThePast
<1>10. QED
  BY <1>1, <1>3, <1>4, <1>5, <1>7, <1>8, <1>9 DEF TimelineSafe
=============================================================================
