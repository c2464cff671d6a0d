----------------------- MODULE ReadinessOwnerProofs -----------------------
(***************************************************************************)
(* The resource table, the poller and the owner that joins them, for every *)
(* capacity, generation width, limit and set of identities.  TableInv is   *)
(* inductive for the table, PollerInv for the poller over any tokens and   *)
(* sources, and OwnerInv for the owner, whose calls keep to what the       *)
(* poller asks of its user.                                                *)
(***************************************************************************)
EXTENDS ReadinessOwner, FiniteSetTheorems, SequenceTheorems, WellFoundedInduction,
        NaturalsInduction, TLAPS

(* The table.                                                               *)

\* next_vacant() finds a slot when there is a vacant one.
LEMMA MinIsMember ==
  ASSUME NEW S \in SUBSET Nat, S # {}
  PROVE  Min(S) \in S
<1>1. PICK x \in S : \A y \in S : ~(<<y, x>> \in OpToRel(<, Nat))
  BY NatLessThanWellFounded, WFMin, Zenon
<1>2. \A y \in S : ~(y < x)
  BY <1>1, Zenon DEF OpToRel
<1>3. \A y \in S : x =< y
  BY <1>2
<1>4. QED
  BY <1>3, Zenon DEF Min

\* The slots of a table are finitely many.
LEMMA IndicesFinite == IsFiniteSet(Indices) /\ Cardinality(Indices) = Capacity
<1>1. Capacity \in Nat /\ Capacity > 0
  BY TableAssumption
<1>2. /\ IsFiniteSet(0..(Capacity - 1))
      /\ Cardinality(0..(Capacity - 1)) = IF 0 > Capacity - 1 THEN 0 ELSE Capacity - 1 - 0 + 1
  BY <1>1, FS_Interval
<1>3. QED
  BY <1>1, <1>2 DEF Indices

\* What the table's variables are in terms of slots.
LEMMA TableInitInv == ResourceInit => TableInv
<1> SUFFICES ASSUME ResourceInit PROVE TableInv
  OBVIOUS
<1>1. Capacity \in Nat \ {0} /\ MaxGen \in Nat /\ FirstGen \in 0..MaxGen
  BY TableAssumption
<1>2. \A i \in Indices : slots[i] = [kind |-> "vacant", generation |-> FirstGen]
  BY DEF ResourceInit
<1>3. Live = {} /\ {i \in Indices : slots[i].kind = "exhausted"} = {}
  BY <1>2 DEF Live
<1>4. FirstGen \in Gens
  BY <1>1 DEF Gens
<1>5. ResourceTypeOK
  BY <1>1, <1>4 DEF ResourceInit, ResourceTypeOK, Vacant
<1>6. SlotCounts
  BY <1>3, FS_EmptySet DEF ResourceInit, SlotCounts
<1>7. TokenIsExact /\ LiveIdentitiesDistinct /\ RefusalIsHonest
  BY <1>3 DEF ResourceInit, TokenIsExact, LiveIdentitiesDistinct, RefusalIsHonest
<1>8. GenerationsSpent /\ LiveIsAdmitted
  BY <1>3 DEF ResourceInit, GenerationsSpent, LiveIsAdmitted
<1>9. AdmittedOnce
  BY FS_EmptySet DEF ResourceInit, AdmittedOnce
<1>10. QED
  BY <1>5, <1>6, <1>7, <1>8, <1>9 DEF TableInv, ResourceSafe

\* A slot is one of three kinds, which its tag tells apart.
LEMMA SlotKinds ==
  ASSUME ResourceTypeOK, NEW i \in Indices
  PROVE  /\ slots[i].kind \in {"occupied", "vacant", "exhausted"}
         /\ slots[i].kind = "occupied" => slots[i] \in Occupied
         /\ slots[i].kind = "vacant" => slots[i] \in Vacant
         /\ slots[i].kind = "exhausted" => slots[i] = Exhausted
  BY DEF ResourceTypeOK, Occupied, Vacant, Exhausted

\* A refused admission leaves the table as it was, and the refusal is honest.
LEMMA RefuseKeeps ==
  ASSUME TableInv, NEW identity \in Identities,
         AdmitFailure(identity) # "none", answer' = AdmitFailure(identity),
         UNCHANGED <<slots, active, exhausted, admissions, uses>>
  PROVE  TableInv'
<1> USE DEF TableInv, ResourceSafe
<1>1. Live' = Live
  BY DEF Live
<1>2. ResourceTypeOK'
  BY DEF ResourceTypeOK, AdmitFailure, AdmissionFailures
<1>3. SlotCounts' /\ TokenIsExact' /\ LiveIdentitiesDistinct'
  BY <1>1 DEF SlotCounts, TokenIsExact, LiveIdentitiesDistinct
<1>4. ASSUME answer' = "capacity" PROVE Live' = Indices
  <2>1. active = Capacity
    BY <1>4 DEF AdmitFailure
  <2>2. Cardinality(Live) = Cardinality(Indices) /\ Live \in SUBSET Indices
    BY <2>1, IndicesFinite DEF SlotCounts, Live
  <2>3. QED
    BY <1>1, <2>2, IndicesFinite, FS_Subset
<1>5. ASSUME answer' = "token_space", NEW i \in Indices \ Live' PROVE slots'[i].kind = "exhausted"
  <2>1. NextVacant = {}
    BY <1>5 DEF AdmitFailure
  <2>2. slots[i].kind # "vacant" /\ slots[i].kind # "occupied"
    BY <2>1, <1>1, <1>5 DEF NextVacant, Live
  <2>3. QED
    BY <2>2, <1>5, SlotKinds
<1>6. GenerationsSpent' /\ LiveIsAdmitted' /\ AdmittedOnce'
  BY <1>1 DEF GenerationsSpent, LiveIsAdmitted, LiveToken, AdmittedOnce
<1>7. QED
  BY <1>2, <1>3, <1>4, <1>5, <1>6 DEF RefusalIsHonest

\* An admission takes a vacant slot under a token that was never issued, for a
\* resource that was never admitted.
LEMMA OccupyKeeps ==
  ASSUME TableInv, NEW identity \in Identities, Cardinality(admissions) < MaxAdmissions,
         AdmitFailure(identity) = "none", answer' = "none", Occupy(identity)
  PROVE  TableInv'
<1> USE DEF TableInv, ResourceSafe
<1> DEFINE resource == Cardinality(admissions) + 1
           vacated == {j \in Indices : slots[j].kind = "exhausted"}
<1>1. /\ NextVacant # {} /\ active # Capacity
      /\ \A j \in Live : slots[j].identity # identity
  BY DEF AdmitFailure, ContainsIdentity
<1>2. PICK i \in NextVacant : i = Min(NextVacant)
  BY <1>1, MinIsMember, TableAssumption DEF NextVacant, Indices
<1> DEFINE new == [kind |-> "occupied", generation |-> slots[i].generation,
                   identity |-> identity, resource |-> resource]
           token == [owner |-> Owner, slot |-> i, generation |-> slots[i].generation]
           added == [token |-> token, identity |-> identity, resource |-> resource]
<1>3. /\ slots' = [slots EXCEPT ![i] = new]
      /\ active' = active + 1 /\ exhausted' = exhausted /\ uses' = uses
      /\ admissions' = admissions \cup {added}
  BY <1>2 DEF Occupy
<1>4. /\ i \in Indices /\ slots[i].kind = "vacant"
      /\ slots[i] \in Vacant /\ slots[i].generation \in Gens
  BY <1>2, SlotKinds DEF NextVacant, Vacant
<1>5. /\ resource \in Resources /\ resource = Cardinality(admissions) + 1
      /\ Cardinality(admissions) \in Nat /\ IsFiniteSet(admissions)
  BY FS_CardinalityType, TableAssumption DEF AdmittedOnce, Resources
<1>6. new \in Occupied
  BY <1>4, <1>5 DEF Occupied
<1>7. added \in [token : Token, identity : Identities, resource : Resources]
  BY <1>4, <1>5, TableAssumption DEF Token, Gens, Indices
<1>8. \A j \in Indices : slots'[j] = IF j = i THEN new ELSE slots[j]
  BY <1>3, <1>4 DEF ResourceTypeOK
<1> HIDE DEF new, added
<1>9. new.kind = "occupied" /\ new.identity = identity /\ new.resource = resource
      /\ new.generation = slots[i].generation
  BY DEF new
<1>10. Live' = Live \cup {i} /\ i \notin Live /\ Live \in SUBSET Indices
  BY <1>8, <1>4, <1>9 DEF Live
<1>11. {j \in Indices : slots'[j].kind = "exhausted"} = vacated
  BY <1>8, <1>4, <1>9
<1>12. /\ IsFiniteSet(Live) /\ Cardinality(Live') = Cardinality(Live) + 1
       /\ Cardinality(Live) \in Nat
  BY <1>10, IndicesFinite, FS_Subset, FS_AddElement, FS_CardinalityType
<1>13. SlotCounts'
  BY <1>3, <1>11, <1>12 DEF SlotCounts
<1>14. Cardinality(Live') <= Capacity
  BY <1>10, <1>4, IndicesFinite, FS_Subset
<1>15. active' \in 0..Capacity
  BY <1>3, <1>12, <1>14, TableAssumption DEF SlotCounts
<1>16. ResourceTypeOK'
  BY <1>3, <1>6, <1>7, <1>15 DEF ResourceTypeOK
<1>17. \A a \in admissions : a.token # token
  BY <1>4, TableAssumption DEF GenerationsSpent, ResourceTypeOK, Token, Gens
<1>18. added.token = token /\ added.identity = identity /\ added.resource = resource
  BY DEF added
<1>19. TokenIsExact'
  BY <1>3, <1>17, <1>18 DEF TokenIsExact
<1>20. LiveIdentitiesDistinct'
  BY <1>1, <1>8, <1>9, <1>10 DEF LiveIdentitiesDistinct, Live
<1>21. RefusalIsHonest'
  BY DEF RefusalIsHonest
<1>22. GenerationsSpent'
  <2> SUFFICES ASSUME NEW a \in admissions'
               PROVE  /\ a.token.owner = Owner /\ a.token.slot \in Indices
                      /\ slots'[a.token.slot].kind = "vacant" =>
                           a.token.generation < slots'[a.token.slot].generation
                      /\ slots'[a.token.slot].kind = "occupied" =>
                           a.token.generation <= slots'[a.token.slot].generation
    BY DEF GenerationsSpent
  <2>1. CASE a = added
    BY <2>1, <1>18, <1>8, <1>9, <1>4, TableAssumption DEF Gens
  <2>2. CASE a \in admissions
    <3>1. CASE a.token.slot = i
      BY <2>2, <3>1, <1>8, <1>9, <1>4, TableAssumption
      DEF GenerationsSpent, ResourceTypeOK, Token, Gens
    <3>2. CASE a.token.slot # i
      BY <2>2, <3>2, <1>8 DEF GenerationsSpent
    <3>3. QED BY <3>1, <3>2
  <2>3. QED BY <2>1, <2>2, <1>3
<1>23. LiveIsAdmitted'
  <2> SUFFICES ASSUME NEW j \in Live'
               PROVE  [token |-> LiveToken(j)', identity |-> slots'[j].identity,
                       resource |-> slots'[j].resource] \in admissions'
    BY DEF LiveIsAdmitted
  <2>1. CASE j = i
    BY <2>1, <1>3, <1>4, <1>8, <1>9 DEF LiveToken, added
  <2>2. CASE j # i
    BY <2>2, <1>3, <1>8, <1>10 DEF LiveToken, LiveIsAdmitted, Live
  <2>3. QED BY <2>1, <2>2
<1>24. AdmittedOnce'
  <2>1. \A a \in admissions : a.resource \in Nat /\ a.resource < resource
    BY <1>5 DEF AdmittedOnce, ResourceTypeOK, Resources
  <2>2. added \notin admissions
    BY <2>1, <1>18, <1>5
  <2>3. IsFiniteSet(admissions') /\ Cardinality(admissions') = resource
    BY <2>2, <1>3, <1>5, FS_AddElement
  <2>4. QED
    BY <2>1, <2>3, <1>3, <1>18, <1>5 DEF AdmittedOnce
<1>25. QED
  BY <1>13, <1>16, <1>19, <1>20, <1>21, <1>22, <1>23, <1>24

\* admit(), successful or not, keeps the table's invariant.
LEMMA AdmitKeeps ==
  ASSUME TableInv, NEW identity \in Identities, Admit(identity)
  PROVE  TableInv'
<1>1. CASE AdmitFailure(identity) = "none"
  BY <1>1, OccupyKeeps DEF Admit
<1>2. CASE AdmitFailure(identity) # "none"
  BY <1>2, RefuseKeeps DEF Admit
<1>3. QED BY <1>1, <1>2

\* A token that resolves is the token of a live slot and was issued for what that
\* slot holds.
LEMMA ResolvedIsAdmitted ==
  ASSUME TableInv, NEW token \in Token, Resolves(token)
  PROVE  /\ token.slot \in Live /\ token = LiveToken(token.slot)
         /\ slots[token.slot] \in Occupied
         /\ slots[token.slot].resource \in Resources
         /\ \E a \in admissions : a.token = token /\ a.resource = slots[token.slot].resource
<1> DEFINE i == token.slot
<1>1. i \in Indices /\ i \in Live /\ slots[i].kind = "occupied"
  BY DEF Resolves, Live
<1>2. slots[i] \in Occupied
  BY <1>1, SlotKinds DEF TableInv, ResourceSafe
<1>3. token = LiveToken(i)
  BY DEF Resolves, Token, LiveToken
<1>4. [token |-> LiveToken(i), identity |-> slots[i].identity,
       resource |-> slots[i].resource] \in admissions
  BY <1>1 DEF TableInv, LiveIsAdmitted
<1>5. QED
  BY <1>1, <1>2, <1>3, <1>4 DEF Occupied

\* get() and get_mut() resolve a token to what it was issued for.
LEMMA UseKeeps ==
  ASSUME TableInv, NEW token \in Token, Use(token)
  PROVE  TableInv'
<1> USE DEF TableInv, ResourceSafe
<1>1. /\ Resolves(token) /\ answer' = "none"
      /\ uses' = uses \cup {<<token, slots[token.slot].resource>>}
      /\ UNCHANGED <<slots, active, exhausted, admissions>>
  BY DEF Use
<1>2. /\ slots[token.slot].resource \in Resources
      /\ \E a \in admissions : a.token = token /\ a.resource = slots[token.slot].resource
  BY <1>1, ResolvedIsAdmitted
<1>3. Live' = Live
  BY <1>1 DEF Live
<1>4. ResourceTypeOK' /\ TokenIsExact'
  BY <1>1, <1>2 DEF ResourceTypeOK, TokenIsExact
<1>5. SlotCounts' /\ LiveIdentitiesDistinct' /\ RefusalIsHonest'
  BY <1>1, <1>3 DEF SlotCounts, LiveIdentitiesDistinct, RefusalIsHonest
<1>6. GenerationsSpent' /\ LiveIsAdmitted' /\ AdmittedOnce'
  BY <1>1, <1>3 DEF GenerationsSpent, LiveIsAdmitted, LiveToken, AdmittedOnce
<1>7. QED
  BY <1>4, <1>5, <1>6

\* remove() takes the slot out of the live ones; a slot that comes back has a
\* generation no token carries, and a retired one is counted.
LEMMA RemoveKeeps ==
  ASSUME TableInv, NEW token \in Token, Remove(token)
  PROVE  TableInv'
<1> USE DEF TableInv, ResourceSafe
<1> DEFINE gone == {j \in Indices : slots[j].kind = "exhausted"}
           goneNext == {j \in Indices : slots'[j].kind = "exhausted"}
<1>1. PICK i \in Indices : i = token.slot
  BY DEF Remove, Resolves
<1>2. /\ Resolves(token) /\ answer' = "none" /\ active' = active - 1 /\ admissions' = admissions
      /\ uses' = uses \cup {<<token, slots[i].resource>>} /\ Retire(i)
  BY <1>1 DEF Remove
<1>3. /\ i \in Live /\ slots[i] \in Occupied /\ slots[i].resource \in Resources
      /\ \E a \in admissions : a.token = token /\ a.resource = slots[i].resource
  BY <1>1, <1>2, ResolvedIsAdmitted
<1>4. slots[i].kind = "occupied" /\ slots[i].generation \in Gens
  BY <1>3 DEF Occupied
<1>5. \E new \in Vacant \cup {Exhausted} :
        /\ slots' = [slots EXCEPT ![i] = new]
        /\ \/ /\ new.kind = "vacant" /\ new.generation > slots[i].generation
              /\ exhausted' = exhausted
           \/ new.kind = "exhausted" /\ exhausted' = exhausted + 1
  <2>1. CASE slots[i].generation < MaxGen
    <3>1. [kind |-> "vacant", generation |-> slots[i].generation + 1] \in Vacant
      BY <2>1, <1>4, TableAssumption DEF Vacant, Gens
    <3>2. slots[i].generation + 1 > slots[i].generation
      BY <1>4, TableAssumption DEF Gens
    <3>3. QED
      BY <2>1, <3>1, <3>2, <1>2 DEF Retire
  <2>2. CASE ~(slots[i].generation < MaxGen)
    <3>1. Exhausted.kind = "exhausted"
      BY DEF Exhausted
    <3>2. slots' = [slots EXCEPT ![i] = Exhausted] /\ exhausted' = exhausted + 1
      BY <2>2, <1>2 DEF Retire
    <3>3. QED
      BY <3>1, <3>2
  <2>3. QED BY <2>1, <2>2
<1>6. PICK new \in Vacant \cup {Exhausted} :
        /\ slots' = [slots EXCEPT ![i] = new]
        /\ \/ /\ new.kind = "vacant" /\ new.generation > slots[i].generation
              /\ exhausted' = exhausted
           \/ new.kind = "exhausted" /\ exhausted' = exhausted + 1
  BY <1>5
<1>7. \A j \in Indices : slots'[j] = IF j = i THEN new ELSE slots[j]
  BY <1>6 DEF ResourceTypeOK
<1>8. Live' = Live \ {i} /\ Live \in SUBSET Indices
  BY <1>6, <1>7 DEF Live
<1>9. /\ IsFiniteSet(Live) /\ Cardinality(Live) \in Nat
      /\ Cardinality(Live') = Cardinality(Live) - 1 /\ Cardinality(Live') \in Nat
  <2>1. IsFiniteSet(Live)
    BY <1>8, IndicesFinite, FS_Subset
  <2>2. IsFiniteSet(Live') /\ Cardinality(Live') = Cardinality(Live) - 1
    BY <2>1, <1>8, <1>3, FS_RemoveElement
  <2>3. QED
    BY <2>1, <2>2, FS_CardinalityType
<1>10. gone \in SUBSET Indices /\ goneNext \in SUBSET Indices /\ i \notin gone
  BY <1>4
<1>11. /\ IsFiniteSet(gone) /\ Cardinality(gone) \in Nat
       /\ Cardinality(goneNext) \in Nat /\ Cardinality(goneNext) <= Capacity
  BY <1>10, IndicesFinite, FS_Subset, FS_CardinalityType
<1>12. exhausted' = Cardinality(goneNext)
  <2>1. CASE new.kind = "exhausted"
    <3>1. goneNext = gone \cup {i}
      BY <2>1, <1>7
    <3>2. Cardinality(goneNext) = Cardinality(gone) + 1
      BY <3>1, <1>10, <1>11, FS_AddElement
    <3>3. QED
      BY <2>1, <3>2, <1>6 DEF SlotCounts
  <2>2. CASE new.kind # "exhausted"
    <3>1. goneNext = gone
      BY <2>2, <1>7, <1>10
    <3>2. QED
      BY <2>2, <3>1, <1>6 DEF SlotCounts
  <2>3. QED BY <2>1, <2>2
<1>13. SlotCounts'
  BY <1>2, <1>9, <1>12 DEF SlotCounts
<1>14. active' \in 0..Capacity /\ exhausted' \in 0..Capacity
  BY <1>2, <1>9, <1>11, <1>12, TableAssumption DEF SlotCounts, ResourceTypeOK
<1>15. ResourceTypeOK'
  <2>1. slots' \in [Indices -> Occupied \cup Vacant \cup {Exhausted}]
    BY <1>6 DEF ResourceTypeOK
  <2>2. uses' \subseteq Token \X Resources
    BY <1>2, <1>3 DEF ResourceTypeOK
  <2>3. QED
    BY <2>1, <2>2, <1>2, <1>14 DEF ResourceTypeOK
<1>16. TokenIsExact'
  BY <1>2, <1>3 DEF TokenIsExact
<1>17. LiveIdentitiesDistinct' /\ RefusalIsHonest'
  BY <1>2, <1>7, <1>8 DEF LiveIdentitiesDistinct, RefusalIsHonest
<1>18. GenerationsSpent'
  <2> SUFFICES ASSUME NEW a \in admissions
               PROVE  /\ a.token.owner = Owner /\ a.token.slot \in Indices
                      /\ slots'[a.token.slot].kind = "vacant" =>
                           a.token.generation < slots'[a.token.slot].generation
                      /\ slots'[a.token.slot].kind = "occupied" =>
                           a.token.generation <= slots'[a.token.slot].generation
    BY <1>2 DEF GenerationsSpent
  <2>1. CASE a.token.slot = i
    <3>1. a.token.generation <= slots[i].generation /\ a.token.generation \in Nat
      BY <2>1, <1>4 DEF GenerationsSpent, ResourceTypeOK, Token
    <3>2. new.kind = "vacant" => new.generation \in Nat /\ slots[i].generation \in Nat
      BY <1>4, TableAssumption DEF Vacant, Exhausted, Gens
    <3>3. new.kind # "occupied"
      BY <1>6
    <3>4. QED
      BY <2>1, <3>1, <3>2, <3>3, <1>6, <1>7 DEF GenerationsSpent
  <2>2. CASE a.token.slot # i
    BY <2>2, <1>7 DEF GenerationsSpent
  <2>3. QED BY <2>1, <2>2
<1>19. LiveIsAdmitted'
  <2> SUFFICES ASSUME NEW j \in Live'
               PROVE  [token |-> LiveToken(j)', identity |-> slots'[j].identity,
                       resource |-> slots'[j].resource] \in admissions'
    BY DEF LiveIsAdmitted
  <2>1. j \in Live /\ j \in Indices /\ slots'[j] = slots[j]
    BY <1>7, <1>8
  <2>2. QED
    BY <2>1, <1>2 DEF LiveIsAdmitted, LiveToken
<1>20. AdmittedOnce'
  BY <1>2 DEF AdmittedOnce
<1>21. QED
  BY <1>13, <1>15, <1>16, <1>17, <1>18, <1>19, <1>20

\* Steps that leave the table alone keep its invariant.
LEMMA TableUnchanged ==
  ASSUME TableInv, UNCHANGED resourceVars
  PROVE  TableInv'
  BY DEF TableInv, ResourceSafe, resourceVars, ResourceTypeOK, SlotCounts, TokenIsExact,
         LiveIdentitiesDistinct, RefusalIsHonest, GenerationsSpent, LiveIsAdmitted,
         LiveToken, AdmittedOnce, Live

---------------------------------------------------------------------------
(* The poller, over any set of tokens and sources.                          *)

\* The cardinalities of the sets that stand for an optional value.
LEMMA SmallSets ==
  /\ Cardinality({}) <= 1
  /\ \A x : Cardinality({x}) <= 1
<1>1. Cardinality({}) = 0 /\ \A x : Cardinality({x}) = 1
  BY FS_EmptySet, FS_Singleton, Zenon
<1>2. 0 <= 1 /\ 1 <= 1
  OBVIOUS
<1>3. QED
  BY <1>1, <1>2, Zenon

\* A new poller watches nothing.
LEMMA PollerInitInv == PollerInit => PollerInv
<1> SUFFICES ASSUME PollerInit PROVE PollerInv
  OBVIOUS
<1> USE DEF PollerInit
<1>1. DOMAIN entries = {} /\ Len(entries) = 0
  OBVIOUS
<1>2. Cardinality(next_backend) <= 1 /\ next_backend \subseteq Backends
  <2>1. next_backend = {1} /\ 1 \in 1..UsizeMax
    BY PollerAssumption
  <2>2. QED
    BY <2>1, SmallSets, Zenon DEF Backends
<1>3. entries \in Seq([resource : ResourceTokens, backend : Backends])
  OBVIOUS
<1>4. wakeRaised \in BOOLEAN /\ pollerPanic \in BOOLEAN
  BY Zenon
<1>5. pollReport \in [result : {"none", "err", "ok"}, saturated : BOOLEAN]
  BY DEF NoReport
<1>6. PollerTypeOK
  BY <1>2, <1>3, <1>4, <1>5 DEF PollerTypeOK
<1>7. SelectorAgrees
  BY <1>1, FS_EmptySet DEF SelectorAgrees
<1>8. NoPollerPanic /\ SaturationIsHonest
  BY DEF NoPollerPanic, SaturationIsHonest
<1>9. DeliveredToItsToken /\ NothingLost
  BY DEF DeliveredToItsToken, NothingLost
<1>10. Sorted /\ BackendsSpent /\ OneEntryPerToken
  BY <1>1 DEF Sorted, BackendsSpent, OneEntryPerToken
<1>11. OneWatch /\ TiedToItsToken
  BY <1>1, FS_EmptySet DEF OneWatch, TiedToItsToken
<1>12. QED
  BY <1>6, <1>7, <1>8, <1>9, <1>10, <1>11 DEF PollerInv, PollerSafe

\* The parts of the entries' type that the steps use.
LEMMA EntryType ==
  ASSUME PollerTypeOK
  PROVE  /\ Len(entries) \in Nat /\ DOMAIN entries = 1..Len(entries)
         /\ \A i \in 1..Len(entries) :
              /\ entries[i] \in [resource : ResourceTokens, backend : Backends]
              /\ entries[i].resource \in ResourceTokens
              /\ entries[i].backend \in Nat
              /\ entries[i].backend \in 1..UsizeMax
<1> DEFINE Entry == [resource : ResourceTokens, backend : Backends]
<1>1. entries \in Seq(Entry)
  BY DEF PollerTypeOK
<1> HIDE DEF Entry
<1>2. Len(entries) \in Nat /\ DOMAIN entries = 1..Len(entries)
      /\ \A i \in 1..Len(entries) : entries[i] \in Entry
  BY <1>1
<1>3. \A e \in Entry : /\ e.resource \in ResourceTokens
                       /\ e.backend \in Nat /\ e.backend \in 1..UsizeMax
  BY PollerAssumption DEF Entry, Backends
<1>4. QED
  BY <1>2, <1>3 DEF Entry

\* A registration that the selector accepts: the backend token that was reserved is
\* larger than every other, so commit() asserts nothing false and no event that
\* waits can be taken for one of the new source's.
LEMMA RegisterAccepted ==
  ASSUME PollerInv, NEW token \in ResourceTokens, NEW source \in Unwatched,
         NEW interest \in Interests, Register(token, source, interest, TRUE)
  PROVE  PollerInv'
<1> USE DEF PollerInv, PollerSafe
<1>1. PICK b \in next_backend :
        /\ next_backend' = After(b)
        /\ selector' = selector \cup {[backend |-> b, source |-> source, interest |-> interest]}
        /\ pollerPanic' = (pollerPanic \/ CommitPanics(token, b))
        /\ entries' = Append(entries, [resource |-> token, backend |-> b])
        /\ bound' = bound \cup {<<token, source>>}
  BY DEF Register, Reserve
<1>2. /\ ~Registered(token) /\ Len(entries) < MaxRegistrations
      /\ pollReport' = NoReport /\ UNCHANGED <<raised, wakeRaised, batch, lost>>
  <2>1. Len(entries) \in Nat /\ MaxRegistrations \in Nat
    BY EntryType, PollerAssumption
  <2>2. QED
    BY <2>1 DEF Register, ReserveFails
<1>3. /\ Len(entries) \in Nat /\ DOMAIN entries = 1..Len(entries)
      /\ b \in Backends /\ b \in 1..UsizeMax /\ b \in Nat /\ source \in Sources
  BY EntryType, PollerAssumption DEF PollerTypeOK, Backends, Unwatched
<1> DEFINE watch == [backend |-> b, source |-> source, interest |-> interest]
           entry == [resource |-> token, backend |-> b]
           n == Len(entries) + 1
<1>4. /\ entries' \in Seq([resource : ResourceTokens, backend : Backends])
      /\ DOMAIN entries' = 1..n /\ Len(entries') = n /\ entries'[n] = entry
      /\ \A i \in 1..Len(entries) : i \in 1..n /\ i # n /\ entries'[i] = entries[i]
      /\ \A i \in 1..n : i = n \/ i \in 1..Len(entries)
  BY <1>1, <1>3 DEF PollerTypeOK
<1>5. \A i \in 1..Len(entries) : entries[i].backend < b /\ entries[i].backend \in Nat
  BY <1>3, EntryType DEF BackendsSpent
<1>6. \A e \in raised : e.backend < b /\ e.backend \in Nat
  BY PollerAssumption DEF BackendsSpent, PollerTypeOK, Backends
<1>7. \A w \in selector : w.backend < b /\ w.backend \in Nat /\ w.source # source
  <2>1. \A w \in selector : \E i \in 1..Len(entries) : entries[i].backend = w.backend
    BY <1>3 DEF SelectorAgrees
  <2>2. \A w \in selector : w.source # source
    BY DEF Unwatched, WatchOf
  <2>3. QED
    BY <2>1, <2>2, <1>5
<1>8. \A i \in 1..Len(entries) : entries[i].resource # token
  BY <1>2, <1>3 DEF Registered
<1>9. ~CommitPanics(token, b)
  <2>1. ResourceOf(b) = {}
    BY <1>3, <1>5 DEF ResourceOf
  <2>2. entries # <<>> => /\ Vec!Last(entries) = entries[Len(entries)]
                          /\ Len(entries) \in 1..Len(entries)
    BY <1>3 DEF Vec!Last, PollerTypeOK
  <2>3. ~(Len(entries) >= MaxRegistrations)
    BY <1>2, <1>3, PollerAssumption
  <2>4. entries # <<>> => ~(Vec!Last(entries).backend >= b)
    BY <2>2, <1>5, <1>3
  <2>5. QED
    BY <1>2, <2>1, <2>3, <2>4 DEF CommitPanics
<1>10. pollerPanic' = FALSE
  BY <1>1, <1>9, Zenon DEF NoPollerPanic
<1>11. watch \notin selector
  BY <1>7
<1>12. PollerTypeOK'
  <2>1. next_backend' \subseteq Backends /\ Cardinality(next_backend') <= 1
    <3>1. next_backend' = {} \/ next_backend' = {b + 1}
      BY <1>1 DEF After
    <3>2. next_backend' \subseteq Backends
      BY <1>1, <1>3, PollerAssumption DEF After, Backends
    <3>3. QED
      BY <3>1, <3>2, SmallSets, Zenon
  <2>2. selector' \subseteq [backend : Backends, source : Sources, interest : Interests]
    BY <1>1, <1>3 DEF PollerTypeOK
  <2>3. bound' \subseteq ResourceTokens \X Sources
    BY <1>1, <1>3 DEF PollerTypeOK
  <2>4. pollerPanic' \in BOOLEAN
    BY <1>10, Zenon
  <2>5. pollReport' \in [result : {"none", "err", "ok"}, saturated : BOOLEAN]
    BY <1>2 DEF NoReport
  <2>6. QED
    BY <2>1, <2>2, <2>3, <2>4, <2>5, <1>2, <1>4 DEF PollerTypeOK
<1>13. SelectorAgrees'
  <2>1. IsFiniteSet(selector) /\ Cardinality(selector') = Cardinality(selector) + 1
    BY <1>1, <1>11, FS_AddElement DEF OneWatch
  <2>2. {entries'[i].backend : i \in DOMAIN entries'} =
          {entries[i].backend : i \in DOMAIN entries} \cup {b}
    <3>1. entries'[n].backend = b /\ n \in 1..n
      BY <1>3, <1>4
    <3>2. QED
      BY <3>1, <1>3, <1>4
  <2>3. {w.backend : w \in selector'} = {w.backend : w \in selector} \cup {b}
    <3>1. watch.backend = b
      OBVIOUS
    <3>2. QED
      BY <3>1, <1>1
  <2>4. QED
    BY <2>1, <2>2, <2>3, <1>4 DEF SelectorAgrees
<1>14. SaturationIsHonest' /\ NoPollerPanic'
  BY <1>2, <1>10 DEF SaturationIsHonest, NoReport, NoPollerPanic
<1>15. DeliveredToItsToken' /\ NothingLost'
  BY <1>1, <1>2 DEF DeliveredToItsToken, NothingLost
<1>16. Sorted'
  BY <1>3, <1>4, <1>5 DEF Sorted
<1>17. BackendsSpent'
  <2>1. \A m \in next_backend' : m = b + 1
    BY <1>1 DEF After
  <2>2. \A i \in 1..n : entries'[i].backend < b + 1
    BY <1>3, <1>4, <1>5
  <2>3. \A e \in raised' : e.backend < b + 1
    BY <1>2, <1>3, <1>6
  <2>4. QED
    BY <2>1, <2>2, <2>3, <1>4 DEF BackendsSpent
<1>18. OneEntryPerToken'
  BY <1>3, <1>4, <1>8 DEF OneEntryPerToken
<1>19. OneWatch'
  <2>1. IsFiniteSet(selector')
    BY <1>1, FS_AddElement DEF OneWatch
  <2>2. watch.backend = b /\ watch.source = source
    OBVIOUS
  <2>3. \A w \in selector : w.backend # b
    BY <1>7, <1>3
  <2>4. QED
    BY <2>1, <2>2, <2>3, <1>1, <1>7 DEF OneWatch
<1>20. TiedToItsToken'
  <2> SUFFICES ASSUME NEW i \in 1..n, NEW e \in raised' \cup selector',
                      entries'[i].backend = e.backend
               PROVE  <<entries'[i].resource, e.source>> \in bound'
    BY <1>2, <1>4 DEF TiedToItsToken
  <2>1. CASE i = n
    <3>1. e = watch
      BY <2>1, <1>1, <1>2, <1>3, <1>4, <1>6, <1>7
    <3>2. QED
      BY <2>1, <3>1, <1>1, <1>4
  <2>2. CASE i # n
    <3>1. i \in 1..Len(entries) /\ entries'[i] = entries[i] /\ entries[i].backend # b
      BY <2>2, <1>3, <1>4, <1>5
    <3>2. e \in raised \cup selector
      BY <3>1, <1>1, <1>2
    <3>3. QED
      BY <3>1, <3>2, <1>1, <1>3 DEF TiedToItsToken
  <2>3. QED BY <2>1, <2>2
<1>21. QED
  BY <1>12, <1>13, <1>14, <1>15, <1>16, <1>17, <1>18, <1>19, <1>20

\* A step that changes neither the entries nor the watches keeps what relates them.
LEMMA RegistrationsKeep ==
  ASSUME PollerInv, UNCHANGED <<entries, selector>>
  PROVE  /\ SelectorAgrees' /\ OneWatch'
         /\ Sorted' /\ OneEntryPerToken'
<1> USE DEF PollerInv, PollerSafe
<1>1. SelectorAgrees' /\ OneWatch'
  BY DEF SelectorAgrees, OneWatch
<1>2. Sorted' /\ OneEntryPerToken'
  BY DEF Sorted, OneEntryPerToken
<1>3. QED
  BY <1>1, <1>2

\* A step that leaves the poller as it was, and reports nothing.
LEMMA PollerQuiet ==
  ASSUME PollerInv, pollReport' = NoReport,
         UNCHANGED <<entries, next_backend, selector, raised, wakeRaised, batch, pollerPanic,
                     bound, lost>>
  PROVE  PollerInv'
<1> USE DEF PollerInv, PollerSafe
<1>1. pollReport' \in [result : {"none", "err", "ok"}, saturated : BOOLEAN]
  BY DEF NoReport
<1>2. PollerTypeOK'
  BY <1>1 DEF PollerTypeOK
<1>3. SaturationIsHonest'
  BY DEF SaturationIsHonest, NoReport
<1>4. NoPollerPanic' /\ DeliveredToItsToken' /\ NothingLost'
  BY DEF NoPollerPanic, DeliveredToItsToken, NothingLost
<1>5. BackendsSpent' /\ TiedToItsToken'
  BY DEF BackendsSpent, TiedToItsToken
<1>6. QED
  BY <1>2, <1>3, <1>4, <1>5, RegistrationsKeep

\* A registration that the selector refuses spends a backend token and no more.
LEMMA RegisterRefused ==
  ASSUME PollerInv, NEW token, NEW source, NEW interest,
         Register(token, source, interest, FALSE)
  PROVE  PollerInv'
<1> USE DEF PollerInv, PollerSafe
<1>1. PICK b \in next_backend : next_backend' = After(b)
  BY DEF Register, Reserve
<1>2. /\ pollReport' = NoReport
      /\ UNCHANGED <<entries, selector, raised, wakeRaised, batch, pollerPanic, bound, lost>>
  BY DEF Register
<1>3. b \in 1..UsizeMax /\ b \in Nat
  BY PollerAssumption DEF PollerTypeOK, Backends
<1>4. PollerTypeOK'
  <2>1. next_backend' = {} \/ next_backend' = {b + 1}
    BY <1>1 DEF After
  <2>2. next_backend' \subseteq Backends
    BY <1>1, <1>3, PollerAssumption DEF After, Backends
  <2>3. Cardinality(next_backend') <= 1
    BY <2>1, SmallSets, Zenon
  <2>4. pollReport' \in [result : {"none", "err", "ok"}, saturated : BOOLEAN]
    BY <1>2 DEF NoReport
  <2>5. QED
    BY <2>2, <2>3, <2>4, <1>2 DEF PollerTypeOK
<1>5. BackendsSpent'
  <2>1. \A m \in next_backend' : m = b + 1
    BY <1>1 DEF After
  <2>2. \A i \in DOMAIN entries : entries[i].backend < b + 1
    BY <1>3, EntryType DEF BackendsSpent
  <2>3. \A e \in raised : e.backend < b + 1
    BY <1>3, PollerAssumption DEF BackendsSpent, PollerTypeOK, Backends
  <2>4. QED
    BY <2>1, <2>2, <2>3, <1>2 DEF BackendsSpent
<1>6. SaturationIsHonest'
  BY <1>2 DEF SaturationIsHonest, NoReport
<1>7. NoPollerPanic' /\ DeliveredToItsToken' /\ NothingLost'
  BY <1>2 DEF NoPollerPanic, DeliveredToItsToken, NothingLost
<1>8. TiedToItsToken'
  BY <1>2 DEF TiedToItsToken
<1>9. QED
  BY <1>2, <1>4, <1>5, <1>6, <1>7, <1>8, RegistrationsKeep

\* Where a registered token's entry is.
LEMMA IndexOfEntry ==
  ASSUME NEW token, Registered(token)
  PROVE  /\ IndexOf(token) \in DOMAIN entries
         /\ entries[IndexOf(token)].resource = token
  BY Zenon DEF Registered, IndexOf

\* The source presented for a registered token has one watch, that of its entry.
LEMMA WatchOfEntry ==
  ASSUME PollerInv, NEW token, NEW source \in SourceOf(token)
  PROVE  \E w \in selector : /\ w.backend = BackendOf(token) /\ w.source = source
                             /\ WatchOf(source) = {w}
<1>1. PICK w \in selector : w.backend = BackendOf(token) /\ w.source = source
  BY DEF SourceOf
<1>2. \A v \in selector : v.source = source => v = w
  BY <1>1 DEF PollerInv, OneWatch
<1>3. WatchOf(source) = {w}
  BY <1>1, <1>2 DEF WatchOf
<1>4. QED
  BY <1>1, <1>3

\* A reregistration that the selector accepts exchanges the interest of one watch.
LEMMA ReregisterAccepted ==
  ASSUME PollerInv, NEW token \in ResourceTokens, NEW source \in SourceOf(token),
         NEW interest \in Interests, Reregister(token, source, interest, TRUE)
  PROVE  PollerInv'
<1> USE DEF PollerInv, PollerSafe
<1>1. PICK w \in selector : /\ w.backend = BackendOf(token) /\ w.source = source
                            /\ WatchOf(source) = {w}
  BY WatchOfEntry
<1> DEFINE v == [backend |-> w.backend, source |-> w.source, interest |-> interest]
<1>2. selector' = (selector \ {w}) \cup {v}
  BY <1>1 DEF Reregister
<1>3. /\ pollReport' = NoReport
      /\ UNCHANGED <<entries, next_backend, raised, wakeRaised, batch, pollerPanic, bound, lost>>
  BY DEF Reregister
<1>4. v.backend = w.backend /\ v.source = w.source
  OBVIOUS
<1>5. v \in [backend : Backends, source : Sources, interest : Interests]
  BY DEF PollerTypeOK
<1> HIDE DEF v
<1>6. \A u \in selector \ {w} : u.backend # v.backend /\ u.source # v.source
  BY <1>4 DEF OneWatch
<1>7. IsFiniteSet(selector') /\ Cardinality(selector') = Cardinality(selector)
  <2>1. IsFiniteSet(selector)
    BY DEF OneWatch
  <2>2. /\ IsFiniteSet(selector \ {w})
        /\ Cardinality(selector \ {w}) = Cardinality(selector) - 1
    BY <2>1, FS_RemoveElement
  <2>3. v \notin selector \ {w}
    BY <1>6
  <2>4. IsFiniteSet(selector') /\ Cardinality(selector') = Cardinality(selector \ {w}) + 1
    BY <2>2, <2>3, <1>2, FS_AddElement
  <2>5. Cardinality(selector) \in Nat
    BY <2>1, FS_CardinalityType
  <2>6. QED
    BY <2>2, <2>4, <2>5
<1>8. PollerTypeOK'
  <2>1. pollReport' \in [result : {"none", "err", "ok"}, saturated : BOOLEAN]
    BY <1>3 DEF NoReport
  <2>2. selector' \subseteq [backend : Backends, source : Sources, interest : Interests]
    BY <1>2, <1>5 DEF PollerTypeOK
  <2>3. QED
    BY <2>1, <2>2, <1>3 DEF PollerTypeOK
<1>9. SelectorAgrees'
  <2>1. {u.backend : u \in selector'} = {u.backend : u \in selector}
    BY <1>2, <1>4
  <2>2. QED
    BY <2>1, <1>3, <1>7 DEF SelectorAgrees
<1>10. OneWatch'
  BY <1>2, <1>6, <1>7 DEF OneWatch
<1>11. TiedToItsToken'
  <2> SUFFICES ASSUME NEW i \in DOMAIN entries, NEW e \in raised \cup selector',
                      entries[i].backend = e.backend
               PROVE  <<entries[i].resource, e.source>> \in bound
    BY <1>3 DEF TiedToItsToken
  <2>1. CASE e \in raised \cup selector
    BY <2>1 DEF TiedToItsToken
  <2>2. CASE e = v
    BY <2>2, <1>4 DEF TiedToItsToken
  <2>3. QED BY <2>1, <2>2, <1>2
<1>12. SaturationIsHonest'
  BY <1>3 DEF SaturationIsHonest, NoReport
<1>13. NoPollerPanic' /\ DeliveredToItsToken' /\ NothingLost'
       /\ Sorted' /\ BackendsSpent' /\ OneEntryPerToken'
  BY <1>3 DEF NoPollerPanic, DeliveredToItsToken, NothingLost,
         Sorted, BackendsSpent, OneEntryPerToken
<1>14. QED
  BY <1>8, <1>9, <1>10, <1>11, <1>12, <1>13

\* Vec::remove() keeps the order of what it leaves.
LEMMA RemoveAtFacts ==
  ASSUME NEW T, NEW q \in Seq(T), NEW k \in 1..Len(q)
  PROVE  /\ Vec!RemoveAt(q, k) \in Seq(T)
         /\ Len(Vec!RemoveAt(q, k)) = Len(q) - 1
         /\ \A j \in 1..(Len(q) - 1) :
              Vec!RemoveAt(q, k)[j] = IF j < k THEN q[j] ELSE q[j + 1]
<1> DEFINE a == SubSeq(q, 1, k - 1)
           b == SubSeq(q, k + 1, Len(q))
<1>1. Len(q) \in Nat /\ k \in Nat /\ k >= 1 /\ k <= Len(q)
  OBVIOUS
<1>2. a \in Seq(T) /\ Len(a) = k - 1 /\ \A j \in 1..(k - 1) : a[j] = q[j]
  BY <1>1
<1>3. /\ b \in Seq(T) /\ Len(b) = Len(q) - k
      /\ \A j \in 1..(Len(q) - k) : b[j] = q[k + j]
  BY <1>1
<1>4. Vec!RemoveAt(q, k) = a \o b
  BY DEF Vec!RemoveAt
<1> HIDE DEF a, b
<1>5. /\ a \o b \in Seq(T) /\ Len(a \o b) = Len(q) - 1
      /\ \A j \in 1..(Len(q) - 1) :
           (a \o b)[j] = IF j <= Len(a) THEN a[j] ELSE b[j - Len(a)]
  <2>1. Len(a) + Len(b) = Len(q) - 1
    BY <1>1, <1>2, <1>3
  <2>2. a \in Seq(T) /\ b \in Seq(T)
    BY <1>2, <1>3
  <2>3. /\ a \o b \in Seq(T) /\ Len(a \o b) = Len(a) + Len(b)
        /\ \A j \in 1..(Len(a) + Len(b)) :
             (a \o b)[j] = IF j <= Len(a) THEN a[j] ELSE b[j - Len(a)]
    BY <2>2, ConcatProperties, Zenon
  <2>4. QED
    BY <2>1, <2>3, Zenon
<1>6. ASSUME NEW j \in 1..(Len(q) - 1)
      PROVE  (a \o b)[j] = IF j < k THEN q[j] ELSE q[j + 1]
  <2>1. CASE j < k
    BY <2>1, <1>1, <1>2, <1>5
  <2>2. CASE ~(j < k)
    <3>1. j - (k - 1) \in 1..(Len(q) - k) /\ k + (j - (k - 1)) = j + 1
      BY <2>2, <1>1
    <3>2. (a \o b)[j] = b[j - (k - 1)]
      BY <2>2, <1>1, <1>2, <1>5
    <3>3. QED
      BY <2>2, <3>1, <3>2, <1>3
  <2>3. QED BY <2>1, <2>2
<1>7. QED
  BY <1>4, <1>5, <1>6

\* A deregistration that the selector accepts takes one watch and its entry, and
\* leaves the others in order.
LEMMA DeregisterAccepted ==
  ASSUME PollerInv, NEW token \in ResourceTokens, NEW source \in SourceOf(token),
         Deregister(token, source, TRUE)
  PROVE  PollerInv'
<1> USE DEF PollerInv, PollerSafe
<1> DEFINE Entry == [resource : ResourceTokens, backend : Backends]
           n == Len(entries)
<1>1. PICK w \in selector : /\ w.backend = BackendOf(token) /\ w.source = source
                            /\ WatchOf(source) = {w}
  BY WatchOfEntry
<1>2. PICK k \in DOMAIN entries : /\ k = IndexOf(token) /\ entries[k].resource = token
                                  /\ entries[k].backend = w.backend
  BY <1>1, IndexOfEntry DEF Deregister, BackendOf
<1>3. /\ selector' = selector \ {w} /\ entries' = Vec!RemoveAt(entries, k)
      /\ raised' \subseteq raised /\ pollReport' = NoReport
      /\ UNCHANGED <<next_backend, wakeRaised, batch, pollerPanic, bound, lost>>
  BY <1>1, <1>2 DEF Deregister, Without
<1>4. /\ entries \in Seq(Entry) /\ n \in Nat /\ DOMAIN entries = 1..n /\ k \in 1..n
      /\ \A i \in 1..n : entries[i].backend \in Nat
  BY EntryType DEF PollerTypeOK
<1>5. /\ entries' \in Seq(Entry) /\ Len(entries') = n - 1
      /\ \A j \in 1..(n - 1) : entries'[j] = IF j < k THEN entries[j] ELSE entries[j + 1]
  <2> HIDE DEF Entry
  <2>1. QED
    BY <1>3, <1>4, RemoveAtFacts
<1>6. DOMAIN entries' = 1..(n - 1)
  <2> HIDE DEF Entry
  <2>1. QED
    BY <1>5, <1>4
<1> DEFINE old(j) == IF j < k THEN j ELSE j + 1
<1>7. \A j \in 1..(n - 1) : /\ old(j) \in 1..n /\ old(j) # k
                            /\ entries'[j] = entries[old(j)]
  BY <1>4, <1>5
<1>8. \A i, j \in 1..(n - 1) : (i < j => old(i) < old(j)) /\ (old(i) = old(j) => i = j)
  BY <1>4
<1>9. \A i \in 1..n : i # k => \E j \in 1..(n - 1) : old(j) = i
  <2> SUFFICES ASSUME NEW i \in 1..n, i # k PROVE \E j \in 1..(n - 1) : old(j) = i
    OBVIOUS
  <2>1. CASE i < k
    BY <2>1, <1>4
  <2>2. CASE i > k
    <3>1. i - 1 \in 1..(n - 1) /\ old(i - 1) = i
      BY <2>2, <1>4
    <3>2. QED BY <3>1
  <2>3. QED BY <2>1, <2>2, <1>4
<1> HIDE DEF old
<1>10. \A i \in 1..n : i # k => entries[i].backend # w.backend
  BY <1>2, <1>4 DEF Sorted
<1>11. \A u \in selector \ {w} : u.backend # w.backend
  BY DEF OneWatch
<1>12. IsFiniteSet(selector') /\ Cardinality(selector') = n - 1
  BY <1>3, FS_RemoveElement DEF OneWatch, SelectorAgrees
<1>13. SelectorAgrees'
  <2>1. {entries'[j].backend : j \in 1..(n - 1)} =
          {entries[i].backend : i \in 1..n} \ {w.backend}
    <3>1. \A j \in 1..(n - 1) : /\ entries'[j].backend \in {entries[i].backend : i \in 1..n}
                                /\ entries'[j].backend # w.backend
      BY <1>7, <1>10
    <3>2. \A i \in 1..n : i # k => \E j \in 1..(n - 1) : entries'[j] = entries[i]
      BY <1>7, <1>9
    <3>3. \A x \in {entries[i].backend : i \in 1..n} \ {w.backend} :
            x \in {entries'[j].backend : j \in 1..(n - 1)}
      BY <3>2, <1>2, <1>4
    <3>4. QED
      BY <3>1, <3>3
  <2>2. {u.backend : u \in selector'} = {u.backend : u \in selector} \ {w.backend}
    BY <1>3, <1>11
  <2>3. QED
    BY <2>1, <2>2, <1>4, <1>5, <1>6, <1>12 DEF SelectorAgrees
<1>14. IsFiniteSet(raised')
  BY <1>3, FS_Subset DEF TiedToItsToken
<1>15. PollerTypeOK'
  <2>1. pollReport' \in [result : {"none", "err", "ok"}, saturated : BOOLEAN]
    BY <1>3 DEF NoReport
  <2>2. QED
    BY <2>1, <1>3, <1>5 DEF PollerTypeOK
<1>16. SaturationIsHonest'
  BY <1>3 DEF SaturationIsHonest, NoReport
<1>17. NoPollerPanic' /\ DeliveredToItsToken' /\ NothingLost'
  BY <1>3 DEF NoPollerPanic, DeliveredToItsToken, NothingLost
<1>18. Sorted'
  BY <1>4, <1>6, <1>7, <1>8 DEF Sorted
<1>19. BackendsSpent'
  BY <1>3, <1>4, <1>6, <1>7 DEF BackendsSpent
<1>20. OneEntryPerToken'
  <2> SUFFICES ASSUME NEW i \in 1..(n - 1), NEW j \in 1..(n - 1),
                      entries'[i].resource = entries'[j].resource
               PROVE  i = j
    BY <1>6 DEF OneEntryPerToken
  <2>1. entries[old(i)].resource = entries[old(j)].resource
    BY <1>7
  <2>2. old(i) = old(j)
    BY <2>1, <1>4, <1>7 DEF OneEntryPerToken
  <2>3. QED
    BY <2>2, <1>8
<1>21. OneWatch'
  BY <1>3, <1>12 DEF OneWatch
<1>22. TiedToItsToken'
  <2> SUFFICES ASSUME NEW j \in 1..(n - 1), NEW e \in raised' \cup selector',
                      entries'[j].backend = e.backend
               PROVE  <<entries'[j].resource, e.source>> \in bound'
    BY <1>6, <1>14 DEF TiedToItsToken
  <2>1. e \in raised \cup selector
    BY <1>3
  <2>2. old(j) \in DOMAIN entries /\ entries'[j] = entries[old(j)]
    BY <1>4, <1>7
  <2>3. QED
    BY <2>1, <2>2, <1>3 DEF TiedToItsToken
<1>23. QED
  BY <1>13, <1>15, <1>16, <1>17, <1>18, <1>19, <1>20, <1>21, <1>22

\* A raised event carries the backend token of its source's watch.
LEMMA RaiseKeeps ==
  ASSUME PollerInv, NEW watch \in selector, Raise(watch)
  PROVE  PollerInv'
<1> USE DEF PollerInv, PollerSafe
<1> DEFINE event == [backend |-> watch.backend, source |-> watch.source]
<1>1. /\ raised' = raised \cup {event} /\ pollReport' = NoReport
      /\ UNCHANGED <<entries, next_backend, selector, wakeRaised, batch, pollerPanic, bound, lost>>
  BY DEF Raise
<1>2. IsFiniteSet(raised')
  BY <1>1, FS_AddElement DEF TiedToItsToken
<1>3. event \in [backend : Backends, source : Sources]
  BY DEF PollerTypeOK
<1>4. event.backend = watch.backend /\ event.source = watch.source
  OBVIOUS
<1> HIDE DEF event
<1>5. PollerTypeOK'
  <2>1. pollReport' \in [result : {"none", "err", "ok"}, saturated : BOOLEAN]
    BY <1>1 DEF NoReport
  <2>2. QED
    BY <2>1, <1>1, <1>3 DEF PollerTypeOK
<1>6. BackendsSpent'
  <2>1. \E i \in DOMAIN entries : entries[i].backend = event.backend
    BY <1>4 DEF SelectorAgrees
  <2>2. QED
    BY <2>1, <1>1 DEF BackendsSpent
<1>7. TiedToItsToken'
  BY <1>1, <1>2, <1>4 DEF TiedToItsToken
<1>8. SaturationIsHonest'
  BY <1>1 DEF SaturationIsHonest, NoReport
<1>9. NoPollerPanic' /\ DeliveredToItsToken' /\ NothingLost'
  BY <1>1 DEF NoPollerPanic, DeliveredToItsToken, NothingLost
<1>10. QED
  BY <1>1, <1>5, <1>6, <1>7, <1>8, <1>9, RegistrationsKeep

\* A pulse only makes the next poll see the waker.
LEMMA PulseKeeps ==
  ASSUME PollerInv, Pulse
  PROVE  PollerInv'
<1> USE DEF PollerInv, PollerSafe
<1>1. /\ wakeRaised' = TRUE /\ pollReport' = NoReport
      /\ UNCHANGED <<entries, next_backend, selector, raised, batch, pollerPanic, bound, lost>>
  BY DEF Pulse
<1>2. PollerTypeOK'
  <2>1. pollReport' \in [result : {"none", "err", "ok"}, saturated : BOOLEAN]
    BY <1>1 DEF NoReport
  <2>2. wakeRaised' \in BOOLEAN
    BY <1>1, Zenon
  <2>3. QED
    BY <2>1, <2>2, <1>1 DEF PollerTypeOK
<1>3. SaturationIsHonest'
  BY <1>1 DEF SaturationIsHonest, NoReport
<1>4. NoPollerPanic' /\ DeliveredToItsToken' /\ NothingLost'
  BY <1>1 DEF NoPollerPanic, DeliveredToItsToken, NothingLost
<1>5. BackendsSpent' /\ TiedToItsToken'
  BY <1>1 DEF BackendsSpent, TiedToItsToken
<1>6. QED
  BY <1>1, <1>2, <1>3, <1>4, <1>5, RegistrationsKeep

\* A poll that fails leaves an empty destination and every event waiting.
LEMMA PollFailsKeeps ==
  ASSUME PollerInv, PollFails
  PROVE  PollerInv'
<1> USE DEF PollerInv, PollerSafe
<1>1. /\ batch' = {} /\ pollReport' = [result |-> "err", saturated |-> FALSE]
      /\ UNCHANGED <<entries, next_backend, selector, raised, wakeRaised, pollerPanic, bound, lost>>
  BY DEF PollFails
<1>2. PollerTypeOK'
  BY <1>1 DEF PollerTypeOK
<1>3. SaturationIsHonest' /\ DeliveredToItsToken'
  BY <1>1 DEF SaturationIsHonest, DeliveredToItsToken
<1>4. NoPollerPanic' /\ NothingLost'
  BY <1>1 DEF NoPollerPanic, NothingLost
<1>5. BackendsSpent' /\ TiedToItsToken'
  BY <1>1 DEF BackendsSpent, TiedToItsToken
<1>6. QED
  BY <1>1, <1>2, <1>3, <1>4, <1>5, RegistrationsKeep

\* The binary search finds exactly the entry with that backend token.
LEMMA OneResource ==
  ASSUME PollerInv, NEW b
  PROVE  /\ \A i \in DOMAIN entries :
              entries[i].backend = b => ResourceOf(b) = {entries[i].resource}
         /\ ResourceOf(b) # {} =>
              \E i \in DOMAIN entries : /\ entries[i].backend = b
                                        /\ ResourceOf(b) = {entries[i].resource}
<1>1. Sorted /\ PollerTypeOK
  BY DEF PollerInv, PollerSafe
<1>2. \A i, j \in DOMAIN entries : entries[i].backend = entries[j].backend => i = j
  <2>1. \A i, j \in 1..Len(entries) : i < j => entries[i].backend < entries[j].backend
    BY <1>1, EntryType DEF Sorted
  <2>2. QED
    BY <2>1, <1>1, EntryType
<1>3. ResourceOf(b) =
        {entries[i].resource : i \in {j \in DOMAIN entries : entries[j].backend = b}}
  BY <1>1 DEF ResourceOf
<1>4. ASSUME NEW i \in DOMAIN entries, entries[i].backend = b
      PROVE  ResourceOf(b) = {entries[i].resource}
  <2>1. {j \in DOMAIN entries : entries[j].backend = b} = {i}
    BY <1>2, <1>4
  <2>2. QED
    BY <2>1, <1>3
<1>5. ASSUME ResourceOf(b) # {}
      PROVE  \E i \in DOMAIN entries : entries[i].backend = b
  BY <1>3, <1>5
<1>6. QED
  BY <1>4, <1>5

\* A poll: what it takes from the selector's queue is delivered under the token
\* its source was registered with, unless that registration is gone; the bounded
\* buffer fits the destination, and only a full one can leave events behind.
LEMMA PollOnceKeeps ==
  ASSUME PollerInv, NEW capacity \in Capacities, PollOnce(capacity)
  PROVE  PollerInv'
<1> USE DEF PollerInv, PollerSafe
<1> DEFINE wake == [backend |-> WAKE_TOKEN]
           waiting == raised \cup (IF wakeRaised THEN {wake} ELSE {})
           wakesOf(o) == {e \in o : e.backend = WAKE_TOKEN}
           resourcesOf(o) == o \ wakesOf(o)
           liveOf(o) == resourcesOf(o) \ Stale(resourcesOf(o))
           deliveredOf(o) == UNION {{[token |-> t, source |-> e.source] :
                                       t \in ResourceOf(e.backend)} : e \in liveOf(o)}
           lostOf(o) == {e \in resourcesOf(o) :
                           /\ \E i \in DOMAIN entries : entries[i].backend = e.backend
                           /\ ~\E d \in deliveredOf(o) : d.source = e.source}
<1>1. PICK observed \in Observations :
        /\ batch' = deliveredOf(observed)
        /\ pollReport' = [result |-> "ok",
             saturated |-> Saturated(Cardinality(observed))]
        /\ pollerPanic' = (pollerPanic \/
             Cardinality(deliveredOf(observed)) +
               Cardinality(wakesOf(observed)) > capacity)
        /\ raised' = raised \ resourcesOf(observed)
        /\ wakeRaised' = (wakeRaised /\ wakesOf(observed) = {})
        /\ lost' = lost \cup lostOf(observed)
  BY DEF PollOnce
<1>2. /\ UNCHANGED <<entries, next_backend, selector, bound>>
      /\ capacity >= MaxEvents /\ capacity \in Nat /\ MaxEvents \in Nat
  BY PollerAssumption DEF PollOnce, TooSmall
<1> DEFINE wakes == wakesOf(observed)
           resources == resourcesOf(observed)
           live == liveOf(observed)
           delivered == deliveredOf(observed)
<1>3. /\ observed \in SUBSET waiting
      /\ \/ Cardinality(observed) = MaxEvents
         \/ observed = waiting /\ Cardinality(observed) < MaxEvents
  BY DEF Observations
<1>4. \A e \in raised : /\ e \in [backend : Backends, source : Sources]
                        /\ e.backend # WAKE_TOKEN
  BY PollerAssumption DEF PollerTypeOK, Backends, WAKE_TOKEN
<1>5. wake.backend = WAKE_TOKEN
  OBVIOUS
<1>6. resources \subseteq raised /\ wakes = observed \cap {wake}
  BY <1>3, <1>4, <1>5
<1>7. \A e \in live : \E i \in DOMAIN entries :
         /\ entries[i].backend = e.backend
         /\ ResourceOf(e.backend) = {entries[i].resource}
  BY OneResource DEF Stale
<1>8. \A d \in delivered : \E e \in live, i \in DOMAIN entries :
         /\ entries[i].backend = e.backend
         /\ d = [token |-> entries[i].resource, source |-> e.source]
  BY <1>7
<1>9. live \subseteq resources /\ live \subseteq raised
  BY <1>6
<1>10. pollerPanic' = FALSE
  <2>1. IsFiniteSet(observed)
    <3>1. IsFiniteSet(raised)
      BY DEF TiedToItsToken
    <3>2. IsFiniteSet(raised \cup {wake})
      BY <3>1, FS_AddElement
    <3>3. observed \in SUBSET (raised \cup {wake})
      BY <1>3
    <3>4. QED
      BY <3>2, <3>3, FS_Subset
  <2>2. Cardinality(observed) <= MaxEvents /\ Cardinality(observed) \in Nat
    BY <2>1, <1>2, <1>3, FS_CardinalityType
  <2>3. /\ IsFiniteSet(resources) /\ IsFiniteSet(wakes)
        /\ Cardinality(resources) = Cardinality(observed) - Cardinality(wakes)
    <3>1. wakes \in SUBSET observed /\ observed \cap wakes = wakes
      OBVIOUS
    <3>2. IsFiniteSet(wakes)
      BY <2>1, <3>1, FS_Subset
    <3>3. /\ IsFiniteSet(resources)
          /\ Cardinality(resources) = Cardinality(observed) - Cardinality(observed \cap wakes)
      BY <2>1, FS_Difference
    <3>4. QED
      BY <3>1, <3>2, <3>3
  <2>4. IsFiniteSet(live) /\ Cardinality(live) <= Cardinality(resources)
    <3>1. live \in SUBSET resources
      BY <1>9
    <3>2. QED
      BY <2>3, <3>1, FS_Subset
  <2>5. IsFiniteSet(delivered) /\ Cardinality(delivered) <= Cardinality(live)
    <3> DEFINE told(e) == [token |-> CHOOSE t \in ResourceOf(e.backend) : TRUE,
                           source |-> e.source]
               f == [e \in live |-> told(e)]
    <3>1. \A e \in live : {[token |-> t, source |-> e.source] :
                              t \in ResourceOf(e.backend)} = {told(e)}
      <4> SUFFICES ASSUME NEW e \in live
                   PROVE  {[token |-> t, source |-> e.source] :
                             t \in ResourceOf(e.backend)} = {told(e)}
        OBVIOUS
      <4>1. PICK x : ResourceOf(e.backend) = {x}
        BY <1>7
      <4>2. (CHOOSE t \in ResourceOf(e.backend) : TRUE) = x
        BY <4>1
      <4>3. QED
        BY <4>1, <4>2
    <3> HIDE DEF told
    <3>2. delivered = {told(e) : e \in live}
      BY <3>1
    <3> HIDE DEF delivered, live
    <3>3. f \in Surjection(live, delivered)
      BY <3>2 DEF Surjection
    <3>4. QED
      BY <3>3, <2>4, FS_Surjection
  <2>6. Cardinality(delivered) + Cardinality(wakes) <= capacity
    <3>1. /\ Cardinality(delivered) \in Nat /\ Cardinality(wakes) \in Nat
          /\ Cardinality(live) \in Nat /\ Cardinality(resources) \in Nat
      BY <2>3, <2>4, <2>5, FS_CardinalityType
    <3> HIDE DEF delivered, wakes, live, resources
    <3>2. QED
      BY <3>1, <2>2, <2>3, <2>4, <2>5, <1>2
  <2>7. ~(Cardinality(delivered) + Cardinality(wakes) > capacity)
    <3>1. Cardinality(delivered) \in Nat /\ Cardinality(wakes) \in Nat
      BY <2>3, <2>5, FS_CardinalityType
    <3> HIDE DEF delivered, wakes
    <3>2. QED
      BY <2>6, <3>1, <1>2
  <2>8. QED
    BY <1>1, <2>7, Zenon DEF NoPollerPanic
<1>11. PollerTypeOK'
  <2>1. batch' \subseteq [token : ResourceTokens, source : Sources]
    <3> SUFFICES ASSUME NEW d \in delivered PROVE d \in [token : ResourceTokens, source : Sources]
      BY <1>1
    <3>1. PICK e \in live, i \in DOMAIN entries :
            d = [token |-> entries[i].resource, source |-> e.source]
      BY <1>8
    <3>2. entries[i].resource \in ResourceTokens
      BY EntryType
    <3>3. e.source \in Sources
      BY <1>4, <1>9
    <3>4. QED
      BY <3>1, <3>2, <3>3
  <2>2. pollReport' \in [result : {"none", "err", "ok"}, saturated : BOOLEAN]
    BY <1>1 DEF Saturated
  <2>3. pollerPanic' \in BOOLEAN /\ wakeRaised' \in BOOLEAN
    BY <1>1, <1>10, Zenon
  <2>4. raised' \subseteq raised
    BY <1>1
  <2>5. QED
    BY <2>1, <2>2, <2>3, <2>4, <1>2 DEF PollerTypeOK
<1>12. DeliveredToItsToken'
  <2> SUFFICES ASSUME NEW d \in delivered PROVE <<d.token, d.source>> \in bound
    BY <1>1, <1>2 DEF DeliveredToItsToken
  <2>1. PICK e \in live, i \in DOMAIN entries :
          /\ entries[i].backend = e.backend
          /\ d = [token |-> entries[i].resource, source |-> e.source]
    BY <1>8
  <2>2. QED
    BY <2>1, <1>9 DEF TiedToItsToken
<1>13. NothingLost'
  <2>1. ASSUME NEW e \in resources, NEW i \in DOMAIN entries, entries[i].backend = e.backend
        PROVE  \E d \in delivered : d.source = e.source
    <3>1. ResourceOf(e.backend) = {entries[i].resource}
      BY <2>1, OneResource
    <3>2. e \in live
      BY <3>1, <2>1 DEF Stale
    <3>3. [token |-> entries[i].resource, source |-> e.source] \in delivered
      <4> DEFINE d == [token |-> entries[i].resource, source |-> e.source]
                 told == {[token |-> t, source |-> e.source] : t \in ResourceOf(e.backend)}
      <4>1. d \in told
        BY <3>1
      <4>2. told \in {{[token |-> t, source |-> x.source] :
                         t \in ResourceOf(x.backend)} : x \in live}
        BY <3>2
      <4>3. QED
        BY <4>1, <4>2
    <3>4. QED
      BY <3>3
  <2>2. lostOf(observed) = {}
    BY <2>1
  <2>3. QED
    BY <2>2, <1>1 DEF NothingLost
<1>14. SaturationIsHonest'
  <2> SUFFICES ASSUME ~pollReport'.saturated PROVE raised' = {} /\ ~wakeRaised'
    BY DEF SaturationIsHonest
  <2>1. ~(Cardinality(observed) >= MaxEvents)
    BY <1>1 DEF Saturated
  <2>2. observed = waiting
    BY <2>1, <1>2, <1>3
  <2>3. raised \subseteq resources
    BY <2>2, <1>4
  <2>4. wakeRaised => wake \in wakes
    BY <2>2, <1>5
  <2>5. QED
    BY <2>3, <2>4, <1>1
<1>15. TiedToItsToken'
  <2>1. raised' \in SUBSET raised
    BY <1>1
  <2>2. IsFiniteSet(raised')
    BY <2>1, FS_Subset DEF TiedToItsToken
  <2>3. QED
    BY <2>1, <2>2, <1>2 DEF TiedToItsToken
<1>16. BackendsSpent'
  BY <1>1, <1>2 DEF BackendsSpent
<1>17. NoPollerPanic'
  BY <1>10 DEF NoPollerPanic
<1>18. SelectorAgrees' /\ Sorted' /\ OneEntryPerToken' /\ OneWatch'
  BY <1>2, RegistrationsKeep
<1>19. QED
  BY <1>11, <1>12, <1>13, <1>14, <1>15, <1>16, <1>17, <1>18

\* register(), whatever the selector answers.
LEMMA RegisterKeeps ==
  ASSUME PollerInv, NEW token \in ResourceTokens, NEW source \in Unwatched,
         NEW interest \in Interests, NEW accepts \in BOOLEAN,
         Register(token, source, interest, accepts)
  PROVE  PollerInv'
<1>1. CASE accepts = TRUE
  BY <1>1, RegisterAccepted
<1>2. CASE accepts = FALSE
  BY <1>2, RegisterRefused
<1>3. QED BY <1>1, <1>2

\* reregister(), whatever the selector answers.
LEMMA ReregisterKeeps ==
  ASSUME PollerInv, NEW token \in ResourceTokens, NEW source \in SourceOf(token),
         NEW interest \in Interests, NEW accepts \in BOOLEAN,
         Reregister(token, source, interest, accepts)
  PROVE  PollerInv'
<1>1. CASE accepts = TRUE
  BY <1>1, ReregisterAccepted
<1>2. CASE accepts = FALSE
  BY <1>2, PollerQuiet DEF Reregister
<1>3. QED BY <1>1, <1>2

\* deregister(), whatever the selector answers.
LEMMA DeregisterKeeps ==
  ASSUME PollerInv, NEW token \in ResourceTokens, NEW source \in SourceOf(token),
         NEW accepts \in BOOLEAN, Deregister(token, source, accepts)
  PROVE  PollerInv'
<1>1. CASE accepts = TRUE
  BY <1>1, DeregisterAccepted
<1>2. CASE accepts = FALSE
  BY <1>2, PollerQuiet DEF Deregister
<1>3. QED BY <1>1, <1>2

\* poll(), failing or not.
LEMMA PollKeeps ==
  ASSUME PollerInv, NEW capacity \in Capacities, Poll(capacity)
  PROVE  PollerInv'
  BY PollFailsKeeps, PollOnceKeeps DEF Poll

\* Events that are taken out of the destination are all that may change.
LEMMA PollerShrinks ==
  ASSUME PollerInv, batch' \subseteq batch,
         UNCHANGED <<entries, next_backend, selector, raised, wakeRaised, pollReport,
                     pollerPanic, bound, lost>>
  PROVE  PollerInv'
<1> USE DEF PollerInv, PollerSafe
<1>1. PollerTypeOK' /\ DeliveredToItsToken'
  BY DEF PollerTypeOK, DeliveredToItsToken
<1>2. NoPollerPanic' /\ SaturationIsHonest' /\ NothingLost'
  BY DEF NoPollerPanic, SaturationIsHonest, NothingLost
<1>3. BackendsSpent' /\ TiedToItsToken'
  BY DEF BackendsSpent, TiedToItsToken
<1>4. QED
  BY <1>1, <1>2, <1>3, RegistrationsKeep

\* The inductive invariant holds in every state of a poller whose owner presents,
\* for each token, the source that it registered under it.
LEMMA PollerAlways == PollerSpec => []PollerInv
<1>1. PollerInit => PollerInv
  BY PollerInitInv
<1>2. PollerInv /\ [PollerNext]_pollerVars => PollerInv'
  <2> SUFFICES ASSUME PollerInv, [PollerNext]_pollerVars
               PROVE  PollerInv'
    OBVIOUS
  <2>1. ASSUME NEW token \in ResourceTokens, NEW accepts \in BOOLEAN, NEW interest \in Interests,
               NEW source \in Unwatched,
               Register(token, source, interest, accepts)
        PROVE  PollerInv'
    BY <2>1, RegisterKeeps
  <2>2. ASSUME NEW token \in ResourceTokens, NEW accepts \in BOOLEAN, NEW interest \in Interests,
               NEW source \in SourceOf(token),
               Reregister(token, source, interest, accepts)
        PROVE  PollerInv'
    BY <2>2, ReregisterKeeps
  <2>3. ASSUME NEW token \in ResourceTokens, NEW accepts \in BOOLEAN,
               NEW source \in SourceOf(token),
               Deregister(token, source, accepts)
        PROVE  PollerInv'
    BY <2>3, DeregisterKeeps
  <2>4. ASSUME NEW watch \in selector, Raise(watch) PROVE PollerInv'
    BY <2>4, RaiseKeeps
  <2>5. CASE Pulse
    BY <2>5, PulseKeeps
  <2>6. ASSUME NEW capacity \in Capacities, Poll(capacity) PROVE PollerInv'
    BY <2>6, PollKeeps
  <2>7. CASE UNCHANGED pollerVars
    BY <2>7, PollerShrinks DEF pollerVars
  <2>8. QED
    BY <2>1, <2>2, <2>3, <2>4, <2>5, <2>6, <2>7 DEF PollerNext
<1>3. QED
  BY <1>1, <1>2, PTL DEF PollerSpec

\* For every limit, width of the backend token and behaviour of the selector: the
\* poller and the selector agree, no assertion of commit() or of the destination
\* fails, and a report that is not saturated leaves nothing waiting.
THEOREM PollerSafety == PollerSpec => []PollerSafe
<1>1. PollerInv => PollerSafe
  BY DEF PollerInv
<1>2. QED
  BY <1>1, PollerAlways, PTL

\* Whatever waits in the selector while registrations come and go, poll() delivers
\* it under the token its source was registered with.
THEOREM PollerDelivers == PollerSpec => []DeliveredToItsToken
<1>1. PollerInv => DeliveredToItsToken
  BY DEF PollerInv
<1>2. QED
  BY <1>1, PollerAlways, PTL

\* poll() drops no event of a registration that is live when it is translated.
THEOREM PollerLosesNothing == PollerSpec => []NothingLost
<1>1. PollerInv => NothingLost
  BY DEF PollerInv
<1>2. QED
  BY <1>1, PollerAlways, PTL

---------------------------------------------------------------------------
(* The owner.                                                               *)

\* Two tokens that resolve are the same when they name one slot or one resource.
LEMMA ResolvedDistinct ==
  ASSUME TableInv, NEW t \in Token, NEW u \in Token, Resolves(t), Resolves(u),
         t.slot = u.slot \/ SourceAt(t) = SourceAt(u)
  PROVE  t = u
<1>1. PICK a \in admissions : a.token = t /\ a.resource = SourceAt(t)
  BY ResolvedIsAdmitted DEF SourceAt
<1>2. PICK b \in admissions : b.token = u /\ b.resource = SourceAt(u)
  BY ResolvedIsAdmitted DEF SourceAt
<1>3. CASE SourceAt(t) = SourceAt(u)
  BY <1>1, <1>2, <1>3 DEF TableInv, AdmittedOnce
<1>4. CASE t.slot = u.slot
  BY <1>4 DEF Resolves, Token
<1>5. QED BY <1>3, <1>4

\* The token of a live slot resolves.
LEMMA LiveResolves ==
  ASSUME TableInv, NEW token \in LiveTokens
  PROVE  token \in Token /\ Resolves(token) /\ SourceAt(token) \in Resources
<1>1. PICK i \in Live : token = [owner |-> Owner, slot |-> i, generation |-> slots[i].generation]
  BY DEF LiveTokens, LiveToken
<1>2. i \in Indices /\ slots[i].kind = "occupied" /\ slots[i] \in Occupied
  BY <1>1, SlotKinds DEF TableInv, ResourceSafe, Live
<1>3. slots[i].generation \in 0..MaxGen /\ slots[i].resource \in Resources
  BY <1>2, TableAssumption DEF Occupied, Gens
<1>4. token \in Token
  BY <1>1, <1>2, <1>3, TableAssumption DEF Token, Indices
<1>5. QED
  BY <1>1, <1>2, <1>3, <1>4 DEF Resolves, SourceAt

\* Every watch of the selector is that of an entry, on its token's resource.
LEMMA WatchIsOfEntry ==
  ASSUME OwnerInv, NEW w \in selector
  PROVE  \E i \in DOMAIN entries : /\ entries[i].backend = w.backend
                                   /\ entries[i].resource \in Token
                                   /\ Resolves(entries[i].resource)
                                   /\ w.source = SourceAt(entries[i].resource)
<1> USE DEF OwnerInv, PollerInv, PollerSafe
<1>1. PICK i \in DOMAIN entries : entries[i].backend = w.backend
  BY DEF SelectorAgrees
<1>2. PICK v \in selector : /\ v.backend = entries[i].backend
                            /\ v.source = SourceAt(entries[i].resource)
  BY DEF WatchedIsLive
<1>3. v = w
  BY <1>1, <1>2 DEF OneWatch
<1>4. entries[i].resource \in Token
  BY EntryType, OwnerAssumption
<1>5. QED
  BY <1>1, <1>2, <1>3, <1>4 DEF WatchedIsLive

\* The owner registers only a source that nobody watches yet.
LEMMA OwnerRegistersUnwatched ==
  ASSUME OwnerInv, NEW token \in LiveTokens, ~Registered(token)
  PROVE  SourceAt(token) \in Unwatched
<1>1. token \in Token /\ Resolves(token) /\ SourceAt(token) \in Resources
  BY LiveResolves DEF OwnerInv
<1>2. ASSUME NEW w \in selector, w.source = SourceAt(token) PROVE FALSE
  <2>1. PICK i \in DOMAIN entries : /\ entries[i].resource \in Token
                                    /\ Resolves(entries[i].resource)
                                    /\ w.source = SourceAt(entries[i].resource)
    BY WatchIsOfEntry
  <2>2. entries[i].resource = token
    BY <2>1, <1>1, <1>2, ResolvedDistinct DEF OwnerInv
  <2>3. QED
    BY <2>2 DEF Registered
<1>3. QED
  BY <1>1, <1>2, OwnerAssumption DEF Unwatched, WatchOf

\* The owner presents for a registered token the source it registered.
LEMMA OwnerPresentsItsSource ==
  ASSUME OwnerInv, NEW token, Registered(token)
  PROVE  SourceAt(token) \in SourceOf(token)
<1>1. /\ IndexOf(token) \in DOMAIN entries
      /\ entries[IndexOf(token)].resource = token
  BY IndexOfEntry
<1>2. PICK w \in selector : w.backend = BackendOf(token) /\ w.source = SourceAt(token)
  BY <1>1 DEF OwnerInv, WatchedIsLive, BackendOf
<1>3. QED
  BY <1>2 DEF SourceOf

\* Admission leaves live slots, and what was admitted before, as they are.
LEMMA AdmitLeavesLive ==
  ASSUME TableInv, NEW identity \in Identities, Admit(identity)
  PROVE  /\ \A i \in Indices : slots[i].kind = "occupied" => slots'[i] = slots[i]
         /\ admissions \subseteq admissions'
<1>1. CASE AdmitFailure(identity) # "none"
  BY <1>1 DEF Admit
<1>2. CASE AdmitFailure(identity) = "none"
  <2>1. Occupy(identity) /\ NextVacant # {}
    BY <1>2 DEF Admit, AdmitFailure
  <2>2. Min(NextVacant) \in NextVacant
    BY <2>1, MinIsMember, TableAssumption DEF NextVacant, Indices
  <2>3. PICK i, new : /\ slots' = [slots EXCEPT ![i] = new] /\ slots[i].kind = "vacant"
                      /\ admissions \subseteq admissions'
    BY <2>1, <2>2 DEF Occupy, NextVacant
  <2>4. QED
    BY <2>3 DEF TableInv, ResourceSafe, ResourceTypeOK
<1>3. QED BY <1>1, <1>2

\* As long as live slots keep what they hold, the entries stay tied to them.
LEMMA EntriesStayLive ==
  ASSUME WatchedIsLive, UNCHANGED <<entries, selector>>,
         \A i \in Indices : slots[i].kind = "occupied" => slots'[i] = slots[i]
  PROVE  WatchedIsLive'
<1> SUFFICES ASSUME NEW i \in DOMAIN entries
             PROVE  /\ Resolves(entries[i].resource)'
                    /\ \E w \in selector : /\ w.backend = entries[i].backend
                                           /\ w.source = SourceAt(entries[i].resource)'
  BY DEF WatchedIsLive
<1>1. /\ Resolves(entries[i].resource)
      /\ \E w \in selector : /\ w.backend = entries[i].backend
                             /\ w.source = SourceAt(entries[i].resource)
  BY DEF WatchedIsLive
<1>2. slots'[entries[i].resource.slot] = slots[entries[i].resource.slot]
  BY <1>1 DEF Resolves
<1>3. QED
  BY <1>1, <1>2 DEF Resolves, SourceAt

\* admit()
LEMMA OpenKeeps ==
  ASSUME OwnerInv, NEW identity \in Identities, Open(identity)
  PROVE  OwnerInv'
<1> USE DEF OwnerInv
<1>1. Admit(identity) /\ UNCHANGED <<pollerVars, applied>>
  BY DEF Open
<1>2. TableInv'
  BY <1>1, AdmitKeeps
<1>3. PollerInv'
  BY <1>1, PollerShrinks DEF pollerVars
<1>4. /\ \A i \in Indices : slots[i].kind = "occupied" => slots'[i] = slots[i]
      /\ admissions \subseteq admissions'
  BY <1>1, AdmitLeavesLive
<1>5. WatchedIsLive'
  BY <1>1, <1>4, EntriesStayLive DEF pollerVars
<1>6. ReadinessReachesItsSource' /\ BoundIsAdmitted'
  BY <1>1, <1>4 DEF pollerVars, ReadinessReachesItsSource, BoundIsAdmitted
<1>7. QED
  BY <1>2, <1>3, <1>5, <1>6

\* get() and get_mut()
LEMMA PresentKeeps ==
  ASSUME OwnerInv, NEW token \in Token, Present(token)
  PROVE  OwnerInv'
<1> USE DEF OwnerInv
<1>1. Use(token) /\ UNCHANGED <<pollerVars, applied>> /\ UNCHANGED <<slots, admissions>>
  BY DEF Present, Use
<1>2. TableInv'
  BY <1>1, UseKeeps
<1>3. PollerInv'
  BY <1>1, PollerShrinks DEF pollerVars
<1>4. WatchedIsLive'
  BY <1>1, EntriesStayLive DEF pollerVars
<1>5. ReadinessReachesItsSource' /\ BoundIsAdmitted'
  BY <1>1 DEF pollerVars, ReadinessReachesItsSource, BoundIsAdmitted
<1>6. QED
  BY <1>2, <1>3, <1>4, <1>5

\* register() on a live resource
LEMMA WatchRegisters ==
  ASSUME OwnerInv, NEW token \in LiveTokens, NEW interest \in Interests, NEW accepts \in BOOLEAN,
         Register(token, SourceAt(token), interest, accepts),
         UNCHANGED <<resourceVars, applied>>
  PROVE  OwnerInv'
<1> USE DEF OwnerInv
<1>1. token \in Token /\ Resolves(token) /\ SourceAt(token) \in Resources
  BY LiveResolves
<1>2. SourceAt(token) \in Unwatched
  BY OwnerRegistersUnwatched DEF Register, ReserveFails
<1>3. TableInv' /\ PollerInv'
  BY <1>1, <1>2, TableUnchanged, RegisterKeeps, OwnerAssumption
<1>4. slots' = slots /\ admissions' = admissions /\ applied' = applied
  BY DEF resourceVars
<1>5. ReadinessReachesItsSource'
  BY <1>4 DEF ReadinessReachesItsSource
<1>6. CASE accepts = FALSE
  <2>1. UNCHANGED <<entries, selector, bound>>
    BY <1>6 DEF Register
  <2>2. WatchedIsLive' /\ BoundIsAdmitted'
    BY <2>1, <1>4, EntriesStayLive DEF BoundIsAdmitted
  <2>3. QED
    BY <2>2, <1>3, <1>5
<1>7. CASE accepts = TRUE
  <2>1. PICK b : /\ entries' = Append(entries, [resource |-> token, backend |-> b])
                 /\ selector' = selector \cup
                      {[backend |-> b, source |-> SourceAt(token), interest |-> interest]}
                 /\ bound' = bound \cup {<<token, SourceAt(token)>>}
    BY <1>7 DEF Register
  <2>2. BoundIsAdmitted'
    <3>1. \E a \in admissions : a.token = token /\ a.resource = SourceAt(token)
      BY <1>1, ResolvedIsAdmitted DEF SourceAt
    <3>2. QED
      BY <2>1, <3>1, <1>4 DEF BoundIsAdmitted
  <2>3. \A i \in DOMAIN entries' :
          \/ i \in DOMAIN entries /\ entries'[i] = entries[i]
          \/ entries'[i] = [resource |-> token, backend |-> b]
    BY <2>1 DEF PollerInv, PollerSafe, PollerTypeOK
  <2>4. WatchedIsLive'
    <3> SUFFICES ASSUME NEW i \in DOMAIN entries'
                 PROVE  /\ Resolves(entries'[i].resource)
                        /\ \E w \in selector' : /\ w.backend = entries'[i].backend
                                                /\ w.source = SourceAt(entries'[i].resource)
      BY <1>4 DEF WatchedIsLive, Resolves, SourceAt
    <3>1. CASE i \in DOMAIN entries /\ entries'[i] = entries[i]
      BY <3>1, <2>1 DEF WatchedIsLive
    <3>2. CASE entries'[i] = [resource |-> token, backend |-> b]
      <4> DEFINE w == [backend |-> b, source |-> SourceAt(token), interest |-> interest]
      <4>1. w \in selector' /\ w.backend = b /\ w.source = SourceAt(token)
        BY <2>1
      <4>2. entries'[i].resource = token /\ entries'[i].backend = b
        BY <3>2
      <4> HIDE DEF w
      <4>3. QED
        BY <4>1, <4>2, <1>1
    <3>3. QED BY <3>1, <3>2, <2>3
  <2>5. QED
    BY <2>2, <2>4, <1>3, <1>5
<1>8. QED BY <1>6, <1>7

\* reregister() on a live resource
LEMMA WatchReregisters ==
  ASSUME OwnerInv, NEW token \in LiveTokens, NEW interest \in Interests, NEW accepts \in BOOLEAN,
         Reregister(token, SourceAt(token), interest, accepts),
         UNCHANGED <<resourceVars, applied>>
  PROVE  OwnerInv'
<1> USE DEF OwnerInv
<1>1. token \in Token /\ Resolves(token)
  BY LiveResolves
<1>2. Registered(token) /\ UNCHANGED <<entries, bound>>
  BY DEF Reregister
<1>3. SourceAt(token) \in SourceOf(token)
  BY <1>2, OwnerPresentsItsSource
<1>4. TableInv' /\ PollerInv'
  BY <1>1, <1>3, TableUnchanged, ReregisterKeeps, OwnerAssumption
<1>5. slots' = slots /\ admissions' = admissions /\ applied' = applied
  BY DEF resourceVars
<1>6. ReadinessReachesItsSource' /\ BoundIsAdmitted'
  BY <1>2, <1>5 DEF ReadinessReachesItsSource, BoundIsAdmitted
<1>7. WatchedIsLive'
  <2> SUFFICES ASSUME NEW i \in DOMAIN entries
               PROVE  /\ Resolves(entries[i].resource)
                      /\ \E w \in selector' : /\ w.backend = entries[i].backend
                                              /\ w.source = SourceAt(entries[i].resource)
    BY <1>2, <1>5 DEF WatchedIsLive, Resolves, SourceAt
  <2>1. PICK w \in selector : /\ w.backend = entries[i].backend
                              /\ w.source = SourceAt(entries[i].resource)
    BY DEF WatchedIsLive
  <2>2. Resolves(entries[i].resource) /\ entries[i].resource \in Token
    BY EntryType, OwnerAssumption DEF WatchedIsLive, PollerInv, PollerSafe
  <2>3. CASE accepts = FALSE
    BY <2>1, <2>2, <2>3 DEF Reregister
  <2>4. CASE accepts = TRUE
    <3>1. selector' = (selector \ WatchOf(SourceAt(token))) \cup
            {[backend |-> BackendOf(token), source |-> SourceAt(token),
              interest |-> interest]}
      BY <2>4 DEF Reregister
    <3>2. CASE entries[i].resource = token
      <4>1. i = IndexOf(token)
        BY <3>2, <1>2, IndexOfEntry DEF PollerInv, OneEntryPerToken
      <4> DEFINE v == [backend |-> BackendOf(token), source |-> SourceAt(token),
                       interest |-> interest]
      <4>2. v \in selector' /\ v.source = SourceAt(token) /\ v.backend = BackendOf(token)
        BY <3>1
      <4>3. BackendOf(token) = entries[i].backend
        BY <4>1 DEF BackendOf
      <4> HIDE DEF v
      <4>4. QED
        BY <4>2, <4>3, <3>2, <2>2
    <3>3. CASE entries[i].resource # token
      <4>1. w.source # SourceAt(token)
        BY <3>3, <2>1, <2>2, <1>1, ResolvedDistinct
      <4>2. QED
        BY <4>1, <3>1, <2>1, <2>2 DEF WatchOf
    <3>4. QED BY <3>2, <3>3
  <2>5. QED BY <2>3, <2>4
<1>8. QED
  BY <1>4, <1>6, <1>7

\* What is left of the entries after a deregistration are other tokens' entries.
LEMMA DeregisterLeavesOthers ==
  ASSUME PollerInv, NEW token, NEW source, Deregister(token, source, TRUE),
         NEW j \in DOMAIN entries'
  PROVE  \E i \in DOMAIN entries : entries'[j] = entries[i] /\ entries[i].resource # token
<1> USE DEF PollerInv, PollerSafe
<1> DEFINE Entry == [resource : Token, backend : Backends]
           n == Len(entries)
<1>1. PICK k \in DOMAIN entries : /\ k = IndexOf(token) /\ entries[k].resource = token
  BY IndexOfEntry DEF Deregister
<1>2. entries' = Vec!RemoveAt(entries, k)
  BY <1>1 DEF Deregister, Without
<1>3. /\ entries \in Seq(Entry) /\ n \in Nat /\ DOMAIN entries = 1..n /\ k \in 1..n
  BY EntryType, OwnerAssumption DEF PollerTypeOK
<1> HIDE DEF Entry
<1>4. /\ entries' \in Seq(Entry) /\ Len(entries') = n - 1
      /\ \A i \in 1..(n - 1) : entries'[i] = IF i < k THEN entries[i] ELSE entries[i + 1]
  BY <1>2, <1>3, RemoveAtFacts
<1>5. j \in 1..(n - 1)
  BY <1>3, <1>4
<1>6. PICK i \in 1..n : i # k /\ entries'[j] = entries[i]
  BY <1>3, <1>4, <1>5
<1>7. entries[i].resource # token
  BY <1>1, <1>3, <1>6 DEF OneEntryPerToken
<1>8. QED
  BY <1>3, <1>6, <1>7

\* deregister() and, when that succeeded, remove()
LEMMA CloseKeeps ==
  ASSUME OwnerInv, NEW token \in LiveTokens, Close(token)
  PROVE  OwnerInv'
<1> USE DEF OwnerInv
<1>1. token \in Token /\ Resolves(token)
  BY LiveResolves
<1>2. applied' = applied /\ CloseBoth(token, SourceAt(token))
  BY DEF Close
<1>3. Registered(token) /\ bound' = bound
  BY <1>2 DEF CloseBoth, Deregister
<1>4. SourceAt(token) \in SourceOf(token)
  BY <1>3, OwnerPresentsItsSource
<1>5. PollerInv'
  BY <1>1, <1>2, <1>4, DeregisterKeeps, OwnerAssumption DEF CloseBoth
<1>6. ReadinessReachesItsSource'
  BY <1>2 DEF ReadinessReachesItsSource
<1>7. CASE Deregister(token, SourceAt(token), FALSE) /\ UNCHANGED resourceVars
  <2>1. UNCHANGED <<entries, selector>> /\ slots' = slots /\ admissions' = admissions
    BY <1>7 DEF Deregister, resourceVars
  <2>2. WatchedIsLive'
    BY <2>1, EntriesStayLive
  <2>3. TableInv' /\ BoundIsAdmitted'
    BY <2>1, <1>3, <1>7, TableUnchanged DEF BoundIsAdmitted
  <2>4. QED
    BY <2>2, <2>3, <1>5, <1>6
<1>8. CASE Deregister(token, SourceAt(token), TRUE) /\ Remove(token)
  <2>1. TableInv'
    BY <1>1, <1>8, RemoveKeeps
  <2>2. admissions' = admissions
    BY <1>8 DEF Remove
  <2>3. BoundIsAdmitted'
    BY <2>2, <1>3 DEF BoundIsAdmitted
  <2>4. \A k \in Indices : k # token.slot => slots'[k] = slots[k]
    BY <1>8 DEF Remove, Retire, TableInv, ResourceSafe, ResourceTypeOK
  <2>5. selector' = selector \ WatchOf(SourceAt(token))
    BY <1>8 DEF Deregister
  <2>6. WatchedIsLive'
    <3> SUFFICES ASSUME NEW j \in DOMAIN entries'
                 PROVE  /\ Resolves(entries[j].resource)'
                        /\ \E w \in selector' : /\ w.backend = entries'[j].backend
                                                /\ w.source = SourceAt(entries[j].resource)'
      BY DEF WatchedIsLive
    <3>1. PICK i \in DOMAIN entries : entries'[j] = entries[i] /\ entries[i].resource # token
      BY <1>8, DeregisterLeavesOthers
    <3>2. /\ Resolves(entries[i].resource) /\ entries[i].resource \in Token
      BY EntryType, OwnerAssumption DEF WatchedIsLive, PollerInv, PollerSafe
    <3>3. PICK w \in selector : /\ w.backend = entries[i].backend
                                /\ w.source = SourceAt(entries[i].resource)
      BY DEF WatchedIsLive
    <3>4. entries[i].resource.slot # token.slot /\ w.source # SourceAt(token)
      BY <3>1, <3>2, <3>3, <1>1, ResolvedDistinct
    <3>5. slots'[entries[i].resource.slot] = slots[entries[i].resource.slot]
      BY <3>2, <3>4, <2>4 DEF Resolves
    <3>6. w \in selector'
      BY <3>4, <2>5 DEF WatchOf
    <3>7. Resolves(entries[j].resource)'
      BY <3>1, <3>2, <3>5 DEF Resolves
    <3>8. SourceAt(entries[j].resource)' = SourceAt(entries[i].resource)
      BY <3>1, <3>5 DEF SourceAt
    <3>9. QED
      BY <3>1, <3>3, <3>6, <3>7, <3>8
  <2>7. QED
    BY <2>1, <2>3, <2>6, <1>5, <1>6
<1>9. QED
  BY <1>2, <1>7, <1>8 DEF CloseBoth

\* poll(), and what the selector and the holders of wake handles do, leave the
\* registrations and the table alone.
LEMMA ElsewhereKeeps ==
  ASSUME OwnerInv, PollerInv', UNCHANGED <<resourceVars, applied>>,
         UNCHANGED <<entries, selector, bound>>
  PROVE  OwnerInv'
<1> USE DEF OwnerInv
<1>1. TableInv'
  BY TableUnchanged
<1>2. slots' = slots /\ admissions' = admissions
  BY DEF resourceVars
<1>3. WatchedIsLive'
  BY <1>2, EntriesStayLive
<1>4. ReadinessReachesItsSource' /\ BoundIsAdmitted'
  BY <1>2 DEF ReadinessReachesItsSource, BoundIsAdmitted
<1>5. QED
  BY <1>1, <1>3, <1>4

\* One event: its token names the admission whose source raised it, so if it still
\* resolves it resolves to that very source.
LEMMA IngestKeeps ==
  ASSUME OwnerInv, NEW event \in batch, Ingest(event)
  PROVE  OwnerInv'
<1> USE DEF OwnerInv
<1>1. /\ batch' = batch \ {event}
      /\ UNCHANGED <<entries, next_backend, selector, raised, wakeRaised, pollReport,
                     pollerPanic, bound, lost>>
  BY DEF Ingest
<1>2. PollerInv'
  BY <1>1, PollerShrinks
<1>3. event.token \in Token /\ <<event.token, event.source>> \in bound
  BY OwnerAssumption DEF PollerInv, PollerSafe, PollerTypeOK, DeliveredToItsToken
<1>4. CASE Resolves(event.token)
  <2>1. /\ Use(event.token)
        /\ applied' = applied \cup {<<SourceAt(event.token), event.source>>}
    BY <1>4 DEF Ingest
  <2>2. slots' = slots /\ admissions' = admissions
    BY <2>1 DEF Use
  <2>3. TableInv'
    BY <2>1, <1>3, UseKeeps
  <2>4. WatchedIsLive' /\ BoundIsAdmitted'
    BY <2>2, <1>1, EntriesStayLive DEF BoundIsAdmitted
  <2>5. PICK a \in admissions : a.token = event.token /\ a.resource = event.source
    BY <1>3 DEF BoundIsAdmitted
  <2>6. PICK b \in admissions : b.token = event.token /\ b.resource = SourceAt(event.token)
    BY <1>3, <1>4, ResolvedIsAdmitted DEF SourceAt
  <2>7. a = b
    BY <2>5, <2>6 DEF TableInv, ResourceSafe, TokenIsExact
  <2>8. ReadinessReachesItsSource'
    BY <2>1, <2>5, <2>6, <2>7 DEF ReadinessReachesItsSource
  <2>9. QED
    BY <2>3, <2>4, <2>8, <1>2
<1>5. CASE ~Resolves(event.token)
  BY <1>1, <1>2, <1>5, ElsewhereKeeps DEF Ingest
<1>6. QED BY <1>4, <1>5

\* The owner's inductive invariant holds in every state.
LEMMA OwnerAlways == OwnerSpec => []OwnerInv
<1>1. OwnerInit => OwnerInv
  <2> SUFFICES ASSUME OwnerInit PROVE OwnerInv
    OBVIOUS
  <2>1. TableInv /\ PollerInv
    BY TableInitInv, PollerInitInv DEF OwnerInit
  <2>2. ReadinessReachesItsSource /\ WatchedIsLive /\ BoundIsAdmitted
    BY DEF OwnerInit, PollerInit, ReadinessReachesItsSource, WatchedIsLive,
           BoundIsAdmitted
  <2>3. QED
    BY <2>1, <2>2 DEF OwnerInv
<1>2. OwnerInv /\ [OwnerNext]_ownerVars => OwnerInv'
  <2> SUFFICES ASSUME OwnerInv, [OwnerNext]_ownerVars PROVE OwnerInv'
    OBVIOUS
  <2>1. ASSUME NEW identity \in Identities, Open(identity) PROVE OwnerInv'
    BY <2>1, OpenKeeps
  <2>2. ASSUME NEW token \in Token, Present(token) PROVE OwnerInv'
    BY <2>2, PresentKeeps
  <2>3. ASSUME NEW token \in LiveTokens, NEW interest \in Interests, NEW accepts \in BOOLEAN,
               Watch(token, interest, accepts)
        PROVE  OwnerInv'
    BY <2>3, WatchRegisters, WatchReregisters DEF Watch
  <2>4. ASSUME NEW token \in LiveTokens, Close(token) PROVE OwnerInv'
    BY <2>4, CloseKeeps
  <2>5. ASSUME NEW capacity \in Capacities, WaitForIo(capacity) PROVE OwnerInv'
    <3>1. Poll(capacity) /\ UNCHANGED <<resourceVars, applied>>
      BY <2>5 DEF WaitForIo
    <3>2. PollerInv'
      BY <3>1, <2>5, PollKeeps DEF OwnerInv
    <3>3. UNCHANGED <<entries, selector, bound>>
      BY <3>1 DEF Poll, PollFails, PollOnce
    <3>4. QED
      BY <3>1, <3>2, <3>3, ElsewhereKeeps
  <2>6. ASSUME NEW event \in batch, Ingest(event) PROVE OwnerInv'
    BY <2>6, IngestKeeps
  <2>7. CASE Outside
    <3>1. UNCHANGED <<entries, selector, bound>> /\ UNCHANGED <<resourceVars, applied>>
      BY <2>7 DEF Outside, Raise, Pulse
    <3>2. PollerInv'
      BY <2>7, RaiseKeeps, PulseKeeps DEF Outside, OwnerInv
    <3>3. QED
      BY <3>1, <3>2, ElsewhereKeeps
  <2>8. CASE UNCHANGED ownerVars
    <3>1. /\ UNCHANGED <<resourceVars, applied>> /\ batch' = batch
          /\ UNCHANGED <<entries, next_backend, selector, raised, wakeRaised, pollReport,
                         pollerPanic, bound, lost>>
      BY <2>8 DEF ownerVars, pollerVars
    <3>2. PollerInv'
      BY <3>1, PollerShrinks DEF OwnerInv
    <3>3. QED
      BY <3>1, <3>2, ElsewhereKeeps
  <2>9. QED
    BY <2>1, <2>2, <2>3, <2>4, <2>5, <2>6, <2>7, <2>8 DEF OwnerNext
<1>3. QED
  BY <1>1, <1>2, PTL DEF OwnerSpec

\* For every capacity and generation width: the table's counters agree with its
\* slots, its refusals are honest, and a token, however stale or made up, only
\* ever resolves to the resource it was issued for.
THEOREM ResourceSafety == OwnerSpec => []ResourceSafe
<1>1. OwnerInv => ResourceSafe
  BY DEF OwnerInv, TableInv
<1>2. QED
  BY <1>1, OwnerAlways, PTL

\* However late an event is ingested and whatever was closed and opened since it
\* was raised, the resource that is told owns the source that was ready.
THEOREM OwnerTellsTheRightSource == OwnerSpec => []ReadinessReachesItsSource
<1>1. OwnerInv => ReadinessReachesItsSource
  BY DEF OwnerInv
<1>2. QED
  BY <1>1, OwnerAlways, PTL

\* deregister() before remove() leaves no registration of a resource that is gone.
THEOREM OwnerWatchesLive == OwnerSpec => []WatchedIsLive
<1>1. OwnerInv => WatchedIsLive
  BY DEF OwnerInv
<1>2. QED
  BY <1>1, OwnerAlways, PTL

\* The poller keeps its promises to this owner too, whose calls are guided by the
\* table and not by what the selector watches.
THEOREM OwnerPollerSafe ==
  OwnerSpec => [](PollerSafe /\ DeliveredToItsToken /\ NothingLost)
<1>1. OwnerInv => PollerSafe /\ DeliveredToItsToken /\ NothingLost
  BY DEF OwnerInv, PollerInv
<1>2. QED
  BY <1>1, OwnerAlways, PTL

===========================================================================
