--------------------------- MODULE ResourceTable ---------------------------
(***************************************************************************)
(* Bounded generational slots (crates/calandria/src/resource).  A token is *)
(* an owner, a slot and a generation; a slot that was vacated comes back   *)
(* with the next generation, and is retired when there is none.            *)
(*                                                                         *)
(* Every operation that changes state takes &mut self, so it is one        *)
(* action.  Tokens are copyable and their constructor is public: any token *)
(* may be presented at any time.  ReadinessOwner runs these operations.    *)
(***************************************************************************)
EXTENDS Naturals, FiniteSets, FiniteSetsExt

CONSTANTS
  Owner,         \* ResourceTable.owner
  Owners,        \* the owners whose tokens may meet this table's
  Capacity,      \* the slot count
  FirstGen,      \* starting_at's generation floor
  MaxGen,        \* ResourceGeneration::MAX
  SlotIds,       \* the slot identities a token may carry, in bounds or not
  Identities,    \* K
  MaxAdmissions  \* bound: how often the owner calls admit() successfully

ASSUME TableAssumption ==
  /\ Owner \in Owners
  /\ Capacity \in Nat \ {0} /\ MaxAdmissions \in Nat
  /\ MaxGen \in Nat /\ FirstGen \in 0..MaxGen
  /\ SlotIds \subseteq Nat /\ 0..(Capacity - 1) \subseteq SlotIds

VARIABLES
  slots,         \* Vec<Slot<K, R>>
  active,        \* usize
  exhausted,     \* usize
  answer,        \* what the last admit() answered
  admissions,    \* history: the token, identity and resource of every admission
  uses           \* history: <<token, resource>> that get, get_mut and remove resolved

resourceVars == <<slots, active, exhausted, answer, admissions, uses>>

Indices == 0..(Capacity - 1)
Gens == FirstGen..MaxGen
Token == [owner : Owners, slot : SlotIds, generation : 0..MaxGen]

\* A resource is the number of its admission: no two admissions own the same.
Resources == 1..MaxAdmissions
Occupied == [kind : {"occupied"}, generation : Gens, identity : Identities, resource : Resources]
Vacant == [kind : {"vacant"}, generation : Gens]
Exhausted == [kind |-> "exhausted"]

ResourceInit ==
  /\ slots = [i \in Indices |-> [kind |-> "vacant", generation |-> FirstGen]]
  /\ active = 0
  /\ exhausted = 0
  /\ answer = "none"
  /\ admissions = {}
  /\ uses = {}

---------------------------------------------------------------------------
(* Plausible mistakes in this code, substituted one at a time for the      *)
(* definition they are named after to show that the properties notice.     *)

\* The generation wraps instead of retiring the slot.
RetireWraps(i) ==
  /\ slots' = [slots EXCEPT ![i] =
       [kind |-> "vacant", generation |-> (slots[i].generation + 1) % (MaxGen + 1)]]
  /\ UNCHANGED exhausted

\* The generation is not compared.
ResolvesAnyGeneration(token) ==
  /\ token.owner = Owner
  /\ token.slot \in Indices
  /\ slots[token.slot].kind = "occupied"

---------------------------------------------------------------------------
(* Helpers                                                                 *)

Live == {i \in Indices : slots[i].kind = "occupied"}

\* The token of a live slot.
LiveToken(i) == [owner |-> Owner, slot |-> i, generation |-> slots[i].generation]

ContainsIdentity(identity) == \E i \in Live : slots[i].identity = identity

\* next_vacant(): the candidates; the first one is taken.
NextVacant == {i \in Indices : slots[i].kind = "vacant"}

\* validate_token(): the owner, the slot and the generation.  The failures it
\* tells apart change nothing.
Resolves(token) ==
  /\ token.owner = Owner
  /\ token.slot \in Indices
  /\ slots[token.slot].kind = "occupied"
  /\ slots[token.slot].generation = token.generation

---------------------------------------------------------------------------
(* Operations                                                              *)

AdmissionFailures == {"in_use", "capacity", "token_space"}
AdmitFailure(identity) ==
  IF ContainsIdentity(identity) THEN "in_use"
  ELSE IF active = Capacity THEN "capacity"
  ELSE IF NextVacant = {} THEN "token_space"
  ELSE "none"

Occupy(identity) ==
  LET i        == Min(NextVacant)
      token    == [owner |-> Owner, slot |-> i, generation |-> slots[i].generation]
      resource == Cardinality(admissions) + 1
  IN /\ slots' = [slots EXCEPT ![i] =
          [kind |-> "occupied", generation |-> slots[i].generation,
           identity |-> identity, resource |-> resource]]
     /\ active' = active + 1
     /\ admissions' = admissions \cup
          {[token |-> token, identity |-> identity, resource |-> resource]}
     /\ UNCHANGED <<exhausted, uses>>

Admit(identity) ==
  /\ Cardinality(admissions) < MaxAdmissions
  /\ answer' = AdmitFailure(identity)
  /\ IF AdmitFailure(identity) = "none"
     THEN Occupy(identity)
     ELSE UNCHANGED <<slots, active, exhausted, admissions, uses>>

\* get() and get_mut() by a token that resolves; the others answer the failure.
Use(token) ==
  /\ Resolves(token)
  /\ uses' = uses \cup {<<token, slots[token.slot].resource>>}
  /\ answer' = "none"
  /\ UNCHANGED <<slots, active, exhausted, admissions>>

\* The slot moves to its next generation, or is retired when it has none.
Retire(i) ==
  IF slots[i].generation < MaxGen
  THEN /\ slots' = [slots EXCEPT ![i] =
            [kind |-> "vacant", generation |-> slots[i].generation + 1]]
       /\ UNCHANGED exhausted
  ELSE /\ slots' = [slots EXCEPT ![i] = Exhausted]
       /\ exhausted' = exhausted + 1

Remove(token) ==
  /\ Resolves(token)
  /\ active' = active - 1
  /\ Retire(token.slot)
  /\ uses' = uses \cup {<<token, slots[token.slot].resource>>}
  /\ answer' = "none"
  /\ UNCHANGED admissions

---------------------------------------------------------------------------
(* Properties                                                              *)

ResourceTypeOK ==
  /\ slots \in [Indices -> Occupied \cup Vacant \cup {Exhausted}]
  /\ active \in 0..Capacity
  /\ exhausted \in 0..Capacity
  /\ answer \in {"none"} \cup AdmissionFailures
  /\ admissions \subseteq [token : Token, identity : Identities, resource : Resources]
  /\ uses \subseteq Token \X Resources

\* The two counters agree with the slots, so neither remove() nor snapshot(),
\* which subtracts both from the capacity, can panic.
SlotCounts ==
  /\ active = Cardinality(Live)
  /\ exhausted = Cardinality({i \in Indices : slots[i].kind = "exhausted"})

\* A token names one admission for ever: it is never issued again, and whatever
\* get, get_mut or remove resolve by it, forged or long stale, is the resource it
\* was issued for.
TokenIsExact ==
  /\ \A a, b \in admissions : a.token = b.token => a = b
  /\ \A u \in uses : \E a \in admissions : a.token = u[1] /\ a.resource = u[2]

\* Live identities are distinct, so token_for() names one resource.
LiveIdentitiesDistinct ==
  \A i, j \in Live : slots[i].identity = slots[j].identity => i = j

\* admit() refuses for want of room only when every slot is live, and for want of
\* tokens only when every slot that is not live is retired.
RefusalIsHonest ==
  /\ answer = "capacity" => Live = Indices
  /\ answer = "token_space" => \A i \in Indices \ Live : slots[i].kind = "exhausted"

\* Admission, refusal, reuse and retirement keep the table coherent, and every
\* token names one admission for ever, whichever tokens are presented meanwhile.
ResourceSafe ==
  /\ ResourceTypeOK /\ SlotCounts /\ TokenIsExact
  /\ LiveIdentitiesDistinct /\ RefusalIsHonest

---------------------------------------------------------------------------
(* The inductive invariant behind ResourceSafe.                            *)

\* A slot's generation only grows, and a vacant one is new to every token.
GenerationsSpent ==
  \A a \in admissions :
    /\ a.token.owner = Owner /\ a.token.slot \in Indices
    /\ slots[a.token.slot].kind = "vacant" => a.token.generation < slots[a.token.slot].generation
    /\ slots[a.token.slot].kind = "occupied" => a.token.generation <= slots[a.token.slot].generation

\* What a live slot holds is what was admitted under its token.
LiveIsAdmitted ==
  \A i \in Live : [token |-> LiveToken(i), identity |-> slots[i].identity,
                   resource |-> slots[i].resource] \in admissions

\* No resource is admitted twice.
AdmittedOnce ==
  /\ IsFiniteSet(admissions)
  /\ \A a \in admissions : a.resource <= Cardinality(admissions)
  /\ \A a, b \in admissions : a.resource = b.resource => a = b

TableInv == ResourceSafe /\ GenerationsSpent /\ LiveIsAdmitted /\ AdmittedOnce

===========================================================================
