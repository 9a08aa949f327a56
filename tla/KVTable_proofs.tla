--------------------------- MODULE KVTable_proofs ---------------------------
(***************************************************************************)
(* What setParam, deleteParam and getParam do to a table without duplicate *)
(* keys, for a table of any size.  The machines that use the table cite    *)
(* these lemmas instead of opening its definitions.                        *)
(***************************************************************************)
EXTENDS KVTable, FiniteSetTheorems, TLAPS

(* A table as the code keeps it: well formed, and no key in two live slots. *)
Sound(kv) == kv \in Table /\ Distinct(kv)

(* Slot by slot, a sound table is what its fields say. *)
LEMMA TableShape ==
  ASSUME NEW kv \in Table
  PROVE  /\ kv.entry_count \in 0 .. MAX_ENTRIES
         /\ kv.entries \in [Slots -> Pair]
         /\ kv = [entry_count |-> kv.entry_count, entries |-> kv.entries]
         /\ Live(kv) \subseteq Slots
         /\ \A i \in Slots : /\ kv.entries[i] \in Pair
                             /\ kv.entries[i].key \in Keys
                             /\ kv.entries[i].value \in Values
  BY TableAssumption DEF Table, Live, Slots, Pair

(* After memset the table is sound and holds nothing. *)
LEMMA ClearedSound ==
  /\ Sound(Cleared)
  /\ Cleared.entry_count = 0
  /\ Live(Cleared) = {}
  /\ \A k : ~Holds(Cleared, k)
<1>1. Cleared \in Table
  BY TableAssumption DEF Cleared, Table, Slots, Pair
<1>2. Cleared.entry_count = 0 /\ Live(Cleared) = {}
  BY DEF Cleared, Live
<1>3. Distinct(Cleared) /\ \A k : ~Holds(Cleared, k)
  BY <1>2 DEF Distinct, Holds, Matches
<1> QED  BY <1>1, <1>2, <1>3 DEF Sound

(* The scan for a key that is there ends at its one slot. *)
LEMMA IndexIsTheMatch ==
  ASSUME NEW kv, Sound(kv), NEW i \in Live(kv), NEW k, kv.entries[i].key = k
  PROVE  IndexOf(kv, k) = i /\ Holds(kv, k)
<1>1. i \in Matches(kv, k)
  BY DEF Matches
<1>2. \A j \in Matches(kv, k) : j = i
  BY DEF Matches, Sound, Distinct
<1>3. i \in Int
  BY DEF Live
<1>4. \A j \in Matches(kv, k) : i <= j
  BY <1>2, <1>3
<1>5. IndexOf(kv, k) \in Matches(kv, k)
  BY <1>1, <1>4 DEF IndexOf
<1> QED  BY <1>1, <1>2, <1>5 DEF Holds

LEMMA IndexOfHeld ==
  ASSUME NEW kv, Sound(kv), NEW k, Holds(kv, k)
  PROVE  /\ IndexOf(kv, k) \in Live(kv)
         /\ IndexOf(kv, k) \in Slots
         /\ kv.entries[IndexOf(kv, k)].key = k
<1>1. PICK i \in Matches(kv, k) : TRUE
  BY DEF Holds
<1>2. i \in Live(kv) /\ kv.entries[i].key = k
  BY DEF Matches
<1>3. IndexOf(kv, k) = i
  BY <1>2, IndexIsTheMatch
<1> QED  BY <1>2, <1>3, TableShape DEF Sound

(* getParam answers what the slot of the key holds. *)
LEMMA GetParamOfSlot ==
  ASSUME NEW kv, Sound(kv), NEW i \in Live(kv)
  PROVE  GetParam(kv, kv.entries[i].key) = kv.entries[i].value
  BY IndexIsTheMatch DEF GetParam

LEMMA StoredMeansHeld ==
  ASSUME NEW kv, NEW k
  PROVE  k \in StoredKeys(kv) <=> Holds(kv, k)
  BY DEF StoredKeys, Holds, Matches

LEMMA GetParamType ==
  ASSUME NEW kv, Sound(kv), NEW k
  PROVE  GetParam(kv, k) \in Values
  BY IndexOfHeld, TableShape, TableAssumption DEF GetParam, Sound

-----------------------------------------------------------------------------
(* new is kv with the pair written to slot m, and m live. *)
Wrote(kv, new, m, k, v) ==
  /\ new \in Table
  /\ m \in Slots
  /\ Live(new) = Live(kv) \cup {m}
  /\ \A i \in Slots : new.entries[i] = IF i = m THEN [key |-> k, value |-> v]
                                              ELSE kv.entries[i]

(* setParam on a key the table holds: one slot's value changes. *)
LEMMA UpdateShape ==
  ASSUME NEW kv, Sound(kv), NEW k \in Keys, NEW v \in Values, Holds(kv, k),
         NEW new, new = Update(kv, k, v)
  PROVE  Wrote(kv, new, IndexOf(kv, k), k, v)
<1> DEFINE n == IndexOf(kv, k)
<1>1. n \in Slots /\ n \in Live(kv) /\ kv.entries[n].key = k
  BY IndexOfHeld
<1>2. kv \in Table
  BY DEF Sound
<1>3. new = [entry_count |-> kv.entry_count,
             entries |-> [kv.entries EXCEPT ![n].value = v]]
  BY <1>2, TableShape DEF Update
<1>4. [kv.entries[n] EXCEPT !.value = v] = [key |-> k, value |-> v]
  BY <1>1, <1>2, TableShape DEF Pair
<1>5. \A i \in Slots : new.entries[i] =
        IF i = n THEN [key |-> k, value |-> v] ELSE kv.entries[i]
  BY <1>1, <1>2, <1>3, <1>4, TableShape
<1>6. new.entries \in [Slots -> Pair]
  BY <1>1, <1>2, <1>3, <1>4, TableShape DEF Pair
<1>7. new \in Table /\ Live(new) = Live(kv)
  BY <1>2, <1>3, <1>6, TableShape DEF Table, Live
<1> QED  BY <1>1, <1>5, <1>7 DEF Wrote

(* setParam on a new key: the first free slot is filled. *)
LEMMA InsertShape ==
  ASSUME NEW kv, Sound(kv), NEW k \in Keys, NEW v \in Values,
         kv.entry_count < MAX_ENTRIES,
         NEW new, new = Insert(kv, k, v)
  PROVE  Wrote(kv, new, kv.entry_count, k, v)
<1> DEFINE n == kv.entry_count
<1>1. kv \in Table
  BY DEF Sound
<1>2. n \in Nat /\ n \in Slots /\ n + 1 \in 0 .. MAX_ENTRIES
  BY <1>1, TableShape, TableAssumption DEF Slots
<1>3. /\ new.entry_count = n + 1
      /\ new.entries = [kv.entries EXCEPT ![n] = [key |-> k, value |-> v]]
      /\ new = [entry_count |-> new.entry_count, entries |-> new.entries]
  BY DEF Insert
<1>4. Live(new) = Live(kv) \cup {n}
  BY <1>2, <1>3 DEF Live
<1>5. \A i \in Slots : new.entries[i] =
        IF i = n THEN [key |-> k, value |-> v] ELSE kv.entries[i]
  BY <1>1, <1>3, TableShape
<1>6. new.entries \in [Slots -> Pair]
  BY <1>1, <1>2, <1>3, TableShape DEF Pair
<1>7. new \in Table
  BY <1>2, <1>3, <1>6 DEF Table
<1> QED  BY <1>2, <1>4, <1>5, <1>7 DEF Wrote

-----------------------------------------------------------------------------
(* An accepted setParam writes one slot, the key's own or the first free one. *)
LEMMA SetParamShape ==
  ASSUME NEW kv, Sound(kv), NEW k \in Keys, NEW v \in Values,
         SetAccepted(kv, k, v), NEW new, new = SetParam(kv, k, v)
  PROVE  \E m \in Slots : /\ Wrote(kv, new, m, k, v)
                          /\ IF m \in Live(kv) THEN kv.entries[m].key = k
                                               ELSE ~Holds(kv, k)
<1>1. CASE Holds(kv, k)
  <2>1. Wrote(kv, new, IndexOf(kv, k), k, v)
    BY <1>1, UpdateShape DEF SetParam
  <2> QED  BY <1>1, <2>1, IndexOfHeld
<1>2. CASE ~Holds(kv, k)
  <2>1. Wrote(kv, new, kv.entry_count, k, v)
    BY <1>2, InsertShape DEF SetParam, SetAccepted
  <2>2. kv.entry_count \notin Live(kv)
    BY TableShape DEF Sound, Live
  <2> QED  BY <1>2, <2>1, <2>2 DEF Wrote
<1> QED  BY <1>1, <1>2

(* setParam never stores a key twice, and never overruns the table. *)
LEMMA SetParamSound ==
  ASSUME NEW kv, Sound(kv), NEW k \in Keys, NEW v \in Values,
         NEW new, new = SetParam(kv, k, v)
  PROVE  Sound(new)
<1>1. CASE ~SetAccepted(kv, k, v)
  BY <1>1 DEF SetParam
<1>2. CASE SetAccepted(kv, k, v)
  <2>1. PICK m \in Slots :
          /\ Wrote(kv, new, m, k, v)
          /\ IF m \in Live(kv) THEN kv.entries[m].key = k
                               ELSE ~Holds(kv, k)
    BY <1>2, SetParamShape
  <2>2. /\ Live(kv) \subseteq Slots
        /\ Live(new) = Live(kv) \cup {m}
        /\ new.entries[m].key = k
        /\ \A i \in Slots \ {m} : new.entries[i] = kv.entries[i]
    BY <2>1, TableShape DEF Sound, Wrote
  <2>3. ASSUME NEW i \in Live(new), i # m
        PROVE  /\ i \in Live(kv)
               /\ new.entries[i].key = kv.entries[i].key
               /\ new.entries[i].key # k
    <3>1. i \in Live(kv) /\ new.entries[i].key = kv.entries[i].key
      BY <2>1, <2>2, <2>3
    <3>2. CASE m \in Live(kv)
      BY <2>1, <2>3, <3>1, <3>2 DEF Sound, Distinct
    <3>3. CASE m \notin Live(kv)
      BY <2>1, <3>1, <3>3 DEF Holds, Matches
    <3> QED  BY <3>1, <3>2, <3>3
  <2>4. ASSUME NEW i \in Live(new), NEW j \in Live(new),
               new.entries[i].key = new.entries[j].key
        PROVE  i = j
    <3>1. CASE i = m \/ j = m
      BY <2>2, <2>3, <2>4, <3>1
    <3>2. CASE i # m /\ j # m
      BY <2>3, <2>4, <3>2 DEF Sound, Distinct
    <3> QED  BY <3>1, <3>2
  <2> QED  BY <2>1, <2>4 DEF Sound, Distinct, Wrote
<1> QED  BY <1>1, <1>2

(* An accepted setParam is read back, and no other key reads differently. *)
LEMMA SetParamReadBack ==
  ASSUME NEW kv, Sound(kv), NEW k \in Keys, NEW v \in Values,
         SetAccepted(kv, k, v), NEW new, new = SetParam(kv, k, v)
  PROVE  /\ StoredKeys(new) = StoredKeys(kv) \cup {k}
         /\ GetParam(new, k) = v
         /\ \A x : x # k => GetParam(new, x) = GetParam(kv, x)
<1>1. PICK m \in Slots :
        /\ Wrote(kv, new, m, k, v)
        /\ m \in Live(kv) => kv.entries[m].key = k
  BY SetParamShape
<1>2. /\ Live(kv) \subseteq Slots
      /\ Live(new) = Live(kv) \cup {m}
      /\ new.entries[m].key = k
      /\ new.entries[m].value = v
      /\ \A i \in Slots \ {m} : new.entries[i] = kv.entries[i]
  BY <1>1, TableShape DEF Sound, Wrote
<1>3. Sound(new)
  BY SetParamSound
<1>4. StoredKeys(new) = StoredKeys(kv) \cup {k}
  BY <1>1, <1>2 DEF StoredKeys
<1>5. GetParam(new, k) = v
  <2>1. m \in Live(new)
    BY <1>2
  <2> QED  BY <1>2, <1>3, <2>1, GetParamOfSlot
<1>6. ASSUME NEW x, x # k
      PROVE  GetParam(new, x) = GetParam(kv, x)
  <2>1. CASE Holds(kv, x)
    <3>1. PICK i \in Live(kv) : kv.entries[i].key = x
      BY <2>1 DEF Holds, Matches
    <3>2. i # m /\ i \in Live(new) /\ new.entries[i] = kv.entries[i]
      BY <1>1, <1>2, <1>6, <3>1
    <3>3. GetParam(kv, x) = kv.entries[i].value
      BY <3>1, GetParamOfSlot
    <3>4. GetParam(new, x) = new.entries[i].value
      BY <1>3, <3>1, <3>2, GetParamOfSlot
    <3> QED  BY <3>2, <3>3, <3>4
  <2>2. CASE ~Holds(kv, x)
    <3>1. ~Holds(new, x)
      BY <1>4, <1>6, <2>2, StoredMeansHeld
    <3> QED  BY <2>2, <3>1 DEF GetParam
  <2> QED  BY <2>1, <2>2
<1> QED  BY <1>4, <1>5, <1>6

-----------------------------------------------------------------------------
(* After deleteParam slot j holds what slot j or j + 1 held, so that every *)
(* live pair but the deleted one is still live, once, in its old order.    *)
LEMMA DeleteParamShape ==
  ASSUME NEW kv, Sound(kv), NEW k, Holds(kv, k),
         NEW new, new = DeleteParam(kv, k)
  PROVE  /\ new \in Table
         /\ Live(new) = 0 .. kv.entry_count - 2
         /\ \A j \in Live(new) :
              new.entries[j] = IF j < IndexOf(kv, k) THEN kv.entries[j]
                                                    ELSE kv.entries[j + 1]
<1> DEFINE n == IndexOf(kv, k)
<1>1. /\ kv \in Table
      /\ n \in Live(kv)
      /\ n \in Nat
      /\ kv.entry_count \in 1 .. MAX_ENTRIES
  BY IndexOfHeld, TableShape DEF Sound, Live
<1>2. /\ new.entry_count = kv.entry_count - 1
      /\ new.entries = [j \in Slots |->
                          IF n <= j /\ j < kv.entry_count - 1
                          THEN kv.entries[j + 1] ELSE kv.entries[j]]
      /\ new = [entry_count |-> new.entry_count, entries |-> new.entries]
  BY DEF DeleteParam
<1>3. \A j \in Slots : n <= j /\ j < kv.entry_count - 1 => j + 1 \in Slots
  BY <1>1, TableAssumption DEF Slots
<1>4. new.entries \in [Slots -> Pair]
  BY <1>1, <1>2, <1>3, TableShape
<1>5. new.entry_count \in 0 .. MAX_ENTRIES
  BY <1>1, <1>2, TableAssumption
<1>6. new \in Table
  BY <1>2, <1>4, <1>5 DEF Table
<1>7. Live(new) = 0 .. kv.entry_count - 2
  BY <1>1, <1>2, TableAssumption DEF Live
<1>8. \A j \in Live(new) : j \in Slots /\ j < kv.entry_count - 1 /\ j \in Nat
  BY <1>1, <1>7, TableAssumption DEF Slots
<1>9. \A j \in Live(new) : new.entries[j] = IF j < n THEN kv.entries[j]
                                                    ELSE kv.entries[j + 1]
  BY <1>1, <1>2, <1>8
<1> QED  BY <1>6, <1>7, <1>9

(* deleteParam forgets its key and nothing else. *)
LEMMA DeleteParamEffect ==
  ASSUME NEW kv, Sound(kv), NEW k, NEW new, new = DeleteParam(kv, k)
  PROVE  /\ Sound(new)
         /\ StoredKeys(new) = StoredKeys(kv) \ {k}
         /\ \A x : x # k => GetParam(new, x) = GetParam(kv, x)
<1>1. CASE ~Holds(kv, k)
  BY <1>1, StoredMeansHeld DEF DeleteParam
<1>2. CASE Holds(kv, k)
  <2> DEFINE n == IndexOf(kv, k)
             from(j) == IF j < n THEN j ELSE j + 1
  <2>1. /\ n \in Live(kv) /\ kv.entries[n].key = k
        /\ n \in Nat
        /\ kv.entry_count \in Nat \ {0}
        /\ Live(kv) = 0 .. kv.entry_count - 1
    BY <1>2, IndexOfHeld, TableShape DEF Sound, Live
  <2>2. /\ new \in Table
        /\ Live(new) = 0 .. kv.entry_count - 2
        /\ \A j \in Live(new) :
             new.entries[j] = IF j < n THEN kv.entries[j] ELSE kv.entries[j + 1]
    BY <1>2, DeleteParamShape
  <2>3. \A j \in Live(new) : /\ from(j) \in Live(kv) \ {n}
                             /\ new.entries[j] = kv.entries[from(j)]
    BY <2>1, <2>2
  <2>4. \A i \in Live(kv) \ {n} : \E j \in Live(new) : from(j) = i
    <3> TAKE i \in Live(kv) \ {n}
    <3>1. i \in Nat /\ i < kv.entry_count
      BY <2>1
    <3>2. CASE i < n
      <4>1. i \in Live(new) /\ from(i) = i
        BY <2>1, <2>2, <3>1, <3>2
      <4> QED  BY <4>1
    <3>3. CASE i > n
      <4>1. i - 1 \in Live(new) /\ from(i - 1) = i
        BY <2>1, <2>2, <3>1, <3>3
      <4> QED  BY <4>1
    <3> QED  BY <2>1, <3>1, <3>2, <3>3
  <2>5. \A i, j \in Live(new) : from(i) = from(j) => i = j
    BY <2>1, <2>2
  <2>6. Sound(new)
    BY <2>2, <2>3, <2>5 DEF Sound, Distinct
  <2>7. \A i \in Live(kv) : kv.entries[i].key = k <=> i = n
    BY <2>1 DEF Sound, Distinct
  <2>8. ASSUME NEW x
        PROVE  x \in StoredKeys(new) <=> x \in StoredKeys(kv) \ {k}
    <3>1. ASSUME x \in StoredKeys(new)
          PROVE  x \in StoredKeys(kv) \ {k}
      BY <2>3, <2>7, <3>1 DEF StoredKeys
    <3>2. ASSUME x \in StoredKeys(kv) \ {k}
          PROVE  x \in StoredKeys(new)
      <4>1. PICK i \in Live(kv) \ {n} : kv.entries[i].key = x
        BY <2>7, <3>2 DEF StoredKeys
      <4>2. PICK j \in Live(new) : from(j) = i
        BY <2>4
      <4> QED  BY <2>3, <4>1, <4>2 DEF StoredKeys
    <3> QED  BY <3>1, <3>2
  <2>9. ASSUME NEW x, x # k
        PROVE  GetParam(new, x) = GetParam(kv, x)
    <3>1. CASE Holds(kv, x)
      <4>1. PICK i \in Live(kv) \ {n} : kv.entries[i].key = x
        BY <2>7, <2>9, <3>1 DEF Holds, Matches
      <4>2. PICK j \in Live(new) : from(j) = i
        BY <2>4
      <4>3. new.entries[j] = kv.entries[i]
        BY <2>3, <4>2
      <4>4. GetParam(kv, x) = kv.entries[i].value
        BY <4>1, GetParamOfSlot
      <4>5. GetParam(new, x) = new.entries[j].value
        BY <2>6, <4>1, <4>3, GetParamOfSlot
      <4> QED  BY <4>3, <4>4, <4>5
    <3>2. CASE ~Holds(kv, x)
      BY <2>8, <3>2, StoredMeansHeld DEF GetParam
    <3> QED  BY <3>1, <3>2
  <2> QED  BY <2>6, <2>8, <2>9
<1> QED  BY <1>1, <1>2

(* entry_count counts the keys: slots and keys are in bijection. *)
LEMMA CountOfStoredKeys ==
  ASSUME NEW kv, Sound(kv)
  PROVE  IsFiniteSet(StoredKeys(kv)) /\ Cardinality(StoredKeys(kv)) = kv.entry_count
<1> DEFINE f == [i \in Live(kv) |-> kv.entries[i].key]
<1>1. kv.entry_count \in Nat
  BY TableShape, TableAssumption DEF Sound
<1>2. IsFiniteSet(Live(kv)) /\ Cardinality(Live(kv)) = kv.entry_count
  <2>1. kv.entry_count - 1 \in Int
    BY <1>1
  <2>2. /\ IsFiniteSet(0 .. kv.entry_count - 1)
        /\ Cardinality(0 .. kv.entry_count - 1) =
             IF 0 > kv.entry_count - 1 THEN 0 ELSE (kv.entry_count - 1) - 0 + 1
    BY <2>1, FS_Interval
  <2> QED  BY <1>1, <2>2 DEF Live
<1>3. f \in Bijection(Live(kv), StoredKeys(kv))
  <2>1. f \in [Live(kv) -> StoredKeys(kv)]
    BY DEF StoredKeys
  <2>2. IsInjective(f)
    BY DEF Sound, Distinct, IsInjective
  <2>3. \A t \in StoredKeys(kv) : \E i \in Live(kv) : f[i] = t
    BY DEF StoredKeys
  <2> QED  BY <2>1, <2>2, <2>3 DEF Bijection, Injection, Surjection
<1>4. ExistsBijection(Live(kv), StoredKeys(kv))
  BY <1>3 DEF ExistsBijection
<1> QED  BY <1>2, <1>4, FS_Bijection

(* A full table never becomes less than full by setParam. *)
LEMMA FullStaysFull ==
  ASSUME NEW kv, Sound(kv), NEW k \in Keys, NEW v \in Values,
         kv.entry_count = MAX_ENTRIES, NEW new, new = SetParam(kv, k, v)
  PROVE  new.entry_count = MAX_ENTRIES
<1>1. CASE ~SetAccepted(kv, k, v)
  BY <1>1 DEF SetParam
<1>2. CASE SetAccepted(kv, k, v)
  <2>1. new \in Table /\ Live(kv) \subseteq Live(new)
    <3>1. PICK m \in Slots : Wrote(kv, new, m, k, v)
      BY <1>2, SetParamShape
    <3> QED  BY <3>1 DEF Wrote
  <2>2. MAX_ENTRIES - 1 \in Live(kv)
    BY TableAssumption DEF Live
  <2>3. new.entry_count > MAX_ENTRIES - 1 /\ new.entry_count \in 0 .. MAX_ENTRIES
    BY <2>1, <2>2, TableShape, TableAssumption DEF Live
  <2> QED  BY <2>3, TableAssumption
<1> QED  BY <1>1, <1>2

-----------------------------------------------------------------------------
(* The same facts for the map that the table stands for. *)
LEMMA ConfigDomain ==
  ASSUME NEW kv, Sound(kv)
  PROVE  /\ DOMAIN ConfigOf(kv) = StoredKeys(kv)
         /\ Cardinality(DOMAIN ConfigOf(kv)) = kv.entry_count
         /\ \A k : Holds(kv, k) <=> k \in DOMAIN ConfigOf(kv)
  BY CountOfStoredKeys, StoredMeansHeld DEF ConfigOf

LEMMA ConfigOfCleared ==
  ConfigOf(Cleared) = [k \in {} |-> {}]
<1>1. StoredKeys(Cleared) = {}
  BY ClearedSound, StoredMeansHeld
<1> QED  BY <1>1 DEF ConfigOf

(* The map c with k bound to v. *)
With(c, k, v) == [x \in DOMAIN c \cup {k} |-> IF x = k THEN v ELSE c[x]]

LEMMA ConfigAfterSet ==
  ASSUME NEW kv, Sound(kv), NEW k \in Keys, NEW v \in Values,
         SetAccepted(kv, k, v), NEW new, new = SetParam(kv, k, v)
  PROVE  ConfigOf(new) = With(ConfigOf(kv), k, v)
<1>1. DOMAIN ConfigOf(kv) \cup {k} = StoredKeys(new)
  BY ConfigDomain, SetParamReadBack
<1>2. \A x \in StoredKeys(new) :
        GetParam(new, x) = IF x = k THEN v ELSE ConfigOf(kv)[x]
  BY SetParamReadBack DEF ConfigOf
<1> QED  BY <1>1, <1>2 DEF ConfigOf, With

LEMMA ConfigAfterDelete ==
  ASSUME NEW kv, Sound(kv), NEW k, NEW new, new = DeleteParam(kv, k)
  PROVE  ConfigOf(new) = [x \in DOMAIN ConfigOf(kv) \ {k} |-> ConfigOf(kv)[x]]
<1>1. DOMAIN ConfigOf(kv) \ {k} = StoredKeys(new)
  BY ConfigDomain, DeleteParamEffect
<1>2. \A x \in StoredKeys(new) : GetParam(new, x) = ConfigOf(kv)[x]
  BY DeleteParamEffect DEF ConfigOf
<1> QED  BY <1>1, <1>2 DEF ConfigOf
=============================================================================
