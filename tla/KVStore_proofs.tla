--------------------------- MODULE KVStore_proofs ---------------------------
(***************************************************************************)
(* The store keeps its promises for every table size, every set of keys,   *)
(* values and factory defaults, and every number of flash pages.           *)
(***************************************************************************)
EXTENDS KVStore, KVTable_proofs

(* What ties the dirty flag, the sector and the loops to one another: the  *)
(* conjuncts that make CleanMeansSaved inductive.                          *)
Commitment ==
  /\ pc = "ready" /\ ~hasChanged => Intact(flash) /\ flash.image = kv
  /\ pc = "load" /\ ~hasChanged => kv = Loaded(flash)
  /\ pc = "factory" => hasChanged \/ kv = Cleared
  /\ pc = "commit" => hasChanged
  /\ pc = "program" => flash.image = kv /\ flash.pages < PAGES

(* A default that the loop of loadFromFlash has met is there, unless the   *)
(* table is full.                                                          *)
DefaultsMet ==
  pc = "load" =>
    \/ kv.entry_count = MAX_ENTRIES
    \/ \A k \in DefaultKeys \ todo : GetParam(kv, k) # EmptyValue

IInv ==
  /\ TypeOK
  /\ Distinct(kv)
  /\ Distinct(flash.image)
  /\ Commitment
  /\ DefaultsMet

LEMMA IInvSound ==
  ASSUME IInv
  PROVE  Sound(kv) /\ Sound(flash.image)
  BY DEF IInv, Sound, TypeOK, FlashImage

LEMMA LoadedSound ==
  ASSUME IInv
  PROVE  Sound(Loaded(flash))
  BY IInvSound, ClearedSound DEF Loaded

LEMMA InitIInv == Init => IInv
<1> SUFFICES ASSUME Init PROVE IInv
  OBVIOUS
<1>1. Cleared \in Table /\ Distinct(Cleared)
  BY ClearedSound DEF Sound
<1>2. [pages |-> 0, image |-> Cleared] \in FlashImage
  BY <1>1, StoreAssumption DEF FlashImage
<1>3. TypeOK
  BY <1>1, <1>2 DEF Init, TypeOK, Control
<1> QED  BY <1>1, <1>3 DEF Init, IInv, Commitment, DefaultsMet

(* One setParam call, wherever it comes from. *)
LEMMA StoreStep ==
  ASSUME IInv, NEW k \in Keys, NEW v \in Values, Store(k, v)
  PROVE  /\ kv' \in Table
         /\ Distinct(kv')
         /\ hasChanged' \in BOOLEAN
         /\ ~hasChanged' => ~hasChanged /\ kv' = kv /\ ~SetAccepted(kv, k, v)
<1>1. Sound(kv')
  BY IInvSound, SetParamSound DEF Store
<1>2. hasChanged' \in BOOLEAN
  BY DEF Store, IInv, TypeOK
<1>3. ~hasChanged' => ~hasChanged /\ kv' = kv /\ ~SetAccepted(kv, k, v)
  BY DEF Store, SetParam
<1> QED  BY <1>1, <1>2, <1>3 DEF Sound

(* An empty slot is found for a legal key of an empty table. *)
LEMMA AcceptedWhenCleared ==
  ASSUME NEW k \in DefaultKeys
  PROVE  SetAccepted(Cleared, k, FactoryDefaults[k])
  BY ClearedSound, StoreAssumption, TableAssumption DEF SetAccepted

LEMMA ApplyDefaultIInv ==
  ASSUME IInv, NEW k \in DefaultKeys, ApplyDefault(k)
  PROVE  IInv'
<1> DEFINE v == FactoryDefaults[k]
<1>0. /\ pc = "load" /\ k \in todo
      /\ todo' = todo \ {k}
      /\ pc' \in {"load", "ready"}
      /\ flash' = flash
      /\ k \in Keys /\ v \in Values /\ v # EmptyValue
  BY StoreAssumption DEF ApplyDefault, NeedsDefault
<1>1. CASE GetParam(kv, k) = EmptyValue
  <2>1. Store(k, v)
    BY <1>1 DEF ApplyDefault, NeedsDefault
  <2>2. /\ kv' \in Table /\ Distinct(kv') /\ hasChanged' \in BOOLEAN
        /\ ~hasChanged' => ~hasChanged /\ kv' = kv /\ ~SetAccepted(kv, k, v)
    BY <1>0, <2>1, StoreStep
  <2>3. ASSUME ~hasChanged'
        PROVE  kv' = Loaded(flash) /\ Intact(flash) /\ flash.image = kv'
    <3>1. kv = Loaded(flash)
      BY <1>0, <2>2, <2>3 DEF IInv, Commitment
    <3>2. kv # Cleared
      BY <2>2, <2>3, AcceptedWhenCleared
    <3> QED  BY <2>2, <2>3, <3>1, <3>2 DEF Loaded
  <2>4. kv'.entry_count = MAX_ENTRIES
          \/ \A x \in DefaultKeys \ todo' : GetParam(kv', x) # EmptyValue
    <3>1. CASE kv.entry_count = MAX_ENTRIES
      BY <1>0, <2>1, <3>1, IInvSound, FullStaysFull DEF Store
    <3>2. CASE kv.entry_count # MAX_ENTRIES
      <4>1. kv.entry_count < MAX_ENTRIES
        <5>1. kv.entry_count \in 0 .. MAX_ENTRIES
          BY IInvSound, TableShape DEF Sound
        <5> QED  BY <3>2, <5>1, TableAssumption
      <4>2. SetAccepted(kv, k, v)
        BY <4>1, StoreAssumption DEF SetAccepted
      <4>3. /\ GetParam(kv', k) = v
            /\ \A x : x # k => GetParam(kv', x) = GetParam(kv, x)
        BY <1>0, <2>1, <4>2, IInvSound, SetParamReadBack DEF Store
      <4>4. \A x \in DefaultKeys \ todo : GetParam(kv, x) # EmptyValue
        BY <1>0, <3>2 DEF IInv, DefaultsMet
      <4> QED  BY <1>0, <4>3, <4>4
    <3> QED  BY <3>1, <3>2
  <2> QED  BY <1>0, <2>2, <2>3, <2>4
           DEF IInv, TypeOK, Control, Commitment, DefaultsMet
<1>2. CASE GetParam(kv, k) # EmptyValue
  <2>1. kv' = kv /\ hasChanged' = hasChanged
    BY <1>2 DEF ApplyDefault, NeedsDefault
  <2>2. kv # Cleared
    BY <1>2, ClearedSound DEF GetParam
  <2>3. ~hasChanged => kv = Loaded(flash) /\ Intact(flash) /\ flash.image = kv
    BY <1>0, <2>2 DEF IInv, Commitment, Loaded
  <2>4. kv.entry_count = MAX_ENTRIES
          \/ \A x \in DefaultKeys \ todo' : GetParam(kv, x) # EmptyValue
    BY <1>0, <1>2 DEF IInv, DefaultsMet
  <2> QED  BY <1>0, <2>1, <2>3, <2>4
           DEF IInv, TypeOK, Control, Commitment, DefaultsMet
<1> QED  BY <1>1, <1>2

LEMMA FactoryDefaultIInv ==
  ASSUME IInv, NEW k \in DefaultKeys, FactoryDefault(k)
  PROVE  IInv'
<1> DEFINE v == FactoryDefaults[k]
<1>0. /\ pc = "factory" /\ pc' \in {"factory", "commit"}
      /\ todo' = todo \ {k}
      /\ flash' = flash
      /\ Store(k, v)
      /\ k \in Keys /\ v \in Values
  BY StoreAssumption DEF FactoryDefault
<1>1. /\ kv' \in Table /\ Distinct(kv') /\ hasChanged' \in BOOLEAN
      /\ ~hasChanged' => ~hasChanged /\ kv' = kv /\ ~SetAccepted(kv, k, v)
  BY <1>0, StoreStep
<1>2. hasChanged'
  BY <1>0, <1>1, AcceptedWhenCleared DEF IInv, Commitment
<1> QED  BY <1>0, <1>1, <1>2
         DEF IInv, TypeOK, Control, Commitment, DefaultsMet

LEMMA SetIInv ==
  ASSUME IInv, NEW k \in Keys, NEW v \in Values, Set(k, v)
  PROVE  IInv'
<1>0. /\ pc = "ready" /\ pc' = pc /\ todo' = todo /\ flash' = flash
      /\ Store(k, v)
  BY DEF Set
<1>1. /\ kv' \in Table /\ Distinct(kv') /\ hasChanged' \in BOOLEAN
      /\ ~hasChanged' => ~hasChanged /\ kv' = kv
  BY <1>0, StoreStep
<1> QED  BY <1>0, <1>1 DEF IInv, TypeOK, Commitment, DefaultsMet

LEMMA DeleteIInv ==
  ASSUME IInv, NEW k \in Keys, Delete(k)
  PROVE  IInv'
<1>1. kv' \in Table /\ Distinct(kv')
  BY IInvSound, DeleteParamEffect DEF Delete, Sound
<1>2. /\ pc = "ready" /\ pc' = pc /\ todo' = todo /\ flash' = flash
      /\ hasChanged' \in BOOLEAN
      /\ ~hasChanged' => ~hasChanged /\ kv' = kv
  BY DEF Delete, DeleteParam, IInv, TypeOK
<1> QED  BY <1>1, <1>2 DEF IInv, TypeOK, Commitment, DefaultsMet

(* Saving: the image being programmed is the table in RAM, and the flag    *)
(* falls only with the last page.                                          *)
LEMMA SaveIInv ==
  ASSUME IInv, EraseSector \/ ProgramPage \/ CommitClean
  PROVE  IInv'
<1>1. CASE EraseSector
  <2>1. flash' \in FlashImage /\ Distinct(flash.image') /\ 0 < PAGES
    BY <1>1, StoreAssumption DEF EraseSector, IInv, TypeOK, FlashImage
  <2> QED  BY <1>1, <2>1
           DEF EraseSector, IInv, TypeOK, Control, Commitment, DefaultsMet
<1>2. CASE ProgramPage
  <2>1. /\ pc = "program" /\ flash.image = kv /\ flash.pages < PAGES
        /\ flash.pages \in 0 .. PAGES /\ kv \in Table
    BY <1>2 DEF ProgramPage, IInv, Commitment, TypeOK, FlashImage
  <2>2. /\ flash' \in FlashImage /\ flash'.image = kv
        /\ flash'.pages = flash.pages + 1
    BY <1>2, <2>1, StoreAssumption DEF ProgramPage, IInv, TypeOK, FlashImage
  <2>3. CASE flash.pages + 1 = PAGES
    <3>1. pc' = "ready" /\ ~hasChanged' /\ hasChanged' \in BOOLEAN
      BY <1>2, <2>3 DEF ProgramPage
    <3>2. Intact(flash')
      BY <2>1, <2>2, <2>3, TableShape, TableAssumption DEF Intact
    <3> QED  BY <1>2, <2>2, <3>1, <3>2
             DEF ProgramPage, IInv, TypeOK, Control, Commitment, DefaultsMet
  <2>4. CASE flash.pages + 1 # PAGES
    <3>1. flash'.pages < PAGES
      BY <2>1, <2>2, <2>4, StoreAssumption
    <3> QED  BY <1>2, <2>1, <2>2, <2>4, <3>1
             DEF ProgramPage, IInv, TypeOK, Control, Commitment, DefaultsMet
  <2> QED  BY <2>3, <2>4
<1>3. CASE CommitClean
  BY <1>3 DEF CommitClean, IInv, TypeOK, Control, Commitment, DefaultsMet
<1> QED  BY <1>1, <1>2, <1>3

LEMMA NextIInv == IInv /\ [Next]_vars => IInv'
<1> SUFFICES ASSUME IInv, [Next]_vars
             PROVE  IInv'
  OBVIOUS
<1>0. Cleared \in Table /\ Distinct(Cleared)
  BY ClearedSound DEF Sound
<1>1. CASE LoadFromFlash
  <2>1. kv' \in Table /\ Distinct(kv')
    BY <1>1, LoadedSound DEF LoadFromFlash, Sound
  <2> QED  BY <1>1, <2>1
           DEF LoadFromFlash, IInv, TypeOK, Control, Commitment, DefaultsMet
<1>2. ASSUME NEW k \in DefaultKeys, ApplyDefault(k)
      PROVE  IInv'
  BY <1>2, ApplyDefaultIInv
<1>3. ASSUME NEW k \in DefaultKeys, FactoryDefault(k)
      PROVE  IInv'
  BY <1>3, FactoryDefaultIInv
<1>4. ASSUME NEW k \in Keys, NEW v \in Values, Set(k, v)
      PROVE  IInv'
  BY <1>4, SetIInv
<1>5. ASSUME NEW k \in Keys, Delete(k)
      PROVE  IInv'
  BY <1>5, DeleteIInv
<1>6. CASE BeginFactoryReset
  BY <1>0, <1>6
     DEF BeginFactoryReset, IInv, TypeOK, Control, Commitment, DefaultsMet
<1>7. CASE EraseSector \/ ProgramPage \/ CommitClean
  BY <1>7, SaveIInv
<1>8. CASE PowerLoss
  BY <1>0, <1>8 DEF PowerLoss, IInv, TypeOK, Control, Commitment, DefaultsMet
<1>9. CASE UNCHANGED vars
  BY <1>9 DEF vars, IInv, TypeOK, Commitment, DefaultsMet
<1> QED  BY <1>1, <1>2, <1>3, <1>4, <1>5, <1>6, <1>7, <1>8, <1>9 DEF Next

(* Every state the store reaches satisfies the inductive invariant. *)
THEOREM Invariant == Spec => []IInv
  BY InitIInv, NextIInv, PTL DEF Spec

(* The table, the flag, the sector and the loop counters keep their types: *)
(* entry_count never exceeds MAX_ENTRIES.                                  *)
THEOREM TypeCorrect == Spec => []TypeOK
<1>1. IInv => TypeOK
  BY DEF IInv
<1> QED  BY <1>1, Invariant, PTL

(* setParam and deleteParam never leave a key in two live slots, in RAM or *)
(* in what is loaded back from flash.                                      *)
THEOREM KeysStayUnique == Spec => []UniqueKeys
<1>1. IInv => UniqueKeys
  BY DEF IInv, UniqueKeys
<1> QED  BY <1>1, Invariant, PTL

(* Between calls a clean table is a saved one, whatever power failures,    *)
(* factory resets and refused updates came before.                         *)
THEOREM CleanIsSaved == Spec => []CleanMeansSaved
<1>1. IInv => CleanMeansSaved
  BY DEF IInv, Commitment, CleanMeansSaved
<1> QED  BY <1>1, Invariant, PTL

(* After deleteParam its key is unknown and every other key is as before,   *)
(* for tables of every size.                                               *)
THEOREM DeleteForgets == Spec => DeleteForgetsOne
<1> DEFINE Forgets == pc = "ready" =>
              \A k \in Keys : Delete(k) =>
                \A x \in Keys :
                  GetParam(kv', x) = IF x = k THEN EmptyValue ELSE GetParam(kv, x)
<1>1. IInv /\ [Next]_vars => [Forgets]_vars
  <2> SUFFICES ASSUME IInv, NEW k \in Keys, Delete(k), NEW x \in Keys
               PROVE  GetParam(kv', x) = IF x = k THEN EmptyValue
                                         ELSE GetParam(kv, x)
    OBVIOUS
  <2>1. kv' = DeleteParam(kv, k)
    BY DEF Delete
  <2>2. /\ k \notin StoredKeys(kv')
        /\ \A y : y # k => GetParam(kv', y) = GetParam(kv, y)
    BY <2>1, IInvSound, DeleteParamEffect
  <2>3. GetParam(kv', k) = EmptyValue
    BY <2>2, StoredMeansHeld DEF GetParam
  <2> QED  BY <2>2, <2>3
<1> QED  BY <1>1, Invariant, PTL DEF Spec, DeleteForgetsOne

(* Loading the store at boot keeps every setting that has a value. *)
THEOREM BootKeeps == Spec => BootKeepsSettings
<1> DEFINE Kept == pc = "load" /\ pc' # "off" =>
                     \A k \in Keys : GetParam(kv, k) # EmptyValue
                                       => GetParam(kv', k) = GetParam(kv, k)
<1>1. IInv /\ [Next]_vars => [Kept]_vars
  <2> SUFFICES ASSUME IInv, [Next]_vars, pc = "load", pc' # "off",
                      NEW x \in Keys, GetParam(kv, x) # EmptyValue
               PROVE  GetParam(kv', x) = GetParam(kv, x)
    OBVIOUS
  <2>1. ASSUME NEW k \in DefaultKeys, ApplyDefault(k)
        PROVE  GetParam(kv', x) = GetParam(kv, x)
    <3>1. CASE GetParam(kv, k) = EmptyValue
      <4>1. x # k /\ kv' = SetParam(kv, k, FactoryDefaults[k])
        BY <2>1, <3>1 DEF ApplyDefault, NeedsDefault, Store
      <4>2. k \in Keys /\ FactoryDefaults[k] \in Values
        BY StoreAssumption
      <4>3. CASE SetAccepted(kv, k, FactoryDefaults[k])
        BY <4>1, <4>2, <4>3, IInvSound, SetParamReadBack
      <4>4. CASE ~SetAccepted(kv, k, FactoryDefaults[k])
        BY <4>1, <4>4 DEF SetParam
      <4> QED  BY <4>3, <4>4
    <3>2. CASE GetParam(kv, k) # EmptyValue
      BY <2>1, <3>2 DEF ApplyDefault, NeedsDefault
    <3> QED  BY <3>1, <3>2
  <2>2. CASE UNCHANGED vars
    BY <2>2 DEF vars
  <2> QED
    BY <2>1, <2>2
       DEF Next, LoadFromFlash, FactoryDefault, Set, Delete, BeginFactoryReset,
           CommitClean, EraseSector, ProgramPage, PowerLoss
<1> QED  BY <1>1, Invariant, PTL DEF Spec, BootKeepsSettings

(* When loadFromFlash returns, a default can be missing only from a table  *)
(* that is full of other keys.                                             *)
THEOREM BootDefaults == Spec => DefaultsUnlessFull
<1> DEFINE Supplied == pc = "load" /\ pc' = "ready" =>
                         \/ \A k \in DefaultKeys : GetParam(kv', k) # EmptyValue
                         \/ kv'.entry_count = MAX_ENTRIES
<1>1. IInv /\ [Next]_vars => [Supplied]_vars
  <2> SUFFICES ASSUME IInv, [Next]_vars, pc = "load", pc' = "ready"
               PROVE  \/ \A k \in DefaultKeys : GetParam(kv', k) # EmptyValue
                      \/ kv'.entry_count = MAX_ENTRIES
    OBVIOUS
  <2>1. PICK k \in DefaultKeys : ApplyDefault(k)
    BY DEF Next, LoadFromFlash, FactoryDefault, Set, Delete, BeginFactoryReset,
           CommitClean, EraseSector, ProgramPage, PowerLoss, vars
  <2> DEFINE v == FactoryDefaults[k]
  <2>2. /\ todo' = {} /\ todo' = todo \ {k}
        /\ k \in Keys /\ v \in Values /\ v # EmptyValue
    BY <2>1, StoreAssumption DEF ApplyDefault, NeedsDefault
  <2>3. CASE kv.entry_count = MAX_ENTRIES
    <3>1. CASE kv' = kv
      BY <2>3, <3>1
    <3>2. CASE kv' = SetParam(kv, k, v)
      BY <2>2, <2>3, <3>2, IInvSound, FullStaysFull
    <3> QED  BY <2>1, <3>1, <3>2 DEF ApplyDefault, NeedsDefault, Store
  <2>4. CASE kv.entry_count # MAX_ENTRIES
    <3>1. \A x \in DefaultKeys \ {k} : GetParam(kv, x) # EmptyValue
      BY <2>2, <2>4 DEF IInv, DefaultsMet
    <3>2. CASE GetParam(kv, k) # EmptyValue
      BY <2>1, <3>1, <3>2 DEF ApplyDefault, NeedsDefault
    <3>3. CASE GetParam(kv, k) = EmptyValue
      <4>1. kv' = SetParam(kv, k, v)
        BY <2>1, <3>3 DEF ApplyDefault, NeedsDefault, Store
      <4>2. kv.entry_count \in 0 .. MAX_ENTRIES
        BY IInvSound, TableShape DEF Sound
      <4>3. SetAccepted(kv, k, v)
        BY <2>4, <4>2, StoreAssumption, TableAssumption DEF SetAccepted
      <4>4. /\ GetParam(kv', k) = v
            /\ \A x : x # k => GetParam(kv', x) = GetParam(kv, x)
        BY <2>2, <4>1, <4>3, IInvSound, SetParamReadBack
      <4> QED  BY <2>2, <3>1, <4>4
    <3> QED  BY <3>2, <3>3
  <2> QED  BY <2>3, <2>4
<1> QED  BY <1>1, Invariant, PTL DEF Spec, DefaultsUnlessFull

-----------------------------------------------------------------------------
(* KVStore implements ConfigStore.  One lemma per kind of step: a set, a   *)
(* delete, and the two ends of a save.                                     *)
LEMMA StoreRefines ==
  ASSUME IInv, NEW k \in Keys, NEW v \in Values, Store(k, v),
         pc \notin {"off", "program"}, pc' \notin {"off", "program"},
         flash' = flash
  PROVE  [Abstract!Next]_(Abstract!vars)
<1>1. CASE ~SetAccepted(kv, k, v)
  <2>1. kv' = kv
    BY <1>1 DEF Store, SetParam
  <2> QED  BY <2>1 DEF Abstract!vars
<1>2. CASE SetAccepted(kv, k, v)
  <2>1. ConfigOf(kv') = With(ConfigOf(kv), k, v)
    <3>1. Sound(kv) /\ kv' = SetParam(kv, k, v)
      BY IInvSound DEF Store
    <3> QED  BY <1>2, <3>1, ConfigAfterSet
  <2>2. /\ k \notin OversizedKeys
        /\ v \notin OversizedValues
        /\ k \in DOMAIN ConfigOf(kv)
             \/ Cardinality(DOMAIN ConfigOf(kv)) < MAX_ENTRIES
    BY <1>2, IInvSound, ConfigDomain DEF SetAccepted
  <2>3. Abstract!Put(k, v)
    <3>1. ConfigOf(kv') = [x \in DOMAIN ConfigOf(kv) \cup {k} |->
                             IF x = k THEN v ELSE ConfigOf(kv)[x]]
      BY <2>1 DEF With
    <3>2. \A S : Abstract!Cardinality(S) = Cardinality(S)
      BY DEF Cardinality, Abstract!Cardinality
    <3> QED  BY <2>2, <3>1, <3>2 DEF Abstract!Put
  <2> QED  BY <2>3 DEF Abstract!Next
<1> QED  BY <1>1, <1>2

LEMMA DeleteRefines ==
  ASSUME IInv, NEW k \in Keys, Delete(k)
  PROVE  [Abstract!Next]_(Abstract!vars)
<1>1. CASE ~Holds(kv, k)
  <2>1. kv' = kv /\ flash' = flash /\ pc' = pc
    BY <1>1 DEF Delete, DeleteParam
  <2> QED  BY <2>1 DEF Abstract!vars
<1>2. CASE Holds(kv, k)
  <2>1. ConfigOf(kv') = [x \in DOMAIN ConfigOf(kv) \ {k} |-> ConfigOf(kv)[x]]
    BY IInvSound, ConfigAfterDelete DEF Delete
  <2>2. k \in DOMAIN ConfigOf(kv)
    BY <1>2, IInvSound, ConfigDomain
  <2>3. Abstract!Remove(k)
    BY <2>1, <2>2 DEF Abstract!Remove, Delete
  <2> QED  BY <2>3 DEF Abstract!Next
<1> QED  BY <1>1, <1>2

LEMMA ProgramRefines ==
  ASSUME IInv, ProgramPage
  PROVE  [Abstract!Next]_(Abstract!vars)
<1>1. /\ pc = "program" /\ kv' = kv
      /\ flash.image = kv /\ flash.pages < PAGES
      /\ flash.pages \in 0 .. PAGES
      /\ kv \in Table
      /\ flash'.image = kv /\ flash'.pages = flash.pages + 1
  BY DEF ProgramPage, IInv, Commitment, TypeOK, FlashImage
<1>2. ~Intact(flash)
  BY <1>1, StoreAssumption DEF Intact
<1>3. CASE flash.pages + 1 = PAGES
  <2>1. pc' = "ready"
    BY <1>3 DEF ProgramPage
  <2>2. Intact(flash')
    BY <1>1, <1>3, TableShape, TableAssumption DEF Intact
  <2>3. Abstract!EndSave
    BY <1>1, <2>1, <2>2 DEF Abstract!EndSave
  <2> QED  BY <2>3 DEF Abstract!Next
<1>4. CASE flash.pages + 1 # PAGES
  <2>1. pc' = pc /\ ~Intact(flash')
    BY <1>1, <1>4 DEF ProgramPage, Intact
  <2> QED  BY <1>1, <1>2, <2>1 DEF Abstract!vars
<1> QED  BY <1>3, <1>4

LEMMA StepRefines == IInv /\ [Next]_vars => [Abstract!Next]_(Abstract!vars)
<1> SUFFICES ASSUME IInv, [Next]_vars
             PROVE  [Abstract!Next]_(Abstract!vars)
  OBVIOUS
<1>1. CASE LoadFromFlash
  <2>1. ConfigOf(kv') \in IF ~Intact(flash) THEN {Abstract!NoEntries}
                                            ELSE {ConfigOf(flash.image)}
    BY <1>1, ConfigOfCleared DEF LoadFromFlash, Loaded, Abstract!NoEntries
  <2>2. Abstract!Boot
    BY <1>1, <2>1 DEF LoadFromFlash, Abstract!Boot
  <2> QED  BY <2>2 DEF Abstract!Next
<1>2. ASSUME NEW k \in DefaultKeys, ApplyDefault(k)
      PROVE  [Abstract!Next]_(Abstract!vars)
  <2>1. pc = "load" /\ pc' \in {"load", "ready"} /\ flash' = flash
    BY <1>2 DEF ApplyDefault, NeedsDefault
  <2>2. CASE GetParam(kv, k) = EmptyValue
    BY <1>2, <2>1, <2>2, StoreAssumption, StoreRefines DEF ApplyDefault, NeedsDefault
  <2>3. CASE GetParam(kv, k) # EmptyValue
    BY <1>2, <2>1, <2>3 DEF ApplyDefault, NeedsDefault, Abstract!vars
  <2> QED  BY <2>2, <2>3
<1>3. ASSUME NEW k \in DefaultKeys, FactoryDefault(k)
      PROVE  [Abstract!Next]_(Abstract!vars)
  <2>1. pc = "factory" /\ pc' \in {"factory", "commit"} /\ flash' = flash
    BY <1>3 DEF FactoryDefault
  <2> QED  BY <1>3, <2>1, StoreAssumption, StoreRefines DEF FactoryDefault
<1>4. ASSUME NEW k \in Keys, NEW v \in Values, Set(k, v)
      PROVE  [Abstract!Next]_(Abstract!vars)
  BY <1>4, StoreRefines DEF Set
<1>5. ASSUME NEW k \in Keys, Delete(k)
      PROVE  [Abstract!Next]_(Abstract!vars)
  BY <1>5, DeleteRefines
<1>6. CASE BeginFactoryReset
  <2>1. Abstract!Clear
    BY <1>6, ConfigOfCleared DEF BeginFactoryReset, Abstract!Clear, Abstract!NoEntries
  <2> QED  BY <2>1 DEF Abstract!Next
<1>7. CASE CommitClean
  BY <1>7 DEF CommitClean, Abstract!vars
<1>8. CASE EraseSector
  <2>1. ~Intact(flash')
    BY <1>8, StoreAssumption DEF EraseSector, Intact
  <2>2. Abstract!BeginSave
    BY <1>8, <2>1 DEF EraseSector, Abstract!BeginSave
  <2> QED  BY <2>2 DEF Abstract!Next
<1>9. CASE ProgramPage
  BY <1>9, ProgramRefines
<1>10. CASE PowerLoss
  <2>1. Abstract!PowerLoss
    BY <1>10, ConfigOfCleared DEF PowerLoss, Abstract!PowerLoss, Abstract!NoEntries
  <2> QED  BY <2>1 DEF Abstract!Next
<1>11. CASE UNCHANGED vars
  BY <1>11 DEF vars, Abstract!vars
<1> QED
  BY <1>1, <1>2, <1>3, <1>4, <1>5, <1>6, <1>7, <1>8, <1>9, <1>10, <1>11 DEF Next

(* The store with its slots, flag and pages behaves as the bounded map     *)
(* with one saved copy that the rest of the firmware takes it for.         *)
THEOREM StoreImplementsConfig == Spec => RefinesConfigStore
<1>1. Init => Abstract!Init
  <2> SUFFICES ASSUME Init PROVE Abstract!Init
    OBVIOUS
  <2>1. ~Intact(flash)
    BY StoreAssumption DEF Init, Intact
  <2> QED  BY <2>1, ConfigOfCleared DEF Init, Abstract!Init, Abstract!NoEntries
<1>2. IInv /\ [Next]_vars => [Abstract!Next]_(Abstract!vars)
  BY StepRefines
<1> QED  BY <1>1, <1>2, Invariant, PTL DEF Spec, RefinesConfigStore, Abstract!Spec

=============================================================================
