------------------------------- MODULE KVTable -------------------------------
(***************************************************************************)
(* The key-value table of src/config_storage: the RAM image kv_store_t and *)
(* the lookups and updates KVStore makes on it, as functions of the image. *)
(* A key or a value is one opaque element; what its bytes are matters to   *)
(* the table only through equality, through being empty and through being  *)
(* longer than the array that would hold it.                               *)
(***************************************************************************)
EXTENDS Integers, FiniteSets

CONSTANTS
  Keys,            \* every key a caller may pass
  Values,          \* every value a caller may pass
  EmptyKey,        \* the key of length 0, also what memset(0) leaves in a slot
  EmptyValue,      \* "", which getParam also returns for a key it does not find
  OversizedKeys,   \* the keys longer than MAX_KEY_LEN
  OversizedValues, \* the values longer than MAX_VALUE_LEN
  MAX_ENTRIES      \* slots of the table (26 in the firmware)

ASSUME TableAssumption ==
  /\ MAX_ENTRIES \in Nat \ {0}
  /\ EmptyKey \in Keys \ OversizedKeys
  /\ EmptyValue \in Values \ OversizedValues

Slots == 0 .. MAX_ENTRIES - 1

Pair == [key : Keys, value : Values]

(* kv_store_t without its flag and checksum, which Flash images carry. *)
Table == [entry_count : 0 .. MAX_ENTRIES, entries : [Slots -> Pair]]

(* The table after memset(&kv_store, 0, ...). *)
Cleared ==
  [entry_count |-> 0,
   entries     |-> [s \in Slots |-> [key |-> EmptyKey, value |-> EmptyValue]]]

Live(kv) == 0 .. kv.entry_count - 1

(* Mutant: the scan ends before the last entry. *)
MatchesAllButLast(kv, k) == {i \in 0 .. kv.entry_count - 2 : kv.entries[i].key = k}

Matches(kv, k) == {i \in Live(kv) : kv.entries[i].key = k}

Holds(kv, k) == Matches(kv, k) # {}

(* The scan stops at the first match. *)
IndexOf(kv, k) ==
  CHOOSE i \in Matches(kv, k) : \A j \in Matches(kv, k) : i <= j

GetParam(kv, k) ==
  IF Holds(kv, k) THEN kv.entries[IndexOf(kv, k)].value ELSE EmptyValue

(* Mutant: the bound of the table is off by one. *)
SetAcceptedWhenFull(kv, k, v) ==
  /\ k \notin OversizedKeys
  /\ v \notin OversizedValues
  /\ Holds(kv, k) \/ kv.entry_count <= MAX_ENTRIES

(* setParam returns true. *)
SetAccepted(kv, k, v) ==
  /\ k \notin OversizedKeys
  /\ v \notin OversizedValues
  /\ Holds(kv, k) \/ kv.entry_count < MAX_ENTRIES

Update(kv, k, v) == [kv EXCEPT !.entries[IndexOf(kv, k)].value = v]

Insert(kv, k, v) ==
  [entry_count |-> kv.entry_count + 1,
   entries     |-> [kv.entries EXCEPT ![kv.entry_count] =
                                        [key |-> k, value |-> v]]]

SetParam(kv, k, v) ==
  IF ~SetAccepted(kv, k, v) THEN kv
  ELSE IF Holds(kv, k) THEN Update(kv, k, v)
  ELSE Insert(kv, k, v)

(* Mutant: the last entry is not moved down. *)
DeleteParamLosesLast(kv, k) ==
  IF ~Holds(kv, k) THEN kv
  ELSE [entry_count |-> kv.entry_count - 1,
        entries     |-> [j \in Slots |->
                           IF IndexOf(kv, k) <= j /\ j < kv.entry_count - 2
                           THEN kv.entries[j + 1]
                           ELSE kv.entries[j]]]

(* The slots behind the deleted one move down; the last one keeps a stale copy. *)
DeleteParam(kv, k) ==
  IF ~Holds(kv, k) THEN kv
  ELSE [entry_count |-> kv.entry_count - 1,
        entries     |-> [j \in Slots |->
                           IF IndexOf(kv, k) <= j /\ j < kv.entry_count - 1
                           THEN kv.entries[j + 1]
                           ELSE kv.entries[j]]]

(* No key is held by two live slots. *)
Distinct(kv) ==
  \A i, j \in Live(kv) : kv.entries[i].key = kv.entries[j].key => i = j

(* What the table means to its callers: a partial map from keys to values. *)
StoredKeys(kv) == {kv.entries[i].key : i \in Live(kv)}

ConfigOf(kv) == [k \in StoredKeys(kv) |-> GetParam(kv, k)]
=============================================================================
