----------------------------- MODULE ConfigStore -----------------------------
(***************************************************************************)
(* What KVStore promises to the rest of the firmware: a bounded map from   *)
(* keys to values in RAM, and at most one saved copy of it, which is lost  *)
(* while a save is under way and is otherwise exactly the map as it stood  *)
(* when the last save completed.  There is no trace here of slots, order,  *)
(* pages, checksums or the dirty flag.                                     *)
(***************************************************************************)
EXTENDS Naturals, FiniteSets

CONSTANTS Keys, Values, OversizedKeys, OversizedValues, MAX_ENTRIES

VARIABLES
  config, \* the map a reader sees
  saved,  \* the map the next boot starts from: a singleton, or {} for none
  phase   \* "off", "up" or "saving"

vars == <<config, saved, phase>>

NoEntries == [k \in {} |-> {}]

Init ==
  /\ config = NoEntries
  /\ saved = {}
  /\ phase = "off"

Boot ==
  /\ phase = "off"
  /\ config' \in IF saved = {} THEN {NoEntries} ELSE saved
  /\ phase' = "up"
  /\ UNCHANGED saved

Put(k, v) ==
  /\ phase = "up"
  /\ k \notin OversizedKeys
  /\ v \notin OversizedValues
  /\ k \in DOMAIN config \/ Cardinality(DOMAIN config) < MAX_ENTRIES
  /\ config' = [x \in DOMAIN config \cup {k} |-> IF x = k THEN v ELSE config[x]]
  /\ UNCHANGED <<saved, phase>>

Remove(k) ==
  /\ phase = "up"
  /\ k \in DOMAIN config
  /\ config' = [x \in DOMAIN config \ {k} |-> config[x]]
  /\ UNCHANGED <<saved, phase>>

Clear ==
  /\ phase = "up"
  /\ config' = NoEntries
  /\ UNCHANGED <<saved, phase>>

BeginSave ==
  /\ phase = "up"
  /\ phase' = "saving"
  /\ saved' = {}
  /\ UNCHANGED config

EndSave ==
  /\ phase = "saving"
  /\ phase' = "up"
  /\ saved' = {config}
  /\ UNCHANGED config

PowerLoss ==
  /\ phase' = "off"
  /\ config' = NoEntries
  /\ UNCHANGED saved

Next ==
  \/ Boot
  \/ \E k \in Keys : \/ \E v \in Values : Put(k, v)
                     \/ Remove(k)
  \/ Clear
  \/ BeginSave
  \/ EndSave
  \/ PowerLoss

Spec == Init /\ [][Next]_vars
=============================================================================
