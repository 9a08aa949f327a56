------------------------------- MODULE KVStore -------------------------------
(***************************************************************************)
(* class KVStore of src/config_storage as one caller at a time sees it:    *)
(* the table in RAM, its dirty flag, and the flash sector that commits     *)
(* erase and program page by page.  Power may fail between any two steps.  *)
(*                                                                         *)
(* The calls that one context makes while another is in the middle of one  *)
(* are the subject of SharedStore.                                         *)
(***************************************************************************)
EXTENDS KVTable

CONSTANTS
  FactoryDefaults, \* factory_defaults: a function from keys to values
  PAGES            \* flash pages the programmed kv_store_t spans

DefaultKeys == DOMAIN FactoryDefaults

ASSUME StoreAssumption ==
  /\ PAGES \in Nat \ {0}
  /\ DefaultKeys \subseteq Keys \ OversizedKeys
  /\ DefaultKeys # {}
  /\ \A k \in DefaultKeys :
       FactoryDefaults[k] \in Values \ (OversizedValues \cup {EmptyValue})

VARIABLES
  kv,         \* kv_store
  hasChanged, \* the dirty flag
  flash,      \* the sector: pages programmed since its erasure, and of what image
  pc,         \* where the store is, see Control
  todo        \* default keys the running loop over factory_defaults has not met

vars == <<kv, hasChanged, flash, pc, todo>>

(* "off" no power; "load" the loop of loadFromFlash; "ready" between calls; *)
(* "factory" the loop of setFactoryDefaults; "commit" its trailing call of  *)
(* commitToFlash; "program" the sector is erased and being programmed, with *)
(* interrupts disabled.                                                     *)
Control == {"off", "load", "ready", "factory", "commit", "program"}

FlashImage == [pages : 0 .. PAGES, image : Table]

(* Mutant: the checksum misses the last page. *)
IntactButLast(sector) ==
  /\ sector.pages >= PAGES - 1
  /\ sector.image.entry_count <= MAX_ENTRIES

(* valid_flag is in the first page and crc32 in the last, and a partly     *)
(* programmed sector fails the checksum: the image is taken only when      *)
(* every page was programmed.                                              *)
Intact(sector) ==
  /\ sector.pages = PAGES
  /\ sector.image.entry_count <= MAX_ENTRIES

Loaded(sector) == IF Intact(sector) THEN sector.image ELSE Cleared

TypeOK ==
  /\ kv \in Table
  /\ hasChanged \in BOOLEAN
  /\ flash \in FlashImage
  /\ pc \in Control
  /\ todo \in SUBSET DefaultKeys

Init ==
  /\ kv = Cleared
  /\ hasChanged = FALSE
  /\ flash = [pages |-> 0, image |-> Cleared]
  /\ pc = "off"
  /\ todo = {}

-----------------------------------------------------------------------------
(* Every setParam that is accepted marks the table changed. *)
Store(k, v) ==
  /\ kv' = SetParam(kv, k, v)
  /\ hasChanged' = (hasChanged \/ SetAccepted(kv, k, v))

LoadFromFlash ==
  /\ pc = "off"
  /\ kv' = Loaded(flash)
  /\ hasChanged' = FALSE
  /\ pc' = "load"
  /\ todo' = DefaultKeys
  /\ UNCHANGED flash

(* Mutant: a default is stored whether or not the key has a value. *)
NeedsDefaultAlways(k) == TRUE

(* Mutant: defaults are supplied only where no saved table was found. *)
NeedsDefaultIfBlank(k) == ~Intact(flash) /\ GetParam(kv, k) = EmptyValue

NeedsDefault(k) == GetParam(kv, k) = EmptyValue

(* One pass of the loop of loadFromFlash.  factory_defaults is unordered:  *)
(* any key may come next.                                                  *)
ApplyDefault(k) ==
  /\ pc = "load"
  /\ k \in todo
  /\ IF NeedsDefault(k)
     THEN Store(k, FactoryDefaults[k])
     ELSE UNCHANGED <<kv, hasChanged>>
  /\ todo' = todo \ {k}
  /\ pc' = IF todo' = {} THEN "ready" ELSE "load"
  /\ UNCHANGED flash

Set(k, v) ==
  /\ pc = "ready"
  /\ Store(k, v)
  /\ UNCHANGED <<flash, pc, todo>>

(* Mutant: a delete does not mark the table changed. *)
DeleteUnmarked(k) ==
  /\ pc = "ready"
  /\ kv' = DeleteParam(kv, k)
  /\ UNCHANGED <<hasChanged, flash, pc, todo>>

Delete(k) ==
  /\ pc = "ready"
  /\ kv' = DeleteParam(kv, k)
  /\ hasChanged' = (hasChanged \/ Holds(kv, k))
  /\ UNCHANGED <<flash, pc, todo>>

BeginFactoryReset ==
  /\ pc = "ready"
  /\ kv' = Cleared
  /\ pc' = "factory"
  /\ todo' = DefaultKeys
  /\ UNCHANGED <<hasChanged, flash>>

FactoryDefault(k) ==
  /\ pc = "factory"
  /\ k \in todo
  /\ Store(k, FactoryDefaults[k])
  /\ todo' = todo \ {k}
  /\ pc' = IF todo' = {} THEN "commit" ELSE "factory"
  /\ UNCHANGED flash

-----------------------------------------------------------------------------
(* commitToFlash: nothing to do on a clean table; otherwise the checksum   *)
(* is set, the sector erased and then programmed.                          *)
CommitClean ==
  /\ pc \in {"ready", "commit"}
  /\ ~hasChanged
  /\ pc' = "ready"
  /\ UNCHANGED <<kv, hasChanged, flash, todo>>

EraseSector ==
  /\ pc \in {"ready", "commit"}
  /\ hasChanged
  /\ flash' = [pages |-> 0, image |-> kv]
  /\ pc' = "program"
  /\ UNCHANGED <<kv, hasChanged, todo>>

(* The dirty flag falls after the last page. *)
ProgramPage ==
  /\ pc = "program"
  /\ flash' = [flash EXCEPT !.pages = @ + 1]
  /\ IF flash.pages + 1 = PAGES
     THEN pc' = "ready" /\ hasChanged' = FALSE
     ELSE UNCHANGED <<pc, hasChanged>>
  /\ UNCHANGED <<kv, todo>>

(* Power fails, or the board is reset: RAM is lost, the sector stays as it is. *)
PowerLoss ==
  /\ pc # "off"
  /\ kv' = Cleared
  /\ hasChanged' = FALSE
  /\ pc' = "off"
  /\ todo' = {}
  /\ UNCHANGED flash

Next ==
  \/ LoadFromFlash
  \/ \E k \in DefaultKeys : ApplyDefault(k) \/ FactoryDefault(k)
  \/ \E k \in Keys, v \in Values : Set(k, v)
  \/ \E k \in Keys : Delete(k)
  \/ BeginFactoryReset
  \/ CommitClean
  \/ EraseSector
  \/ ProgramPage
  \/ PowerLoss

Spec == Init /\ [][Next]_vars

-----------------------------------------------------------------------------
(* No key sits in two live slots: a second copy would be shadowed by the   *)
(* first in getParam and come back when deleteParam removes that one.      *)
UniqueKeys == Distinct(kv)

(* Whenever a call may arrive and the dirty flag is down, the sector holds *)
(* the table that is in RAM.  commitToFlash returns early on that flag and *)
(* its callers then report the flash as up to date.                        *)
CleanMeansSaved ==
  pc = "ready" /\ ~hasChanged => Intact(flash) /\ flash.image = kv

(* deleteParam makes its key unknown and every other key keeps its value,  *)
(* whatever the order in which keys came and went before and while the     *)
(* slots behind it move.                                                   *)
DeleteForgetsOne ==
  [][pc = "ready" =>
       \A k \in Keys : Delete(k) =>
         \A x \in Keys :
           GetParam(kv', x) = IF x = k THEN EmptyValue ELSE GetParam(kv, x)]_vars

(* loadFromFlash supplies what is missing and alters nothing that the user *)
(* stored with a value.                                                    *)
BootKeepsSettings ==
  [][pc = "load" /\ pc' # "off" =>
       \A k \in Keys : GetParam(kv, k) # EmptyValue
                         => GetParam(kv', k) = GetParam(kv, k)]_vars

(* When loadFromFlash returns, every setting the firmware relies on has a  *)
(* value, unless the table is full of other keys and setParam refused it.  *)
DefaultsUnlessFull ==
  [][pc = "load" /\ pc' = "ready" =>
       \/ \A k \in DefaultKeys : GetParam(kv', k) # EmptyValue
       \/ kv'.entry_count = MAX_ENTRIES]_vars

(* The store is a bounded map with one saved copy, whatever happens to the *)
(* power: a boot starts from the map as it was when the last save ended or *)
(* from nothing, never from a half-written or reordered one.               *)
Abstract ==
  INSTANCE ConfigStore WITH
    config <- ConfigOf(kv),
    saved  <- IF Intact(flash) THEN {ConfigOf(flash.image)} ELSE {},
    phase  <- IF pc = "off" THEN "off"
              ELSE IF pc = "program" THEN "saving"
              ELSE "up"

RefinesConfigStore == Abstract!Spec
=============================================================================
