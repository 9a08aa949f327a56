----------------------------- MODULE SharedStore -----------------------------
(***************************************************************************)
(* The one KVStore object shared by the USB loop (the foreground) and the  *)
(* TCP callbacks.  The server is linked with                               *)
(* cyw43_arch_lwip_threadsafe_background, so a callback runs in interrupt  *)
(* context: it may come between any two statements of a foreground call,   *)
(* and completes before that call goes on.  KVStore has no lock.           *)
(*                                                                         *)
(* A foreground call is therefore a sequence of steps, a callback is one   *)
(* step, and Preempts says which callbacks the clients send while which    *)
(* foreground call runs.                                                   *)
(***************************************************************************)
EXTENDS KVTable

CONSTANTS
  BootKey, BootValue, \* the pair that is in the table when both sides start
  Preempts            \* Calls -> the callbacks that may come during the call

Calls == {"none", "set", "delete", "commit"}
Callbacks == {"kset", "kdel", "stor"}

ASSUME SharedAssumption ==
  /\ BootKey \in Keys \ OversizedKeys
  /\ BootValue \in Values \ OversizedValues
  /\ \A v \in Values : v = [data |-> v.data, len |-> v.len]
  /\ Preempts \in [Calls -> SUBSET Callbacks]

VARIABLES
  kv,         \* kv_store
  hasChanged, \* the dirty flag
  image,      \* what the flash sector holds
  call,       \* the foreground call under way
  at,         \* the statement it has reached
  arg,        \* its key and value
  i,          \* its loop variable
  before      \* history: the map the table stood for when the call began

vars == <<kv, hasChanged, image, call, at, arg, i, before>>
fgLocals == <<call, arg, before>>

(* A value is bytes with a length; the two are written one after the other. *)
Torn == [data : {v.data : v \in Values}, len : {v.len : v \in Values}]

NoMap == [k \in {} |-> EmptyValue]
NoPair == [key |-> EmptyKey, value |-> EmptyValue]

Statement ==
  {"idle", "scan", "data", "length", "room", "key", "value", "count",
   "shiftKey", "shiftValue", "drop", "dirty", "test", "program", "clean"}

TypeOK ==
  /\ kv \in [entry_count : 0 .. MAX_ENTRIES,
             entries : [Slots -> [key : Keys, value : Torn]]]
  /\ image \in [entry_count : 0 .. MAX_ENTRIES,
                entries : [Slots -> [key : Keys, value : Torn]]]
  /\ hasChanged \in BOOLEAN
  /\ call \in Calls
  /\ at \in Statement
  /\ arg \in Pair
  /\ i \in 0 .. MAX_ENTRIES
  /\ DOMAIN before \subseteq Keys

(* Both sides start after a boot from a blank sector. *)
Init ==
  /\ kv = Insert(Cleared, BootKey, BootValue)
  /\ hasChanged = TRUE
  /\ image = Cleared
  /\ call = "none"
  /\ at = "idle"
  /\ arg = NoPair
  /\ i = 0
  /\ before = NoMap

-----------------------------------------------------------------------------
(* The foreground: the calls the USB commands kset, kdel and stor make. *)
Begin(c, k, v, first) ==
  /\ call = "none"
  /\ call' = c
  /\ at' = first
  /\ arg' = [key |-> k, value |-> v]
  /\ i' = 0
  /\ before' = ConfigOf(kv)
  /\ UNCHANGED <<kv, hasChanged, image>>

(* handleSet calls with a key and a value, and setParam refuses long ones. *)
BeginSet(k, v) ==
  /\ k # EmptyKey /\ v # EmptyValue
  /\ k \notin OversizedKeys
  /\ v \notin OversizedValues
  /\ Begin("set", k, v, "scan")

BeginDelete(k) ==
  /\ k # EmptyKey
  /\ Begin("delete", k, EmptyValue, "scan")

BeginCommit == Begin("commit", EmptyKey, EmptyValue, "test")

Finish ==
  /\ call' = "none"
  /\ at' = "idle"
  /\ arg' = NoPair
  /\ i' = 0
  /\ before' = NoMap

GoTo(statement) ==
  /\ at' = statement
  /\ UNCHANGED fgLocals

(* Mutant: deleteParam lowers the count before it moves the entries. *)
FoundAndDropped ==
  IF call = "set" THEN kv ELSE [kv EXCEPT !.entry_count = @ - 1]

Found == kv

(* One iteration of the loop over the entries, or its end. *)
Scan ==
  /\ at = "scan"
  /\ UNCHANGED <<hasChanged, image>>
  /\ \/ /\ i >= kv.entry_count
        /\ UNCHANGED kv
        /\ IF call = "set" THEN GoTo("room") /\ UNCHANGED i ELSE Finish
     \/ /\ i < kv.entry_count
        /\ kv.entries[i].key = arg.key
        /\ kv' = Found
        /\ GoTo(IF call = "set" THEN "data" ELSE "shiftKey")
        /\ UNCHANGED i
     \/ /\ i < kv.entry_count
        /\ kv.entries[i].key # arg.key
        /\ UNCHANGED kv
        /\ i' = i + 1
        /\ GoTo("scan")

(* setParam on a key it found: memcpy, then valueLength. *)
WriteData ==
  /\ at = "data"
  /\ kv' = [kv EXCEPT !.entries[i].value.data = arg.value.data]
  /\ GoTo("length")
  /\ UNCHANGED <<hasChanged, image, i>>

(* Mutant: the length of the old value stays. *)
LengthStays == kv.entries[i].value.len

NewLength == arg.value.len

WriteLength ==
  /\ at = "length"
  /\ kv' = [kv EXCEPT !.entries[i].value.len = NewLength]
  /\ GoTo("dirty")
  /\ UNCHANGED <<hasChanged, image, i>>

(* Mutant: the bound of the table is not tested. *)
HasRoomAlways == TRUE

HasRoom == kv.entry_count < MAX_ENTRIES

(* setParam on a new key: the slot is filled, then counted. *)
Room ==
  /\ at = "room"
  /\ IF HasRoom
     THEN GoTo("key") /\ UNCHANGED i
     ELSE Finish
  /\ UNCHANGED <<kv, hasChanged, image>>

(* Mutant: a new key is added first, then updated like one that was found. *)
FillKeyAndCount ==
  /\ at = "key"
  /\ kv' = [kv EXCEPT !.entries[kv.entry_count].key = arg.key,
                      !.entry_count = @ + 1]
  /\ i' = kv.entry_count
  /\ GoTo("data")
  /\ UNCHANGED <<hasChanged, image>>

FillKey ==
  /\ at = "key"
  /\ kv' = [kv EXCEPT !.entries[kv.entry_count].key = arg.key]
  /\ GoTo("value")
  /\ UNCHANGED <<hasChanged, image, i>>

FillValue ==
  /\ at = "value"
  /\ kv' = [kv EXCEPT !.entries[kv.entry_count].value = arg.value]
  /\ GoTo("count")
  /\ UNCHANGED <<hasChanged, image, i>>

CountUp ==
  /\ at = "count"
  /\ kv' = [kv EXCEPT !.entry_count = @ + 1]
  /\ GoTo("dirty")
  /\ UNCHANGED <<hasChanged, image, i>>

(* deleteParam: every later entry is copied down, key before value. *)
ShiftKey ==
  /\ at = "shiftKey"
  /\ IF i < kv.entry_count - 1
     THEN /\ kv' = [kv EXCEPT !.entries[i].key = kv.entries[i + 1].key]
          /\ GoTo("shiftValue")
     ELSE /\ GoTo("drop")
          /\ UNCHANGED kv
  /\ UNCHANGED <<hasChanged, image, i>>

ShiftValue ==
  /\ at = "shiftValue"
  /\ kv' = [kv EXCEPT !.entries[i].value = kv.entries[i + 1].value]
  /\ i' = i + 1
  /\ GoTo("shiftKey")
  /\ UNCHANGED <<hasChanged, image>>

(* Mutant: deleteParam does not mark the table changed. *)
CountDownUnmarked ==
  /\ at = "drop"
  /\ kv' = [kv EXCEPT !.entry_count = @ - 1]
  /\ Finish
  /\ UNCHANGED <<hasChanged, image>>

CountDown ==
  /\ at = "drop"
  /\ kv' = [kv EXCEPT !.entry_count = @ - 1]
  /\ GoTo("dirty")
  /\ UNCHANGED <<hasChanged, image, i>>

MarkDirty ==
  /\ at = "dirty"
  /\ hasChanged' = TRUE
  /\ Finish
  /\ UNCHANGED <<kv, image>>

(* commitToFlash: the test, the write with interrupts disabled, and the    *)
(* reset of the flag after interrupts are restored.                        *)
TestDirty ==
  /\ at = "test"
  /\ IF hasChanged THEN GoTo("program") /\ UNCHANGED i ELSE Finish
  /\ UNCHANGED <<kv, hasChanged, image>>

Program ==
  /\ at = "program"
  /\ image' = kv
  /\ GoTo("clean")
  /\ UNCHANGED <<kv, hasChanged, i>>

ResetDirty ==
  /\ at = "clean"
  /\ hasChanged' = FALSE
  /\ Finish
  /\ UNCHANGED <<kv, image>>

-----------------------------------------------------------------------------
(* The TCP callbacks, each a whole call. *)
Callback(c) ==
  /\ c \in Preempts[call]
  /\ UNCHANGED <<call, at, arg, i, before>>

TcpSet(k, v) ==
  /\ kv' = SetParam(kv, k, v)
  /\ hasChanged' = (hasChanged \/ SetAccepted(kv, k, v))
  /\ UNCHANGED image
  /\ Callback("kset")

TcpDelete(k) ==
  /\ kv' = DeleteParam(kv, k)
  /\ hasChanged' = (hasChanged \/ Holds(kv, k))
  /\ UNCHANGED image
  /\ Callback("kdel")

TcpCommit ==
  /\ hasChanged
  /\ image' = kv
  /\ hasChanged' = FALSE
  /\ UNCHANGED kv
  /\ Callback("stor")

Foreground ==
  \/ \E k \in Keys, v \in Values : BeginSet(k, v)
  \/ \E k \in Keys : BeginDelete(k)
  \/ BeginCommit
  \/ Scan \/ WriteData \/ WriteLength
  \/ Room \/ FillKey \/ FillValue \/ CountUp
  \/ ShiftKey \/ ShiftValue \/ CountDown \/ MarkDirty
  \/ TestDirty \/ Program \/ ResetDirty

Interrupt ==
  \/ \E k \in Keys, v \in Values : TcpSet(k, v)
  \/ \E k \in Keys : TcpDelete(k)
  \/ TcpCommit

Next == Foreground \/ Interrupt

Spec == Init /\ [][Next]_vars

-----------------------------------------------------------------------------
(* The key a foreground call is setting or deleting. *)
Target == IF call \in {"set", "delete"} THEN {arg.key} ELSE {}

(* A callback that looks up a key nobody is setting or deleting finds it,  *)
(* wherever in a foreground call it arrives: the copies of deleteParam     *)
(* never leave a moment in which a moved entry is nowhere.                 *)
BystandersFound ==
  \A k \in DOMAIN before \ Target : Holds(kv, k)

(* Unless entries are being moved, the callback reads what was stored, and *)
(* a key that is being added shows up only with its whole value.           *)
ReadsAreStored ==
  call # "delete" =>
    /\ \A k \in DOMAIN before \ Target : GetParam(kv, k) = before[k]
    /\ call = "set" /\ arg.key \notin DOMAIN before /\ Holds(kv, arg.key) =>
         GetParam(kv, arg.key) = arg.value

(* When the foreground is between calls, no key is in two live slots and   *)
(* every live value is one that somebody stored.  Two writers at once can  *)
(* break it (AddedIfNew); this is about saves in the middle of its calls,  *)
(* and about writes while it commits or rests.                             *)
WholeWhenIdle ==
  call = "none" =>
    /\ Distinct(kv)
    /\ \A s \in Live(kv) : kv.entries[s].value \in Values

(* "If new, add it" (config_storage.cpp:147): between calls of the          *)
(* foreground no key has been added that was in the table already.         *)
AddedIfNew == call = "none" => Distinct(kv)

(* "Commit to flash only if changes are made" (config_storage.cpp:45): when *)
(* the foreground is between calls and the flag is down there is nothing   *)
(* to save, which is what "Flash already up to date" then tells the user.  *)
CleanMeansSaved ==
  call = "none" /\ ~hasChanged => image = kv
=============================================================================
