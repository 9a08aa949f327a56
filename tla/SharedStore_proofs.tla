-------------------------- MODULE SharedStore_proofs --------------------------
(***************************************************************************)
(* What survives without a lock, for every table size, every set of keys   *)
(* and values, and every choice of callbacks that keeps the condition      *)
(* named in the theorem.                                                   *)
(***************************************************************************)
EXTENDS SharedStore, KVTable_proofs

(* No callback changes the table while commitToFlash runs. *)
NoWriteDuringCommit == Preempts["commit"] \subseteq {"stor"}

(* No callback changes the table while setParam or deleteParam runs. *)
NoWriteDuringChange == \A c \in {"set", "delete"} : Preempts[c] \subseteq {"stor"}

(* No callback changes the table while any foreground call runs. *)
SingleWriter == \A c \in Calls \ {"none"} : Preempts[c] \subseteq {"stor"}

-----------------------------------------------------------------------------
(* The statements of each call. *)
StatementsOf ==
  [none   |-> {"idle"},
   set    |-> {"scan", "data", "length", "room", "key", "value", "count", "dirty"},
   delete |-> {"scan", "shiftKey", "shiftValue", "drop", "dirty"},
   commit |-> {"test", "program", "clean"}]

Control == call \in Calls /\ at \in StatementsOf[call]

(* Where the flag tells the truth, and where commitToFlash relies on it. *)
Flag ==
  /\ call = "none" \/ at \in {"scan", "room", "test"} =>
       (~hasChanged => image = kv)
  /\ at = "clean" => image = kv


LEMMA FlagInit == Init => Control /\ Flag
BY DEF Init, Control, StatementsOf, Flag, Calls

LEMMA FlagStep ==
  ASSUME NoWriteDuringCommit, Control, Flag, [Next]_vars
  PROVE  (Control /\ Flag)'
<1> USE DEF Control, StatementsOf, Flag, Calls, Callbacks
<1>1. ASSUME NEW k \in Keys, NEW v \in Values, BeginSet(k, v) PROVE (Control /\ Flag)'
  BY <1>1 DEF BeginSet, Begin
<1>2. ASSUME NEW k \in Keys, BeginDelete(k) PROVE (Control /\ Flag)'
  BY <1>2 DEF BeginDelete, Begin
<1>3. CASE BeginCommit
  BY <1>3 DEF BeginCommit, Begin
<1>4. CASE Scan
  BY <1>4 DEF Scan, Found, GoTo, fgLocals, Finish
<1>5. CASE WriteData \/ WriteLength
  BY <1>5 DEF WriteData, WriteLength, GoTo, fgLocals
<1>6. CASE Room
  BY <1>6 DEF Room, GoTo, fgLocals, Finish
<1>7. CASE FillKey \/ FillValue \/ CountUp
  BY <1>7 DEF FillKey, FillValue, CountUp, GoTo, fgLocals
<1>8. CASE ShiftKey \/ ShiftValue \/ CountDown
  BY <1>8 DEF ShiftKey, ShiftValue, CountDown, GoTo, fgLocals
<1>9. CASE MarkDirty
  BY <1>9 DEF MarkDirty, Finish
<1>10. CASE TestDirty
  BY <1>10 DEF TestDirty, GoTo, fgLocals, Finish
<1>11. CASE Program
  BY <1>11 DEF Program, GoTo, fgLocals
<1>12. CASE ResetDirty
  BY <1>12 DEF ResetDirty, Finish
<1>13. ASSUME NEW k \in Keys, NEW v \in Values, TcpSet(k, v) PROVE (Control /\ Flag)'
  <2>1. call # "commit" /\ UNCHANGED <<call, at, image>>
    BY <1>13 DEF TcpSet, Callback, NoWriteDuringCommit
  <2>2. ~hasChanged' => ~hasChanged /\ kv' = kv
    BY <1>13 DEF TcpSet, SetParam
  <2> QED  BY <2>1, <2>2
<1>14. ASSUME NEW k \in Keys, TcpDelete(k) PROVE (Control /\ Flag)'
  <2>1. call # "commit" /\ UNCHANGED <<call, at, image>>
    BY <1>14 DEF TcpDelete, Callback, NoWriteDuringCommit
  <2>2. ~hasChanged' => ~hasChanged /\ kv' = kv
    BY <1>14 DEF TcpDelete, DeleteParam
  <2> QED  BY <2>1, <2>2
<1>15. CASE TcpCommit
  BY <1>15 DEF TcpCommit, Callback
<1>16. CASE UNCHANGED vars
  BY <1>16 DEF vars
<1> QED
  BY <1>1, <1>2, <1>3, <1>4, <1>5, <1>6, <1>7, <1>8, <1>9, <1>10, <1>11,
     <1>12, <1>13, <1>14, <1>15, <1>16 DEF Next, Foreground, Interrupt

(* A lowered flag means that nothing is left to save, even if both sides   *)
(* write to the table at once and spoil it, as long as no callback writes  *)
(* while commitToFlash runs: the reset of the flag after interrupts are    *)
(* restored is the only place where a change can get lost.                 *)
THEOREM CleanIsSaved == NoWriteDuringCommit => (Spec => []CleanMeansSaved)
<1> SUFFICES ASSUME NoWriteDuringCommit PROVE Spec => []CleanMeansSaved
  OBVIOUS
<1>1. Control /\ Flag /\ [Next]_vars => (Control /\ Flag)'
  BY FlagStep
<1>2. Control /\ Flag => CleanMeansSaved
  BY DEF Flag, CleanMeansSaved
<1> QED  BY FlagInit, <1>1, <1>2, PTL DEF Spec

-----------------------------------------------------------------------------
Key(s) == kv.entries[s].key
Value(s) == kv.entries[s].value

(* The only value that may be torn is the one setParam is writing. *)
Whole ==
  /\ \A s \in Slots : Value(s) \in Values \/ (at = "length" /\ s = i)
  /\ at = "length" => Value(i).data = arg.value.data

(* What the loop variable and the slot behind the last one mean. *)
Position ==
  /\ at = "idle" => i = 0
  /\ at = "scan" => i <= kv.entry_count /\ \A s \in Live(kv) : s < i => Key(s) # arg.key
  /\ at \in {"data", "length"} => i < kv.entry_count /\ Key(i) = arg.key
  /\ at \in {"room", "key", "value", "count"} => ~Holds(kv, arg.key)
  /\ at \in {"key", "value", "count"} => kv.entry_count < MAX_ENTRIES
  /\ at \in {"value", "count"} => Key(kv.entry_count) = arg.key
  /\ at = "count" => Value(kv.entry_count) = arg.value

(* deleteParam has made the entry at i superfluous. *)
Shifting ==
  /\ at \in {"shiftKey", "drop"} =>
       /\ i < kv.entry_count
       /\ Key(i) = arg.key \/ (i > 0 /\ Key(i - 1) = Key(i))
  /\ at = "shiftValue" => i + 1 < kv.entry_count /\ Key(i) = Key(i + 1)
  /\ at = "drop" => i = kv.entry_count - 1

(* Two slots have one key only where deleteParam is copying. *)
Copying(s, t) ==
  \/ at \in {"shiftKey", "drop"} /\ t = i /\ s = i - 1
  \/ at = "shiftValue" /\ s = i /\ t = i + 1

NearlyDistinct ==
  \A s, t \in Live(kv) : s < t /\ Key(s) = Key(t) => Copying(s, t)

(* What has become of the map the call found. *)
Kept ==
  /\ call = "none" => before = NoMap
  /\ call # "commit" => \A k \in DOMAIN before \ Target : Holds(kv, k)
  /\ call = "set" =>
       \A s \in Live(kv) :
         \/ Key(s) = arg.key
         \/ Key(s) \in DOMAIN before /\ before[Key(s)] = Value(s)
  /\ call = "set" /\ at = "scan" => \A s \in Live(kv) : Key(s) \in DOMAIN before
  /\ at \in {"data", "length"} => arg.key \in DOMAIN before
  /\ call = "set" /\ at = "dirty" =>
       \A s \in Live(kv) : Key(s) = arg.key => Value(s) = arg.value

(* commitToFlash changes nothing of it. *)
Untouched ==
  call = "commit" =>
    /\ \A k \in DOMAIN before : Holds(kv, k)
    /\ \A s \in Live(kv) : Key(s) \in DOMAIN before /\ before[Key(s)] = Value(s)

IInv ==
  /\ TypeOK
  /\ Control
  /\ Whole
  /\ Position
  /\ Shifting
  /\ NearlyDistinct
  /\ Kept

LEMMA Typed ==
  ASSUME TypeOK
  PROVE  /\ kv.entry_count \in 0 .. MAX_ENTRIES
         /\ kv.entries \in [Slots -> [key : Keys, value : Torn]]
         /\ \A s \in Slots : Key(s) \in Keys /\ Value(s) \in Torn
         /\ Live(kv) \subseteq Slots
         /\ i \in 0 .. MAX_ENTRIES
         /\ arg.key \in Keys /\ arg.value \in Values
  BY TableAssumption DEF TypeOK, Slots, Live, Key, Value, Pair

LEMMA ValuesAreTorn == Values \subseteq Torn
<1> SUFFICES ASSUME NEW v \in Values PROVE v \in Torn
  OBVIOUS
<1>1. v = [data |-> v.data, len |-> v.len]
  BY SharedAssumption
<1> QED  BY <1>1 DEF Torn

(* Between calls and during a commit the table is one of KVTable, and no   *)
(* key is in it twice.                                                     *)
LEMMA SoundAtRest ==
  ASSUME IInv, call \in {"none", "commit"}
  PROVE  Sound(kv)
<1>1. at \in {"idle", "test", "program", "clean"}
  BY DEF IInv, Control, StatementsOf
<1>2. \A s \in Slots : Key(s) \in Keys /\ Value(s) \in Values
  BY <1>1, Typed DEF IInv, Whole
<1>3. kv \in Table
  BY <1>2, Typed DEF IInv, TypeOK, Table, Pair, Key, Value
<1>4. Distinct(kv)
  <2> SUFFICES ASSUME NEW s \in Live(kv), NEW t \in Live(kv), Key(s) = Key(t)
               PROVE  s = t
    BY DEF Distinct, Key
  <2>1. s \in Int /\ t \in Int
    BY DEF Live
  <2>2. ~(s < t) /\ ~(t < s)
    BY <1>1 DEF IInv, NearlyDistinct, Copying
  <2> QED  BY <2>1, <2>2
<1> QED  BY <1>3, <1>4 DEF Sound

(* The other way round: the state at rest. *)
LEMMA RestFromSound ==
  ASSUME TypeOK, Control, Sound(kv), call \in {"none", "commit"},
         call = "none" => i = 0 /\ before = NoMap
  PROVE  IInv
<1>1. at \in {"idle", "test", "program", "clean"} /\ (at = "idle" => call = "none")
  BY DEF Control, StatementsOf
<1>2. Whole
  BY <1>1, TableShape DEF Whole, Sound, Value
<1>3. NearlyDistinct
  <2> SUFFICES ASSUME NEW s \in Live(kv), NEW t \in Live(kv), s < t, Key(s) = Key(t)
               PROVE  FALSE
    BY DEF NearlyDistinct
  <2> QED  BY DEF Sound, Distinct, Key, Live
<1>4. Kept
  BY <1>1 DEF Kept, NoMap
<1>5. Position /\ Shifting
  BY <1>1 DEF Position, Shifting
<1> QED  BY <1>2, <1>3, <1>4, <1>5 DEF IInv

LEMMA TableIsTyped ==
  ASSUME NEW new \in Table
  PROVE  new \in [entry_count : 0 .. MAX_ENTRIES,
                  entries : [Slots -> [key : Keys, value : Torn]]]
<1>1. Pair \subseteq [key : Keys, value : Torn]
  BY ValuesAreTorn DEF Pair
<1> QED  BY <1>1 DEF Table

LEMMA InitIInv == Init => IInv
<1> SUFFICES ASSUME Init PROVE IInv
  OBVIOUS
<1>1. BootKey \in Keys /\ BootValue \in Values
  BY SharedAssumption
<1>2. SetAccepted(Cleared, BootKey, BootValue)
  BY SharedAssumption, TableAssumption, ClearedSound DEF SetAccepted
<1>3. kv = SetParam(Cleared, BootKey, BootValue)
  BY <1>2, ClearedSound DEF Init, SetParam
<1>4. Sound(kv)
  BY <1>1, <1>3, ClearedSound, SetParamSound
<1>5. TypeOK
  <2>1. kv \in Table /\ image \in Table
    BY <1>4, ClearedSound DEF Init, Sound
  <2>2. NoPair \in Pair
    BY TableAssumption DEF NoPair, Pair
  <2> QED
    BY <2>1, <2>2, TableIsTyped, TableAssumption
    DEF Init, TypeOK, Calls, Statement, NoMap
<1>6. Control
  BY DEF Init, Control, StatementsOf, Calls
<1> QED  BY <1>4, <1>5, <1>6, RestFromSound DEF Init

-----------------------------------------------------------------------------
(* The callbacks. *)
LEMMA CallbackIInv ==
  ASSUME NoWriteDuringChange, IInv, Interrupt
  PROVE  IInv'
<1>1. CASE TcpCommit
  <2>1. TypeOK'
    BY <1>1 DEF TcpCommit, Callback, IInv, TypeOK
  <2> QED
    BY <1>1, <2>1
    DEF TcpCommit, Callback, IInv, Control, Whole, Position, Shifting,
        NearlyDistinct, Copying, Kept, Target, Key, Value
<1>2. ASSUME NEW k \in Keys, NEW v \in Values, TcpSet(k, v) \/ TcpDelete(k)
      PROVE  IInv'
  <2>1. call \in {"none", "commit"} /\ UNCHANGED <<call, at, arg, i, before, image>>
    BY <1>2 DEF TcpSet, TcpDelete, Callback, NoWriteDuringChange, IInv, TypeOK, Calls
  <2>2. Sound(kv)
    BY <2>1, SoundAtRest
  <2>3. Sound(kv')
    BY <1>2, <2>2, SetParamSound, DeleteParamEffect DEF TcpSet, TcpDelete
  <2>4. hasChanged' \in BOOLEAN
    BY <1>2 DEF TcpSet, TcpDelete, IInv, TypeOK
  <2>5. TypeOK'
    <3>1. kv' \in [entry_count : 0 .. MAX_ENTRIES,
                   entries : [Slots -> [key : Keys, value : Torn]]]
      BY <2>3, TableIsTyped DEF Sound
    <3> QED  BY <2>1, <2>4, <3>1 DEF IInv, TypeOK
  <2>6. Control /\ (call = "none" => i = 0 /\ before = NoMap)
    BY DEF IInv, Control, StatementsOf, Position, Kept
  <2>7. (/\ TypeOK /\ Control /\ Sound(kv) /\ call \in {"none", "commit"}
         /\ call = "none" => i = 0 /\ before = NoMap)'
    BY <2>1, <2>3, <2>5, <2>6 DEF NoMap, Control
  <2> QED  BY <2>7, RestFromSound, PTL
<1> QED
  <2>1. CASE \E k \in Keys, v \in Values : TcpSet(k, v)
    BY <1>2, <2>1
  <2>2. CASE \E k \in Keys : TcpDelete(k)
    BY <1>2, <2>2, TableAssumption
  <2> QED  BY <1>1, <2>1, <2>2 DEF Interrupt

-----------------------------------------------------------------------------
(* The start of a call: it finds a table in which no key is twice. *)
LEMMA BeginIInv ==
  ASSUME IInv,
         NEW c \in Calls, NEW k \in Keys, NEW v \in Values,
         NEW first \in {"scan", "test"},
         c = "none" => FALSE,
         first = "test" <=> c = "commit",
         Begin(c, k, v, first)
  PROVE  IInv' /\ Untouched'
<1>1. Sound(kv)
  BY SoundAtRest DEF Begin
<1>2. at = "idle" /\ UNCHANGED <<kv, hasChanged, image>>
      /\ call' = c /\ at' = first /\ i' = 0
      /\ arg' = [key |-> k, value |-> v] /\ before' = ConfigOf(kv)
  BY DEF Begin, IInv, Control, StatementsOf
<1>3. TypeOK'
  <2>1. arg' \in Pair /\ i' \in 0 .. MAX_ENTRIES
    BY <1>2, TableAssumption DEF Pair
  <2>2. DOMAIN before' \subseteq Keys
    BY <1>1, <1>2, TableShape DEF ConfigOf, StoredKeys, Sound
  <2>3. at' \in Statement
    BY <1>2 DEF Statement
  <2> QED  BY <1>2, <2>1, <2>2, <2>3 DEF IInv, TypeOK
<1>4. Control'
  BY <1>2 DEF Control, StatementsOf, Calls
<1>5. Whole' /\ NearlyDistinct'
  BY <1>2 DEF IInv, Whole, NearlyDistinct, Copying, Key, Value
<1>6. Position'
  BY <1>2, Typed DEF IInv, Position, Live, Key
<1>7. Shifting'
  BY <1>2 DEF Shifting
<1>8. Kept' /\ Untouched'
  <2>1. \A x \in DOMAIN before' : Holds(kv, x)
    BY <1>1, <1>2, ConfigDomain
  <2>2. \A s \in Live(kv) : Key(s) \in DOMAIN before' /\ before'[Key(s)] = Value(s)
    BY <1>1, <1>2, GetParamOfSlot DEF ConfigOf, StoredKeys, Key, Value
  <2>3. Live(kv)' = Live(kv) /\ \A s : Key(s)' = Key(s) /\ Value(s)' = Value(s)
    BY <1>2 DEF Live, Key, Value
  <2> QED  BY <1>2, <2>1, <2>2, <2>3 DEF Kept, Untouched, Holds, Matches
<1> QED  BY <1>3, <1>4, <1>5, <1>6, <1>7, <1>8 DEF IInv

(* A step that ends a call and leaves a whole table behind. *)
LEMMA FinishIInv ==
  ASSUME IInv, Finish, UNCHANGED kv,
         hasChanged' \in BOOLEAN, image' \in {image, kv},
         \A s \in Slots : Value(s) \in Values,
         \A s, t \in Live(kv) : ~Copying(s, t)
  PROVE  IInv'
<1>1. TypeOK'
  BY TableAssumption
  DEF Finish, IInv, TypeOK, Calls, Statement, NoPair, NoMap, Pair
<1>2. Control'
  BY DEF Finish, Control, StatementsOf, Calls
<1>3. Whole'
  BY DEF Finish, Whole, Value
<1>4. NearlyDistinct'
  BY DEF Finish, IInv, NearlyDistinct, Key, Live
<1>5. Position' /\ Shifting' /\ Kept'
  BY DEF Finish, Position, Shifting, Kept, NoMap
<1> QED  BY <1>1, <1>2, <1>3, <1>4, <1>5 DEF IInv

(* The search: it ends at the key, at the end of the table, or goes on. *)
LEMMA ScanIInv ==
  ASSUME IInv, Scan
  PROVE  IInv'
<1>1. /\ at = "scan" /\ call \in {"set", "delete"}
      /\ UNCHANGED <<kv, hasChanged, image>>
  BY DEF Scan, Found, IInv, Control, StatementsOf, Calls
<1>2. CASE i >= kv.entry_count /\ call = "delete"
  <2>1. Finish
    BY <1>1, <1>2, Typed DEF Scan, IInv
  <2> QED
    BY <1>1, <1>2, <2>1, FinishIInv DEF IInv, TypeOK, Whole, Copying
<1>3. CASE i >= kv.entry_count /\ call = "set"
  <2>1. at' = "room" /\ UNCHANGED <<call, arg, before, i>>
    BY <1>1, <1>3, Typed DEF Scan, IInv, GoTo, fgLocals
  <2>2. ~Holds(kv, arg.key)
    BY <1>1, <1>3, Typed DEF IInv, Position, Holds, Matches, Live, Key
  <2>3. TypeOK' /\ Control' /\ Whole'
    BY <1>1, <1>3, <2>1
    DEF IInv, TypeOK, Control, StatementsOf, Statement, Whole, Value
  <2>4. Position' /\ Shifting' /\ NearlyDistinct'
    BY <1>1, <2>1, <2>2 DEF IInv, Position, Shifting, NearlyDistinct, Copying, Key
  <2>5. Kept'
    BY <1>1, <1>3, <2>1 DEF IInv, Kept, Target, Key, Value
  <2> QED  BY <2>3, <2>4, <2>5 DEF IInv
<1>4. CASE i < kv.entry_count /\ Key(i) = arg.key
  <2>1. /\ at' = (IF call = "set" THEN "data" ELSE "shiftKey")
        /\ UNCHANGED <<call, arg, before, i>>
    BY <1>1, <1>4, Typed DEF Scan, IInv, GoTo, fgLocals, Key
  <2>2. TypeOK' /\ Control' /\ Whole'
    BY <1>1, <2>1
    DEF IInv, TypeOK, Control, StatementsOf, Statement, Whole, Value
  <2>3. Position' /\ Shifting' /\ NearlyDistinct'
    BY <1>1, <1>4, <2>1 DEF IInv, Position, Shifting, NearlyDistinct, Copying, Key
  <2>4. i \in Live(kv)
    BY <1>4, Typed DEF IInv, Live
  <2>5. Kept'
    BY <1>1, <1>4, <2>1, <2>4 DEF IInv, Kept, Target, Key, Value
  <2> QED  BY <2>2, <2>3, <2>5 DEF IInv
<1>5. CASE i < kv.entry_count /\ Key(i) # arg.key
  <2>1. /\ at' = "scan" /\ i' = i + 1
        /\ UNCHANGED <<call, arg, before>>
    BY <1>1, <1>5, Typed DEF Scan, IInv, GoTo, fgLocals, Key
  <2>2. i + 1 \in 0 .. MAX_ENTRIES
    BY <1>5, Typed, TableAssumption DEF IInv
  <2>3. TypeOK' /\ Control'
    BY <1>1, <2>1, <2>2
    DEF IInv, TypeOK, Control, StatementsOf, Statement
  <2>4. Whole' /\ Shifting' /\ NearlyDistinct'
    BY <1>1, <2>1 DEF IInv, Whole, Shifting, NearlyDistinct, Copying, Key, Value
  <2>5. Position'
    BY <1>1, <1>5, <2>1, Typed DEF IInv, Position, Live, Key
  <2>6. Kept'
    BY <1>1, <2>1 DEF IInv, Kept, Target, Key, Value
  <2> QED  BY <2>3, <2>4, <2>5, <2>6 DEF IInv
<1> QED
  BY <1>1, <1>2, <1>3, <1>4, <1>5, Typed DEF IInv

(* new is kv with the entry of slot n replaced. *)
Replaced(n, key, value) ==
  /\ kv'.entry_count = kv.entry_count
  /\ \A s \in Slots : /\ Key(s)' = (IF s = n THEN key ELSE Key(s))
                      /\ Value(s)' = (IF s = n THEN value ELSE Value(s))

(* Typing of a step inside a call that replaces at most one entry. *)
LEMMA ReplaceTyped ==
  ASSUME IInv, NEW n \in Slots, NEW key \in Keys, NEW value \in Torn,
         kv' = [kv EXCEPT !.entries[n] = [key |-> key, value |-> value]],
         at' \in Statement, i' \in 0 .. MAX_ENTRIES,
         UNCHANGED <<call, arg, before, hasChanged, image>>
  PROVE  TypeOK' /\ Replaced(n, key, value) /\ Live(kv') = Live(kv)
<1>1. kv.entries \in [Slots -> [key : Keys, value : Torn]]
  BY Typed DEF IInv
<1>2. kv' \in [entry_count : 0 .. MAX_ENTRIES,
               entries : [Slots -> [key : Keys, value : Torn]]]
  BY <1>1 DEF IInv, TypeOK
<1>3. Replaced(n, key, value) /\ Live(kv') = Live(kv)
  BY <1>1 DEF Replaced, Key, Value, Live, IInv, TypeOK
<1> QED  BY <1>2, <1>3 DEF IInv, TypeOK

LEMMA OverwriteIInv ==
  ASSUME IInv, WriteData \/ WriteLength
  PROVE  IInv'
<1>1. /\ at \in {"data", "length"} /\ call = "set"
      /\ at' = (IF at = "data" THEN "length" ELSE "dirty")
      /\ UNCHANGED <<call, arg, before, hasChanged, image, i>>
  BY DEF WriteData, WriteLength, GoTo, fgLocals, IInv, Control, StatementsOf, Calls
<1>2. i < kv.entry_count /\ Key(i) = arg.key
  BY <1>1 DEF IInv, Position
<1>3. i \in Slots /\ i \in Live(kv)
  BY <1>2, Typed, TableAssumption DEF IInv, Slots, Live
<1> DEFINE written == IF at = "data" THEN [Value(i) EXCEPT !.data = arg.value.data]
                                     ELSE [Value(i) EXCEPT !.len = arg.value.len]
<1>4. Value(i) \in Torn /\ arg.value \in Values /\ arg.value \in Torn
  BY <1>3, Typed, ValuesAreTorn DEF IInv
<1>5. /\ written \in Torn
      /\ written.data = arg.value.data
      /\ at = "length" => written = arg.value
  <2>1. at = "length" => Value(i).data = arg.value.data
    BY DEF IInv, Whole
  <2>2. CASE at = "data"
    BY <1>4, <2>2 DEF Torn
  <2>3. CASE at = "length"
    BY <1>4, <2>1, <2>3 DEF Torn
  <2> QED  BY <1>1, <2>2, <2>3
<1>6. kv' = [kv EXCEPT !.entries[i] = [key |-> arg.key, value |-> written]]
  <2>1. kv.entries[i] \in [key : Keys, value : Torn]
    BY <1>3, Typed DEF IInv
  <2>2. CASE at = "data"
    BY <1>2, <2>1, <2>2 DEF WriteData, WriteLength, Key, Value
  <2>3. CASE at = "length"
    BY <1>2, <2>1, <2>3 DEF WriteData, WriteLength, NewLength, Key, Value
  <2> QED  BY <1>1, <2>2, <2>3
<1> HIDE DEF written
<1>7. TypeOK' /\ Replaced(i, arg.key, written) /\ Live(kv') = Live(kv)
  <2>1. at' \in Statement /\ i' \in 0 .. MAX_ENTRIES /\ arg.key \in Keys
    BY <1>1, Typed DEF IInv, Statement
  <2> QED  BY <1>1, <1>3, <1>5, <1>6, <2>1, ReplaceTyped
<1>8. Control'
  BY <1>1 DEF Control, StatementsOf, Calls
<1>9. \A s \in Slots : Key(s)' = Key(s)
  BY <1>2, <1>7 DEF Replaced
<1>10. Whole'
  BY <1>1, <1>3, <1>4, <1>5, <1>7 DEF IInv, Whole, Replaced
<1>11. Position' /\ Shifting'
  BY <1>1, <1>2, <1>3, <1>7, <1>9 DEF Position, Shifting, Replaced
<1>12. NearlyDistinct'
  BY <1>1, <1>7, <1>9, Typed DEF IInv, NearlyDistinct, Copying
<1>13. Kept'
  <2>1. \A k : Holds(kv, k) => Holds(kv', k)
    BY <1>7, <1>9, Typed DEF IInv, Holds, Matches, Key
  <2>2. \A s \in Live(kv) : s # i => Value(s)' = Value(s)
    BY <1>7, Typed DEF IInv, Replaced
  <2>3. \A s \in Live(kv) : s # i => Key(s) # arg.key
    BY <1>1, <1>2, <1>3 DEF IInv, NearlyDistinct, Copying, Live
  <2>4. at = "length" => Value(i)' = arg.value
    BY <1>1, <1>3, <1>5, <1>7 DEF Replaced
  <2> QED
    BY <1>1, <1>2, <1>7, <1>9, <2>1, <2>2, <2>3, <2>4, Typed DEF IInv, Kept, Target
<1> QED  BY <1>7, <1>8, <1>10, <1>11, <1>12, <1>13 DEF IInv

(* A new key: nothing changes for the live slots before they are counted. *)
LEMMA RoomIInv ==
  ASSUME IInv, Room
  PROVE  IInv'
<1>1. at = "room" /\ call = "set" /\ UNCHANGED <<kv, hasChanged, image>>
  BY DEF Room, IInv, Control, StatementsOf, Calls
<1>2. CASE ~HasRoom
  BY <1>1, <1>2, FinishIInv DEF Room, IInv, TypeOK, Whole, Copying
<1>3. CASE HasRoom
  <2>1. at' = "key" /\ UNCHANGED <<call, arg, before, i>>
    BY <1>3 DEF Room, GoTo, fgLocals
  <2>2. kv.entry_count < MAX_ENTRIES /\ ~Holds(kv, arg.key)
    BY <1>1, <1>3 DEF HasRoom, IInv, Position
  <2>3. TypeOK' /\ Control'
    BY <1>1, <2>1 DEF IInv, TypeOK, Control, StatementsOf, Statement
  <2>4. Whole' /\ Position' /\ Shifting' /\ NearlyDistinct'
    BY <1>1, <2>1, <2>2
    DEF IInv, Whole, Position, Shifting, NearlyDistinct, Copying, Key, Value
  <2>5. Kept'
    BY <1>1, <2>1 DEF IInv, Kept, Target, Key, Value
  <2> QED  BY <2>3, <2>4, <2>5 DEF IInv
<1> QED  BY <1>2, <1>3

LEMMA FillIInv ==
  ASSUME IInv, FillKey \/ FillValue
  PROVE  IInv'
<1> DEFINE n == kv.entry_count
           value == IF at = "key" THEN Value(n) ELSE arg.value
<1>1. /\ at \in {"key", "value"} /\ call = "set"
      /\ at' = (IF at = "key" THEN "value" ELSE "count")
      /\ UNCHANGED <<call, arg, before, hasChanged, image, i>>
  BY DEF FillKey, FillValue, GoTo, fgLocals, IInv, Control, StatementsOf, Calls
<1>2. n < MAX_ENTRIES /\ ~Holds(kv, arg.key)
  BY <1>1 DEF IInv, Position
<1>3. n \in Slots /\ n \notin Live(kv)
  BY <1>2, Typed, TableAssumption DEF IInv, Slots, Live
<1>4. value \in Values /\ value \in Torn
  BY <1>1, <1>3, Typed, ValuesAreTorn DEF IInv, Whole
<1>5. kv' = [kv EXCEPT !.entries[n] = [key |-> arg.key, value |-> value]]
  <2>1. kv.entries[n] \in [key : Keys, value : Torn]
    BY <1>3, Typed DEF IInv
  <2>2. CASE at = "key"
    BY <2>1, <2>2 DEF FillKey, FillValue, Key, Value
  <2>3. CASE at = "value"
    <3>1. Key(n) = arg.key
      BY <2>3 DEF IInv, Position
    <3> QED  BY <2>1, <2>3, <3>1 DEF FillKey, FillValue, Key, Value
  <2> QED  BY <1>1, <2>2, <2>3
<1>6. at = "value" => value = arg.value
  OBVIOUS
<1> HIDE DEF value
<1>7. TypeOK' /\ Replaced(n, arg.key, value) /\ Live(kv') = Live(kv)
  <2>1. at' \in Statement /\ i' \in 0 .. MAX_ENTRIES /\ arg.key \in Keys
    BY <1>1, Typed DEF IInv, Statement
  <2> QED  BY <1>1, <1>3, <1>4, <1>5, <2>1, ReplaceTyped
<1>8. Control'
  BY <1>1 DEF Control, StatementsOf, Calls
<1>9. \A s \in Live(kv) : Key(s)' = Key(s) /\ Value(s)' = Value(s)
  BY <1>3, <1>7, Typed DEF IInv, Replaced
<1>10. Whole'
  BY <1>1, <1>4, <1>7 DEF IInv, Whole, Replaced
<1>11. Position' /\ Shifting'
  <2>1. kv'.entry_count = n /\ Key(n)' = arg.key /\ Value(n)' = value
    BY <1>3, <1>7 DEF Replaced, Key, Value
  <2>2. ~Holds(kv', arg.key)
    BY <1>2, <1>7, <1>9 DEF Holds, Matches, Key
  <2> QED  BY <1>1, <1>2, <1>6, <2>1, <2>2 DEF Position, Shifting, Key, Value
<1>12. NearlyDistinct'
  BY <1>1, <1>7, <1>9 DEF IInv, NearlyDistinct, Copying
<1>13. Kept'
  <2>1. \A k : Holds(kv', k) <=> Holds(kv, k)
    BY <1>7, <1>9 DEF Holds, Matches, Key
  <2> QED  BY <1>1, <1>7, <1>9, <2>1 DEF IInv, Kept, Target
<1> QED  BY <1>7, <1>8, <1>10, <1>11, <1>12, <1>13 DEF IInv

(* The new entry becomes live with its key and value in place. *)
LEMMA CountUpIInv ==
  ASSUME IInv, CountUp
  PROVE  IInv'
<1> DEFINE n == kv.entry_count
<1>1. /\ at = "count" /\ call = "set" /\ at' = "dirty"
      /\ UNCHANGED <<call, arg, before, hasChanged, image, i>>
  BY DEF CountUp, GoTo, fgLocals, IInv, Control, StatementsOf, Calls
<1>2. n < MAX_ENTRIES /\ ~Holds(kv, arg.key) /\ Key(n) = arg.key /\ Value(n) = arg.value
  BY <1>1 DEF IInv, Position
<1>3. n \in Nat /\ n + 1 \in 0 .. MAX_ENTRIES
  BY <1>2, Typed, TableAssumption DEF IInv
<1>4. kv'.entry_count = n + 1 /\ kv'.entries = kv.entries
  BY DEF CountUp, IInv, TypeOK
<1>5. TypeOK' /\ Control'
  <2>1. kv' \in [entry_count : 0 .. MAX_ENTRIES,
                 entries : [Slots -> [key : Keys, value : Torn]]]
    BY <1>3 DEF CountUp, IInv, TypeOK
  <2> QED
    BY <1>1, <2>1 DEF IInv, TypeOK, Control, StatementsOf, Statement, Calls
<1>6. Live(kv') = Live(kv) \cup {n}
  BY <1>3, <1>4 DEF Live
<1>7. \A s \in Slots : Key(s)' = Key(s) /\ Value(s)' = Value(s)
  BY <1>4 DEF Key, Value
<1>8. \A s \in Live(kv) : Key(s) # arg.key /\ s < n /\ s \in Slots
  BY <1>2, Typed DEF IInv, Holds, Matches, Live, Key
<1>9. n \in Slots
  BY <1>2, <1>3, TableAssumption DEF Slots
<1>10. Whole' /\ Position' /\ Shifting'
  BY <1>1, <1>7 DEF IInv, Whole, Position, Shifting
<1>11. NearlyDistinct'
  BY <1>1, <1>2, <1>3, <1>6, <1>7, <1>8, <1>9 DEF IInv, NearlyDistinct, Copying
<1>12. Kept'
  <2>1. \A k : Holds(kv, k) => Holds(kv', k)
    BY <1>4, <1>6 DEF Holds, Matches
  <2> QED
    BY <1>1, <1>2, <1>6, <1>7, <1>8, <1>9, <2>1 DEF IInv, Kept, Target
<1> QED  BY <1>5, <1>10, <1>11, <1>12 DEF IInv

-----------------------------------------------------------------------------
(* deleteParam: a key is copied over one that is not needed any more. *)
LEMMA ShiftKeyIInv ==
  ASSUME IInv, ShiftKey
  PROVE  IInv'
<1>1. at = "shiftKey" /\ call = "delete" /\ UNCHANGED <<hasChanged, image, i, call, arg, before>>
  BY DEF ShiftKey, GoTo, fgLocals, IInv, Control, StatementsOf, Calls
<1>2. /\ i < kv.entry_count
      /\ Key(i) = arg.key \/ (i > 0 /\ Key(i - 1) = Key(i))
  BY <1>1 DEF IInv, Shifting
<1>3. /\ i \in Nat /\ kv.entry_count \in Nat
      /\ i \in Slots /\ i \in Live(kv)
  BY <1>2, Typed, TableAssumption DEF IInv, Slots, Live
<1>4. CASE ~(i < kv.entry_count - 1)
  <2>1. at' = "drop" /\ UNCHANGED kv
    BY <1>4 DEF ShiftKey, GoTo
  <2>2. TypeOK' /\ Control'
    BY <1>1, <2>1 DEF IInv, TypeOK, Control, StatementsOf, Statement, Calls
  <2>3. i = kv.entry_count - 1
    BY <1>2, <1>3, <1>4
  <2>4. Whole' /\ Position' /\ Shifting' /\ NearlyDistinct' /\ Kept'
    BY <1>1, <1>2, <2>1, <2>3
    DEF IInv, Whole, Position, Shifting, NearlyDistinct, Copying, Kept, Target,
        Key, Value
  <2> QED  BY <2>2, <2>4 DEF IInv
<1>5. CASE i < kv.entry_count - 1
  <2>1. at' = "shiftValue"
        /\ kv' = [kv EXCEPT !.entries[i].key = Key(i + 1)]
    BY <1>5 DEF ShiftKey, GoTo, Key
  <2>2. i + 1 \in Live(kv) /\ i + 1 \in Slots
    BY <1>3, <1>5, Typed DEF IInv, Live
  <2>3. Key(i + 1) \in Keys /\ Value(i) \in Torn
    BY <1>3, <2>2, Typed DEF IInv
  <2>4. kv' = [kv EXCEPT !.entries[i] = [key |-> Key(i + 1), value |-> Value(i)]]
    <3>1. kv.entries[i] \in [key : Keys, value : Torn]
      BY <1>3, Typed DEF IInv
    <3> QED  BY <2>1, <3>1 DEF Value
  <2>5. TypeOK' /\ Replaced(i, Key(i + 1), Value(i)) /\ Live(kv') = Live(kv)
    <3>1. at' \in Statement /\ i' \in 0 .. MAX_ENTRIES
      BY <1>1, <2>1, Typed DEF IInv, Statement
    <3> QED  BY <1>1, <1>3, <2>3, <2>4, <3>1, ReplaceTyped
  <2>6. Control'
    BY <1>1, <2>1 DEF Control, StatementsOf, Calls
  <2>7. \A s \in Slots : /\ Key(s)' = (IF s = i THEN Key(i + 1) ELSE Key(s))
                        /\ Value(s)' = Value(s)
    BY <2>5 DEF Replaced
  <2>8. Whole' /\ Position'
    BY <1>1, <2>1, <2>7 DEF IInv, Whole, Position
  <2>9. Shifting'
    <3>1. i + 1 # i
      BY <1>3
    <3>2. Key(i)' = Key(i + 1) /\ Key(i + 1)' = Key(i + 1)
      BY <1>1, <1>3, <2>2, <2>7, <3>1 DEF Key
    <3>3. i + 1 < kv'.entry_count
      BY <1>3, <1>5, <2>5 DEF Replaced
    <3> QED  BY <1>1, <2>1, <3>2, <3>3 DEF Shifting, Key
  <2>10. NearlyDistinct'
    <3> SUFFICES ASSUME NEW s \in Live(kv), NEW t \in Live(kv), s < t, Key(s)' = Key(t)'
                 PROVE  s = i /\ t = i + 1
      BY <1>1, <2>1, <2>5 DEF NearlyDistinct, Copying
    <3>1. s \in Slots /\ t \in Slots /\ s \in Int /\ t \in Int
      BY Typed DEF IInv, Live
    <3>2. CASE s # i /\ t # i
      BY <1>1, <2>7, <3>1, <3>2 DEF IInv, NearlyDistinct, Copying
    <3>3. CASE s = i
      <4>1. Key(i + 1) = Key(t)
        BY <2>7, <3>1, <3>3
      <4> QED
        BY <1>1, <1>3, <2>2, <3>1, <3>3, <4>1 DEF IInv, NearlyDistinct, Copying
    <3>4. CASE t = i
      <4>1. Key(s) = Key(i + 1)
        BY <2>7, <3>1, <3>4
      <4> QED
        BY <1>1, <1>3, <2>2, <3>1, <3>4, <4>1 DEF IInv, NearlyDistinct, Copying
    <3> QED  BY <3>2, <3>3, <3>4
  <2>11. Kept'
    <3>1. ASSUME NEW k, Holds(kv, k), k # arg.key PROVE Holds(kv', k)
      <4>1. PICK s \in Live(kv) : Key(s) = k
        BY <3>1 DEF Holds, Matches, Key
      <4>2. CASE s # i
        BY <2>5, <2>7, <4>1, <4>2, Typed DEF IInv, Holds, Matches, Key
      <4>3. CASE s = i
        <5>1. i > 0 /\ Key(i - 1) = k
          BY <1>2, <3>1, <4>1, <4>3
        <5>2. i - 1 \in Live(kv) /\ i - 1 # i
          BY <1>3, <5>1 DEF Live
        <5> QED
          BY <2>5, <2>7, <5>1, <5>2, Typed DEF IInv, Holds, Matches, Key
      <4> QED  BY <4>2, <4>3
    <3> QED  BY <1>1, <2>1, <3>1 DEF IInv, Kept, Target
  <2> QED  BY <2>5, <2>6, <2>8, <2>9, <2>10, <2>11 DEF IInv
<1> QED  BY <1>4, <1>5

LEMMA ShiftValueIInv ==
  ASSUME IInv, ShiftValue
  PROVE  IInv'
<1>1. /\ at = "shiftValue" /\ call = "delete" /\ at' = "shiftKey" /\ i' = i + 1
      /\ UNCHANGED <<hasChanged, image, call, arg, before>>
  BY DEF ShiftValue, GoTo, fgLocals, IInv, Control, StatementsOf, Calls
<1>2. i + 1 < kv.entry_count /\ Key(i) = Key(i + 1)
  BY <1>1 DEF IInv, Shifting
<1>3. /\ i \in Nat /\ kv.entry_count \in Nat /\ i + 1 \in 0 .. MAX_ENTRIES
      /\ i \in Slots /\ i + 1 \in Slots
  BY <1>2, Typed, TableAssumption DEF IInv, Slots
<1>4. Key(i) \in Keys /\ Value(i + 1) \in Torn
  BY <1>3, Typed DEF IInv
<1>5. kv' = [kv EXCEPT !.entries[i] = [key |-> Key(i), value |-> Value(i + 1)]]
  <2>1. kv.entries[i] \in [key : Keys, value : Torn]
    BY <1>3, Typed DEF IInv
  <2> QED  BY <2>1 DEF ShiftValue, Key, Value
<1>6. TypeOK' /\ Replaced(i, Key(i), Value(i + 1)) /\ Live(kv') = Live(kv)
  <2>1. at' \in Statement
    BY <1>1 DEF Statement
  <2> QED  BY <1>1, <1>3, <1>4, <1>5, <2>1, ReplaceTyped
<1>7. \A s \in Slots : /\ Key(s)' = Key(s)
                      /\ Value(s)' = (IF s = i THEN Value(i + 1) ELSE Value(s))
  BY <1>6 DEF Replaced
<1>8. Control'
  BY <1>1 DEF Control, StatementsOf, Calls
<1>9. Whole' /\ Position'
  BY <1>1, <1>3, <1>7 DEF IInv, Whole, Position
<1>10. Shifting'
  <2>1. kv'.entry_count = kv.entry_count
    BY <1>6 DEF Replaced
  <2>2. kv'.entries[i].key = Key(i) /\ kv'.entries[i + 1].key = Key(i + 1)
    BY <1>3, <1>7 DEF Key
  <2>3. i + 1 > 0 /\ (i + 1) - 1 = i
    BY <1>3
  <2> QED  BY <1>1, <1>2, <2>1, <2>2, <2>3 DEF Shifting, Key
<1>11. NearlyDistinct'
  <2>1. (i + 1) - 1 = i
    BY <1>3
  <2> QED  BY <1>1, <1>6, <1>7, <2>1, Typed DEF IInv, NearlyDistinct, Copying
<1>12. Kept'
  <2>1. \A k : Holds(kv, k) => Holds(kv', k)
    BY <1>6, <1>7, Typed DEF IInv, Holds, Matches, Key
  <2> QED  BY <1>1, <2>1 DEF IInv, Kept, Target
<1> QED  BY <1>6, <1>8, <1>9, <1>10, <1>11, <1>12 DEF IInv

(* The last slot goes: its key is that of the slot before, or unwanted. *)
LEMMA CountDownIInv ==
  ASSUME IInv, CountDown
  PROVE  IInv'
<1> DEFINE n == kv.entry_count
<1>1. /\ at = "drop" /\ call = "delete" /\ at' = "dirty"
      /\ UNCHANGED <<hasChanged, image, i, call, arg, before>>
  BY DEF CountDown, GoTo, fgLocals, IInv, Control, StatementsOf, Calls
<1>2. /\ i < n /\ i = n - 1
      /\ Key(i) = arg.key \/ (i > 0 /\ Key(i - 1) = Key(i))
  BY <1>1 DEF IInv, Shifting
<1>3. i \in Nat /\ n \in Nat /\ n - 1 \in 0 .. MAX_ENTRIES
  BY <1>2, Typed, TableAssumption DEF IInv
<1>4. kv'.entry_count = n - 1 /\ kv'.entries = kv.entries
  BY DEF CountDown, IInv, TypeOK
<1>5. TypeOK' /\ Control'
  <2>1. kv' \in [entry_count : 0 .. MAX_ENTRIES,
                 entries : [Slots -> [key : Keys, value : Torn]]]
    BY <1>3 DEF CountDown, IInv, TypeOK
  <2> QED
    BY <1>1, <2>1 DEF IInv, TypeOK, Control, StatementsOf, Statement, Calls
<1>6. Live(kv') = Live(kv) \ {i}
  BY <1>2, <1>3, <1>4 DEF Live
<1>7. \A s : Key(s)' = Key(s) /\ Value(s)' = Value(s)
  BY <1>4 DEF Key, Value
<1>8. Whole' /\ Position' /\ Shifting'
  BY <1>1, <1>7 DEF IInv, Whole, Position, Shifting
<1>9. NearlyDistinct'
  BY <1>1, <1>2, <1>3, <1>6, <1>7 DEF IInv, NearlyDistinct, Copying
<1>10. Kept'
  <2>1. ASSUME NEW k, Holds(kv, k), k # arg.key PROVE Holds(kv', k)
    <3>1. PICK s \in Live(kv) : Key(s) = k
      BY <2>1 DEF Holds, Matches, Key
    <3>2. CASE s # i
      BY <1>4, <1>6, <3>1, <3>2 DEF Holds, Matches, Key
    <3>3. CASE s = i
      <4>1. i > 0 /\ Key(i - 1) = k
        BY <1>2, <2>1, <3>1, <3>3
      <4>2. i - 1 \in Live(kv) /\ i - 1 # i
        BY <1>2, <1>3, <4>1 DEF Live
      <4> QED  BY <1>4, <1>6, <4>1, <4>2 DEF Holds, Matches, Key
    <3> QED  BY <3>2, <3>3
  <2> QED  BY <1>1, <2>1 DEF IInv, Kept, Target
<1> QED  BY <1>5, <1>8, <1>9, <1>10 DEF IInv

(* The end of a call that changed the table, and commitToFlash. *)
LEMMA CommitIInv ==
  ASSUME IInv, MarkDirty \/ TestDirty \/ Program \/ ResetDirty
  PROVE  IInv'
<1>1. at \in {"dirty", "test", "program", "clean"} /\ UNCHANGED kv
  BY DEF MarkDirty, TestDirty, Program, ResetDirty
<1>2. \A s \in Slots : Value(s) \in Values
  BY <1>1 DEF IInv, Whole
<1>3. \A s, t \in Live(kv) : ~Copying(s, t)
  BY <1>1 DEF Copying
<1>4. CASE Finish
  <2>1. hasChanged' \in BOOLEAN /\ image' \in {image, kv}
    BY DEF MarkDirty, TestDirty, Program, ResetDirty, IInv, TypeOK
  <2> QED  BY <1>1, <1>2, <1>3, <1>4, <2>1, FinishIInv
<1>5. CASE ~Finish
  <2>1. /\ at \in {"test", "program"} /\ call = "commit"
        /\ at' \in {"program", "clean"}
        /\ UNCHANGED <<call, arg, before, hasChanged, i>>
        /\ image' \in {image, kv}
    BY <1>5 DEF MarkDirty, TestDirty, Program, ResetDirty, GoTo, fgLocals,
                IInv, Control, StatementsOf, Calls
  <2>2. TypeOK' /\ Control'
    BY <1>1, <2>1 DEF IInv, TypeOK, Control, StatementsOf, Statement, Calls
  <2>3. Whole' /\ Position' /\ Shifting'
    BY <1>1, <1>2, <2>1 DEF Whole, Position, Shifting, Key, Value
  <2>4. NearlyDistinct' /\ Kept'
    BY <1>1, <2>1 DEF IInv, NearlyDistinct, Copying, Kept, Target, Key, Value
  <2> QED  BY <2>2, <2>3, <2>4 DEF IInv
<1> QED  BY <1>4, <1>5

LEMMA StepIInv ==
  ASSUME NoWriteDuringChange, IInv, [Next]_vars
  PROVE  IInv'
<1>1. CASE UNCHANGED vars
  BY <1>1 DEF vars, IInv, TypeOK, Control, Whole, Position, Shifting,
              NearlyDistinct, Copying, Kept, Target, Key, Value
<1>2. CASE Interrupt
  BY <1>2, CallbackIInv
<1>3. ASSUME NEW k \in Keys, NEW v \in Values, BeginSet(k, v)
      PROVE  IInv'
  BY <1>3, BeginIInv DEF BeginSet, Calls
<1>4. ASSUME NEW k \in Keys, BeginDelete(k)
      PROVE  IInv'
  BY <1>4, BeginIInv, TableAssumption DEF BeginDelete, Calls
<1>5. CASE BeginCommit
  BY <1>5, BeginIInv, TableAssumption DEF BeginCommit, Calls
<1>6. CASE Scan
  BY <1>6, ScanIInv
<1>7. CASE WriteData \/ WriteLength
  BY <1>7, OverwriteIInv
<1>8. CASE Room
  BY <1>8, RoomIInv
<1>9. CASE FillKey \/ FillValue
  BY <1>9, FillIInv
<1>10. CASE CountUp
  BY <1>10, CountUpIInv
<1>11. CASE ShiftKey
  BY <1>11, ShiftKeyIInv
<1>12. CASE ShiftValue
  BY <1>12, ShiftValueIInv
<1>13. CASE CountDown
  BY <1>13, CountDownIInv
<1>14. CASE MarkDirty \/ TestDirty \/ Program \/ ResetDirty
  BY <1>14, CommitIInv
<1> QED
  BY <1>1, <1>2, <1>3, <1>4, <1>5, <1>6, <1>7, <1>8, <1>9, <1>10, <1>11,
     <1>12, <1>13, <1>14 DEF Next, Foreground

-----------------------------------------------------------------------------
LEMMA Invariant == NoWriteDuringChange => (Spec => []IInv)
<1> SUFFICES ASSUME NoWriteDuringChange PROVE Spec => []IInv
  OBVIOUS
<1>1. IInv /\ [Next]_vars => IInv'
  BY StepIInv
<1> QED  BY InitIInv, <1>1, PTL DEF Spec

(* A commit finds, until it ends, what it found when it began. *)
LEMMA StepUntouched ==
  ASSUME SingleWriter, IInv, Untouched, [Next]_vars
  PROVE  Untouched'
<1>1. CASE \E k \in Keys, v \in Values : BeginSet(k, v)
  BY <1>1 DEF BeginSet, Begin, Untouched
<1>2. CASE \E k \in Keys : BeginDelete(k)
  BY <1>2 DEF BeginDelete, Begin, Untouched
<1>3. CASE BeginCommit
  BY <1>3, BeginIInv, TableAssumption DEF BeginCommit, Calls
<1>4. CASE call = "commit" /\ UNCHANGED <<kv, before>>
  BY <1>4 DEF Untouched, Key, Value
<1>5. CASE call' # "commit"
  BY <1>5 DEF Untouched
<1>6. CASE TestDirty \/ Program \/ ResetDirty
  <2>1. UNCHANGED kv /\ (call' # "commit" \/ UNCHANGED <<call, before>>)
    BY <1>6 DEF TestDirty, Program, ResetDirty, Finish, GoTo, fgLocals
  <2>2. call = "commit"
    BY <1>6 DEF TestDirty, Program, ResetDirty, IInv, Control, StatementsOf, Calls
  <2> QED  BY <1>4, <1>5, <2>1, <2>2
<1>7. CASE \/ Scan \/ WriteData \/ WriteLength \/ Room \/ FillKey \/ FillValue
           \/ CountUp \/ ShiftKey \/ ShiftValue \/ CountDown \/ MarkDirty
  <2>1. call # "commit"
    BY <1>7 DEF Scan, WriteData, WriteLength, Room, FillKey, FillValue, CountUp,
                ShiftKey, ShiftValue, CountDown, MarkDirty,
                IInv, Control, StatementsOf, Calls
  <2>2. call' = call \/ call' = "none"
    BY <1>7 DEF Scan, WriteData, WriteLength, Room, FillKey, FillValue, CountUp,
                ShiftKey, ShiftValue, CountDown, MarkDirty, Finish, GoTo, fgLocals
  <2> QED  BY <1>5, <2>1, <2>2
<1>8. CASE Interrupt
  <2>1. UNCHANGED <<call, before>> /\ (call # "none" => UNCHANGED kv)
    BY <1>8 DEF Interrupt, TcpSet, TcpDelete, TcpCommit, Callback, SingleWriter,
                IInv, TypeOK
  <2> QED  BY <1>4, <1>5, <2>1
<1>9. CASE UNCHANGED vars
  BY <1>4, <1>5, <1>9 DEF vars
<1> QED
  BY <1>1, <1>2, <1>3, <1>6, <1>7, <1>8, <1>9 DEF Next, Foreground

LEMMA InvariantAlone == SingleWriter => (Spec => [](IInv /\ Untouched))
<1> SUFFICES ASSUME SingleWriter PROVE Spec => [](IInv /\ Untouched)
  OBVIOUS
<1>1. NoWriteDuringChange
  BY DEF SingleWriter, NoWriteDuringChange, Calls
<1>2. Init => Untouched
  BY DEF Init, Untouched
<1>3. IInv /\ Untouched /\ [Next]_vars => (IInv /\ Untouched)'
  BY <1>1, StepIInv, StepUntouched
<1> QED  BY InitIInv, <1>2, <1>3, PTL DEF Spec

(* No statement indexes the table out of its bounds, and its count stays   *)
(* within them, for every size, unless a callback writes while setParam or *)
(* deleteParam runs: a slot tested for or found may be gone then.          *)
THEOREM TypeCorrect == NoWriteDuringChange => (Spec => []TypeOK)
<1>1. IInv => TypeOK
  BY DEF IInv
<1> QED  BY Invariant, <1>1, PTL

(* A callback that looks up a key which the foreground is not working on   *)
(* finds it at every statement of setParam and deleteParam: a deletion     *)
(* copies a key before it gives up the slot the key was in.                *)
THEOREM BystandersAreFound == SingleWriter => (Spec => []BystandersFound)
<1>1. IInv /\ Untouched => BystandersFound
  BY DEF IInv, Kept, Untouched, BystandersFound
<1> QED  BY InvariantAlone, <1>1, PTL

(* A callback reads the value that was stored, wherever in setParam or     *)
(* commitToFlash it arrives; of a new entry it sees nothing or all.        *)
THEOREM ReadsStoredValues == SingleWriter => (Spec => []ReadsAreStored)
<1>1. ASSUME IInv, Untouched, call # "delete" PROVE ReadsAreStored
  <2>1. \A s, t \in Live(kv) : Key(s) = Key(t) => s = t
    <3> SUFFICES ASSUME NEW s \in Live(kv), NEW t \in Live(kv), Key(s) = Key(t)
                 PROVE  s = t
      OBVIOUS
    <3>1. s \in Int /\ t \in Int
      BY DEF Live
    <3>2. at \notin {"shiftKey", "drop", "shiftValue"}
      BY <1>1 DEF IInv, Control, StatementsOf, Calls
    <3>3. ~(s < t) /\ ~(t < s)
      BY <1>1, <3>2 DEF IInv, NearlyDistinct, Copying
    <3> QED  BY <3>1, <3>3
  <2>2. \A k : Holds(kv, k) =>
          \E s \in Live(kv) : Key(s) = k /\ GetParam(kv, k) = Value(s)
    <3> SUFFICES ASSUME NEW k, Holds(kv, k)
                 PROVE  \E s \in Live(kv) : Key(s) = k /\ GetParam(kv, k) = Value(s)
      OBVIOUS
    <3>1. PICK s \in Matches(kv, k) : TRUE
      BY DEF Holds
    <3>2. s \in Live(kv) /\ Key(s) = k /\ s \in Int
      BY <3>1 DEF Matches, Key, Live
    <3>3. \A t \in Matches(kv, k) : t = s
      BY <2>1, <3>2 DEF Matches, Key
    <3>4. \A t \in Matches(kv, k) : s <= t
      BY <3>2, <3>3
    <3>5. IndexOf(kv, k) \in Matches(kv, k)
      BY <3>1, <3>4 DEF IndexOf
    <3>6. IndexOf(kv, k) = s
      BY <3>3, <3>5
    <3> QED  BY <3>2, <3>6 DEF GetParam, Value
  <2>3. CASE call = "none"
    BY <1>1, <2>3 DEF IInv, Kept, NoMap, ReadsAreStored
  <2>4. CASE call # "none"
    <3>1. call \in {"set", "commit"}
      BY <1>1, <2>4 DEF IInv, TypeOK, Calls
    <3>2. \A k \in DOMAIN before \ Target : GetParam(kv, k) = before[k]
      <4> SUFFICES ASSUME NEW k \in DOMAIN before \ Target
                   PROVE  GetParam(kv, k) = before[k]
        OBVIOUS
      <4>1. Holds(kv, k)
        BY <1>1, <3>1 DEF IInv, Kept, Untouched
      <4>2. PICK s \in Live(kv) : Key(s) = k /\ GetParam(kv, k) = Value(s)
        BY <2>2, <4>1
      <4>3. ~(call = "set" /\ Key(s) = arg.key)
        BY <4>2 DEF Target
      <4> QED  BY <1>1, <3>1, <4>2, <4>3 DEF IInv, Kept, Untouched
    <3>3. ASSUME call = "set", arg.key \notin DOMAIN before, Holds(kv, arg.key)
          PROVE  GetParam(kv, arg.key) = arg.value
      <4>1. PICK s \in Live(kv) : Key(s) = arg.key /\ GetParam(kv, arg.key) = Value(s)
        BY <2>2, <3>3
      <4>2. at = "dirty"
        <5>1. at \in {"scan", "data", "length", "room", "key", "value", "count", "dirty"}
          BY <1>1, <3>3 DEF IInv, Control, StatementsOf
        <5>2. at # "scan"
          BY <1>1, <3>3, <4>1 DEF IInv, Kept
        <5>3. at \notin {"data", "length"}
          BY <1>1, <3>3 DEF IInv, Kept
        <5>4. at \notin {"room", "key", "value", "count"}
          BY <1>1, <3>3 DEF IInv, Position
        <5> QED  BY <5>1, <5>2, <5>3, <5>4
      <4> QED  BY <1>1, <3>3, <4>1, <4>2 DEF IInv, Kept
    <3> QED  BY <3>2, <3>3 DEF ReadsAreStored
  <2> QED  BY <2>3, <2>4
<1>2. IInv /\ Untouched => ReadsAreStored
  BY <1>1 DEF ReadsAreStored
<1> QED  BY InvariantAlone, <1>2, PTL

(* Between calls of the foreground no key is in two slots and no value is  *)
(* torn, unless a callback writes while setParam or deleteParam runs.  So  *)
(* a write that meets commitToFlash may be lost, but does not spoil the    *)
(* table; for two writers of the table the theorem says nothing, and       *)
(* AddedIfNew is violated by them.                                         *)
THEOREM StaysWhole == NoWriteDuringChange => (Spec => []WholeWhenIdle)
<1>1. ASSUME IInv, call = "none" PROVE WholeWhenIdle
  <2>1. Sound(kv)
    BY <1>1, SoundAtRest
  <2> QED  BY <2>1, TableShape DEF Sound, WholeWhenIdle
<1>2. IInv => WholeWhenIdle
  BY <1>1 DEF WholeWhenIdle
<1> QED  BY Invariant, <1>2, PTL
=============================================================================
