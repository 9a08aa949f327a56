------------------------------ MODULE Boot_proofs -----------------------------
(***************************************************************************)
(* What the boot sequence keeps, for every set of keys, values, defaults   *)
(* and authentication modes, every size of the table, and whatever the     *)
(* access point does.                                                      *)
(***************************************************************************)
EXTENDS Boot, FiniteSetTheorems, TLAPS

(* A map that fits the table. *)
Fits(c) ==
  /\ c \in Maps
  /\ IsFiniteSet(DOMAIN c)
  /\ Cardinality(DOMAIN c) <= MAX_ENTRIES

(* At most one map, and one that fits. *)
Copy(S) == S = {} \/ \E c \in Maps : Fits(c) /\ S = {c}

Maintained == Fits(config) /\ Copy(saved) /\ Copy(kept)

(* The rest of the type invariant: everything that is not in the store. *)
Ranges ==
  /\ phase \in {"off", "up", "saving"}
  /\ pc \in {"off", "loop", "abort"} \cup Booting
  /\ rotation \in Angles
  /\ stored \in Numeric \cup {Empty}
  /\ retry \in 1 .. 3
  /\ turn \in DOMAIN auth_modes
  /\ mode \in Listed \cup {Empty}
  /\ listening \subseteq {"udp", "tcp"}
  /\ started \in BOOLEAN
  /\ network \in Networks \cup {NoNetwork}

(* What main has not come to yet has its initial value. *)
Fresh ==
  /\ pc = "off" => phase = "off" /\ listening = {} /\ ~started
  /\ pc \in {"off", "defaults", "construct", "wifi"} => stored = Empty
  /\ pc \in {"off", "defaults", "construct", "wifi", "stored"} =>
       mode = Empty /\ retry = 1 /\ turn = 1

BeforeSave ==
  {"defaults", "construct", "wifi", "stored", "round", "remember", "commit", "abort"}
BeforeServer == BeforeSave \cup {"saving", "multicast", "run"}

(* Until the server listens, main alone uses the store. *)
Alone ==
  pc \in BeforeServer =>
    /\ "tcp" \notin listening
    /\ phase = IF pc = "saving" THEN "saving" ELSE "up"

(* The copy that the boot began with stands until main commits. *)
CopyStands ==
  /\ pc \in BeforeSave => saved = kept
  /\ pc \in {"multicast", "run"} => saved \in {kept, {config}}

(* The boot adds defaults to the map it found and touches nothing else but *)
(* the mode.                                                               *)
Grown ==
  pc \in BeforeServer =>
    /\ \A k \in DOMAIN config :
         k \in DOMAIN Defaults \/ \E c \in kept : k \in DOMAIN c
    /\ \A c \in kept : \A k \in DOMAIN c \ {Auth} :
         c[k] # Empty => k \in DOMAIN config /\ config[k] = c[k]

(* The mode is untouched, too, until the server has found another. *)
ModeStands ==
  pc \in BeforeSave \ {"commit"} =>
    /\ \A c \in kept : Auth \in DOMAIN c =>
         Auth \in DOMAIN config /\ (c[Auth] # Empty => config[Auth] = c[Auth])
    /\ getParam(Auth) # Empty => getParam(Auth) = NextMode

(* What the constructor of KVStore leaves to the rest of the boot. *)
Defaulted ==
  pc \in BeforeSave \ {"defaults", "commit"} =>
    IF Auth \in DOMAIN config THEN config[Auth] # Empty ELSE Full

(* Where the modes that main holds come from. *)
Modes ==
  /\ pc \in {"stored", "round", "remember"} => stored = getParam(Auth) /\ stored # Empty
  /\ pc = "stored" => stored \in Listed
  /\ pc \in {"remember", "commit", "saving", "multicast", "run"} => mode \in Listed
  /\ pc \in {"commit", "saving"} => getParam(Auth) = mode
  /\ pc \in {"multicast", "run"} => NextMode = mode
  /\ pc = "abort" => getParam(Auth) \notin Numeric

(* m has been tried for so many milliseconds, in vain. *)
Failed(m, timeout) == network.steady => ~Answers(m, timeout)

(* Which attempts lie behind the one that is next. *)
Tried ==
  /\ pc = "round" =>
       /\ stored \in Listed => Failed(stored, 5000)
       /\ \A n \in DOMAIN auth_modes :
            auth_modes[n] # stored =>
              /\ n < turn => Failed(auth_modes[n], 2000 * retry)
              /\ retry > 1 => Failed(auth_modes[n], 2000 * (retry - 1))
  /\ pc = "report" /\ stored # Empty /\ mode = Empty =>
       \A m \in Listed : Failed(m, IF m = stored THEN 5000 ELSE 6000)

IInv ==
  /\ Ranges
  /\ Maintained
  /\ Fresh
  /\ Alone
  /\ CopyStands
  /\ Grown
  /\ ModeStands
  /\ Defaulted
  /\ Modes
  /\ Tried
-----------------------------------------------------------------------------
LEMMA MapShape ==
  ASSUME NEW c \in Maps
  PROVE  /\ DOMAIN c \subseteq Keys
         /\ \A k \in DOMAIN c : c[k] \in Values
  BY DEF Maps

LEMMA NoEntriesFits == Fits(Store!NoEntries) /\ DOMAIN Store!NoEntries = {}
<1>1. DOMAIN Store!NoEntries = {} /\ Store!NoEntries \in [{} -> Values]
  BY DEF Store!NoEntries
<1>2. Store!NoEntries \in Maps
  BY <1>1 DEF Maps
<1>3. IsFiniteSet({}) /\ Cardinality({}) = 0
  BY FS_EmptySet
<1> QED  BY <1>1, <1>2, <1>3, BootAssumption DEF Fits

(* What setParam makes of a map, when it accepts the pair. *)
LEMMA PutFits ==
  ASSUME Fits(config), NEW k \in Keys, NEW v \in Values, Store!Put(k, v)
  PROVE  /\ Fits(config')
         /\ DOMAIN config' = DOMAIN config \cup {k}
         /\ config'[k] = v
         /\ \A x \in DOMAIN config \ {k} : config'[x] = config[x]
         /\ UNCHANGED <<saved, phase>>
         /\ phase = "up"
<1>1. /\ config' = [x \in DOMAIN config \cup {k} |-> IF x = k THEN v ELSE config[x]]
      /\ k \in DOMAIN config \/ Cardinality(DOMAIN config) < MAX_ENTRIES
      /\ UNCHANGED <<saved, phase>>
      /\ phase = "up"
  <2>1. \A S : Store!Cardinality(S) = Cardinality(S)
    BY DEF Store!Cardinality, Cardinality
  <2> QED  BY <2>1 DEF Store!Put
<1>2. DOMAIN config \subseteq Keys /\ \A x \in DOMAIN config : config[x] \in Values
  BY MapShape DEF Fits
<1>3. config' \in [DOMAIN config \cup {k} -> Values]
  BY <1>1, <1>2
<1>4. config' \in Maps
  BY <1>2, <1>3 DEF Maps
<1>5. /\ IsFiniteSet(DOMAIN config \cup {k})
      /\ Cardinality(DOMAIN config \cup {k}) =
           IF k \in DOMAIN config THEN Cardinality(DOMAIN config)
                                  ELSE Cardinality(DOMAIN config) + 1
  BY FS_AddElement DEF Fits
<1>6. Cardinality(DOMAIN config) \in Nat
  BY FS_CardinalityType DEF Fits
<1>7. Cardinality(DOMAIN config \cup {k}) <= MAX_ENTRIES
  BY <1>1, <1>5, <1>6, BootAssumption DEF Fits
<1> QED  BY <1>1, <1>4, <1>5, <1>7 DEF Fits

(* What deleteParam makes of a map that holds the key. *)
LEMMA RemoveFits ==
  ASSUME Fits(config), NEW k \in Keys, Store!Remove(k)
  PROVE  Fits(config') /\ UNCHANGED <<saved, phase>>
<1>1. /\ config' = [x \in DOMAIN config \ {k} |-> config[x]]
      /\ k \in DOMAIN config
      /\ UNCHANGED <<saved, phase>>
  BY DEF Store!Remove
<1>2. DOMAIN config \subseteq Keys /\ \A x \in DOMAIN config : config[x] \in Values
  BY MapShape DEF Fits
<1>3. config' \in [DOMAIN config \ {k} -> Values]
  BY <1>1, <1>2
<1>4. config' \in Maps
  BY <1>2, <1>3 DEF Maps
<1>5. /\ IsFiniteSet(DOMAIN config \ {k})
      /\ Cardinality(DOMAIN config \ {k}) = Cardinality(DOMAIN config) - 1
  BY <1>1, FS_RemoveElement DEF Fits
<1>6. Cardinality(DOMAIN config) \in Nat
  BY FS_CardinalityType DEF Fits
<1> QED  BY <1>1, <1>4, <1>5, <1>6, BootAssumption DEF Fits

(* The saved map decides the next mode if it names one, else the default. *)
LEMMA NextModeOf ==
  ASSUME Copy(saved)
  PROVE  /\ \A c \in saved : Auth \in DOMAIN c /\ c[Auth] # Empty => NextMode = c[Auth]
         /\ (\A c \in saved : Auth \in DOMAIN c => c[Auth] = Empty)
              => NextMode = Defaults[Auth]
<1>1. ASSUME NEW c \in saved, Auth \in DOMAIN c, c[Auth] # Empty
      PROVE  NextMode = c[Auth]
  <2>1. saved = {c}
    BY <1>1 DEF Copy
  <2>2. (CHOOSE x \in saved : TRUE) \in saved
    BY <1>1
  <2>3. (CHOOSE x \in saved : TRUE) = c
    BY <2>1, <2>2
  <2> QED  BY <1>1, <2>3 DEF NextMode
<1>2. ASSUME \A c \in saved : Auth \in DOMAIN c => c[Auth] = Empty
      PROVE  NextMode = Defaults[Auth]
  BY <1>2 DEF NextMode
<1> QED  BY <1>1, <1>2

LEMMA CopyIsSmall ==
  ASSUME NEW S, Copy(S)
  PROVE  S \in SUBSET Maps /\ Cardinality(S) <= 1
<1>1. CASE S = {}
  BY <1>1, FS_EmptySet
<1>2. ASSUME NEW c \in Maps, S = {c} PROVE S \in SUBSET Maps /\ Cardinality(S) <= 1
  BY <1>2, FS_Singleton
<1> QED  BY <1>1, <1>2 DEF Copy

(* As long as the store is left alone, so is what is read from it. *)
LEMMA SameStore ==
  ASSUME UNCHANGED <<config, saved>>
  PROVE  /\ \A k : getParam(k)' = getParam(k)
         /\ NextMode' = NextMode
         /\ Full' = Full
         /\ Missing' = Missing
<1>1. \A k : getParam(k)' = getParam(k)
  BY DEF getParam
<1>2. NextMode' = NextMode
  BY DEF NextMode
<1>3. Full' = Full
  BY DEF Full
<1> QED  BY <1>1, <1>2, <1>3 DEF Missing

LEMMA Constants ==
  /\ Auth # Rotation
  /\ Empty \in Values /\ Empty \notin Numeric /\ Empty \notin Listed
  /\ Listed \subseteq Numeric
  /\ Auth \in DOMAIN Defaults /\ Rotation \in DOMAIN Defaults
  /\ \A k \in DOMAIN Defaults : k \in Keys /\ Defaults[k] \in Values /\ Defaults[k] # Empty
  /\ Defaults[Auth] \in Numeric /\ Defaults[Rotation] \in Angles
  /\ Len(auth_modes) \in Nat \ {0} /\ DOMAIN auth_modes = 1 .. Len(auth_modes)
  /\ \A n \in DOMAIN auth_modes : auth_modes[n] \in Listed
  BY BootAssumption DEF Listed, Auth, Rotation

LEMMA Typed == Ranges /\ Maintained => TypeOK
<1>1. Maintained => config \in Maps /\ Cardinality(DOMAIN config) <= MAX_ENTRIES
  BY DEF Maintained, Fits
<1>2. Maintained => saved \in SUBSET Maps /\ Cardinality(saved) <= 1 /\ kept \in SUBSET Maps
  BY CopyIsSmall DEF Maintained
<1> QED  BY <1>1, <1>2 DEF Ranges, TypeOK

-----------------------------------------------------------------------------
(* The invariant holds when the power is off, *)
LEMMA InitInv == Init => IInv
<1> SUFFICES ASSUME Init PROVE IInv
  OBVIOUS
<1>1. /\ config = Store!NoEntries /\ saved = {} /\ phase = "off" /\ pc = "off"
      /\ rotation = Defaults[Rotation]
      /\ stored = Empty /\ mode = Empty /\ retry = 1 /\ turn = 1
      /\ listening = {} /\ started = FALSE /\ network = NoNetwork /\ kept = {}
  BY DEF Init, Store!Init
<1>2. Maintained
  BY <1>1, NoEntriesFits DEF Maintained, Copy
<1>3. Ranges
  <2>1. 1 \in DOMAIN auth_modes
    BY Constants
  <2>2. rotation \in Angles
    BY <1>1, Constants
  <2>3. started \in BOOLEAN
    BY <1>1
  <2>4. stored \in Numeric \cup {Empty} /\ mode \in Listed \cup {Empty}
    BY <1>1
  <2>5. retry \in 1 .. 3
    BY <1>1
  <2>6. network \in Networks \cup {NoNetwork}
    BY <1>1
  <2>7. listening \subseteq {"udp", "tcp"}
    BY <1>1
  <2> QED  BY <1>1, <2>1, <2>2, <2>3, <2>4, <2>5, <2>6, <2>7 DEF Ranges
<1>4. Fresh /\ Alone /\ CopyStands /\ Grown /\ ModeStands /\ Defaulted /\ Modes /\ Tried
  BY <1>1 DEF Fresh, Alone, CopyStands, Grown, ModeStands, Defaulted, Modes, Tried,
              BeforeServer, BeforeSave
<1> QED  BY <1>2, <1>3, <1>4 DEF IInv

LEMMA PowerOnStep ==
  ASSUME IInv, PowerOn
  PROVE  IInv'
<1>1. /\ pc = "off" /\ pc' = "defaults" /\ kept' = saved /\ saved' = saved
      /\ phase' = "up" /\ network' \in Networks
      /\ config' \in IF saved = {} THEN {Store!NoEntries} ELSE saved
      /\ UNCHANGED <<rotation, attempts, results>>
  BY DEF PowerOn, Store!Boot
<1>2. Maintained'
  BY <1>1, NoEntriesFits DEF IInv, Maintained, Copy
<1>3. Ranges'
  BY <1>1 DEF IInv, Ranges, attempts, results, Booting
<1>4. Fresh' /\ Alone' /\ CopyStands' /\ Defaulted' /\ Modes' /\ Tried'
  BY <1>1 DEF IInv, Fresh, Alone, CopyStands, Defaulted, Modes, Tried,
              BeforeServer, BeforeSave, attempts, results
<1>5. CASE saved = {}
  <2>1. DOMAIN config' = {} /\ kept' = {}
    BY <1>1, <1>5, NoEntriesFits
  <2> QED  BY <1>2, <1>3, <1>4, <2>1 DEF IInv, Grown, ModeStands, getParam
<1>6. CASE saved # {}
  <2>1. PICK c \in Maps : saved = {c}
    BY <1>6 DEF IInv, Maintained, Copy
  <2>2. config' = c /\ kept' = {c} /\ saved' = {c}
    BY <1>1, <1>6, <2>1
  <2>3. Grown'
    BY <2>2 DEF Grown
  <2>4. Auth \in DOMAIN c /\ c[Auth] # Empty => NextMode' = c[Auth]
    BY <1>2, <2>2, NextModeOf DEF Maintained, NextMode, Copy
  <2>5. ModeStands'
    BY <2>2, <2>4 DEF ModeStands, getParam
  <2> QED  BY <1>2, <1>3, <1>4, <2>3, <2>5 DEF IInv
<1> QED  BY <1>5, <1>6

(* A default is set for a key that reads as empty: either it was not there *)
(* or its value was empty.                                                 *)
LEMMA ApplyDefaultStep ==
  ASSUME IInv, ApplyDefault
  PROVE  IInv'
<1>1. /\ pc = "defaults" /\ pc' = "defaults" /\ phase = "up"
      /\ UNCHANGED <<rotation, attempts, results, network, kept>>
  BY DEF ApplyDefault, At, GoTo
<1>2. PICK d \in Missing : Store!Put(d, Defaults[d])
  BY DEF ApplyDefault
<1>3. d \in DOMAIN Defaults /\ d \in Keys /\ Defaults[d] \in Values /\ Defaults[d] # Empty
      /\ (d \in DOMAIN config => config[d] = Empty)
  BY <1>2, Constants DEF Missing, getParam
<1>4. /\ Fits(config')
      /\ DOMAIN config' = DOMAIN config \cup {d}
      /\ config'[d] = Defaults[d]
      /\ \A x \in DOMAIN config \ {d} : config'[x] = config[x]
      /\ UNCHANGED <<saved, phase>>
  BY <1>2, <1>3, PutFits DEF IInv, Maintained
<1>5. Maintained' /\ Ranges'
  BY <1>1, <1>4 DEF IInv, Maintained, Ranges, attempts, results
<1>6. Fresh' /\ Alone' /\ CopyStands' /\ Defaulted' /\ Modes' /\ Tried'
  BY <1>1, <1>4 DEF IInv, Fresh, Alone, CopyStands, Defaulted, Modes, Tried,
              BeforeServer, BeforeSave, attempts, results
<1>7. Grown'
  BY <1>1, <1>3, <1>4 DEF IInv, Grown, BeforeServer, BeforeSave
<1>8. NextMode' = NextMode /\ saved = kept
  BY <1>1, <1>4 DEF NextMode, IInv, CopyStands, BeforeSave
<1>9. ASSUME NEW c \in kept, Auth \in DOMAIN c
      PROVE  Auth \in DOMAIN config' /\ (c[Auth] # Empty => config'[Auth] = c[Auth])
  BY <1>1, <1>3, <1>4, <1>9 DEF IInv, ModeStands, BeforeSave
<1>10. getParam(Auth)' # Empty => getParam(Auth)' = NextMode
  <2>1. CASE d = Auth
    <3>1. \A c \in saved : Auth \in DOMAIN c => c[Auth] = Empty
      BY <1>1, <1>3, <1>8, <2>1 DEF IInv, ModeStands, BeforeSave
    <3>2. NextMode = Defaults[Auth]
      BY <3>1, NextModeOf DEF IInv, Maintained
    <3> QED  BY <1>4, <2>1, <3>2 DEF getParam
  <2>2. CASE d # Auth
    BY <1>1, <1>4, <2>2 DEF IInv, ModeStands, BeforeSave, getParam
  <2> QED  BY <2>1, <2>2
<1>11. ModeStands'
  BY <1>1, <1>8, <1>9, <1>10 DEF ModeStands
<1> QED  BY <1>5, <1>6, <1>7, <1>11 DEF IInv

LEMMA DefaultsAppliedStep ==
  ASSUME IInv, DefaultsApplied
  PROVE  IInv'
<1>1. /\ pc = "defaults" /\ pc' = "construct" /\ phase = "up"
      /\ \A k \in Missing : k \notin DOMAIN config /\ Full
      /\ UNCHANGED <<settings, rotation, attempts, results, network, kept>>
  BY DEF DefaultsApplied, At, GoTo
<1>2. UNCHANGED <<config, saved, phase, rotation, stored, retry, turn, mode,
                  listening, started, network, kept>>
  BY <1>1 DEF settings, attempts, results
<1>3. getParam(Auth)' = getParam(Auth) /\ NextMode' = NextMode /\ Full' = Full
  BY <1>2, SameStore
<1>4. IF Auth \in DOMAIN config THEN config[Auth] # Empty ELSE Full
  BY <1>1, Constants DEF Missing, getParam
<1>5. Maintained' /\ Ranges' /\ Grown' /\ Defaulted'
  BY <1>1, <1>2, <1>3, <1>4 DEF IInv, Maintained, Ranges, Booting, Grown, Defaulted,
                      BeforeServer, BeforeSave
<1>6. ModeStands'
  BY <1>1, <1>2, <1>3 DEF IInv, ModeStands, BeforeSave
<1>7. Fresh' /\ Alone' /\ CopyStands' /\ Modes' /\ Tried'
  BY <1>1, <1>2 DEF IInv, Fresh, Alone, CopyStands, Modes, Tried, BeforeServer, BeforeSave
<1> QED  BY <1>5, <1>6, <1>7 DEF IInv

LEMMA ApiServerStep ==
  ASSUME IInv, ApiServer
  PROVE  IInv'
<1>1. /\ pc = "construct" /\ pc' = "wifi" /\ phase = "up"
      /\ rotation' = RightAngle(getParam(Rotation))
      /\ UNCHANGED <<settings, attempts, results, network, kept>>
  BY DEF ApiServer, At, GoTo
<1>2. UNCHANGED <<config, saved, phase, stored, retry, turn, mode,
                  listening, started, network, kept>>
  BY <1>1 DEF settings, attempts, results
<1>3. getParam(Auth)' = getParam(Auth) /\ NextMode' = NextMode /\ Full' = Full
  BY <1>2, SameStore
<1>4. rotation' \in Angles
  BY <1>1, Constants DEF RightAngle
<1>5. Maintained' /\ Ranges' /\ Grown' /\ Defaulted'
  BY <1>1, <1>2, <1>3, <1>4 DEF IInv, Maintained, Ranges, Booting, Connecting, Grown,
                                Defaulted, BeforeServer, BeforeSave
<1>6. ModeStands'
  BY <1>1, <1>2, <1>3 DEF IInv, ModeStands, BeforeSave
<1>7. Fresh' /\ Alone' /\ CopyStands' /\ Modes' /\ Tried'
  BY <1>1, <1>2 DEF IInv, Fresh, Alone, CopyStands, Modes, Tried, BeforeServer, BeforeSave
<1> QED  BY <1>5, <1>6, <1>7 DEF IInv

LEMMA NoWiFiStep ==
  ASSUME IInv, NoWiFi
  PROVE  IInv'
<1>1. /\ pc = "wifi" /\ pc' = "report" /\ phase = "up"
      /\ UNCHANGED <<config, saved, phase, rotation, stored, retry, turn, mode,
                     listening, started, network, kept>>
  BY DEF NoWiFi, Fail, At, GoTo, settings, attempts, results
<1>2. Maintained' /\ Ranges'
  BY <1>1 DEF IInv, Maintained, Ranges, Booting
<1>3. /\ Fresh' /\ Alone' /\ CopyStands' /\ Grown' /\ ModeStands' /\ Defaulted'
      /\ Modes' /\ Tried'
  BY <1>1 DEF IInv, Fresh, Alone, CopyStands, Grown, ModeStands, Defaulted, Modes,
              Tried, BeforeServer, BeforeSave
<1> QED  BY <1>2, <1>3 DEF IInv

LEMMA AbortStep ==
  ASSUME IInv, Abort
  PROVE  IInv'
<1>1. /\ pc = "wifi" /\ pc' = "abort" /\ phase = "up" /\ getParam(Auth) \notin Numeric
      /\ UNCHANGED <<config, saved, phase, rotation, stored, retry, turn, mode,
                     listening, started, network, kept>>
  BY DEF Abort, At, GoTo, settings, attempts, results
<1>2. getParam(Auth)' = getParam(Auth) /\ NextMode' = NextMode /\ Full' = Full
  BY <1>1, SameStore
<1>3. Maintained' /\ Ranges' /\ Grown' /\ Defaulted'
  BY <1>1, <1>2 DEF IInv, Maintained, Ranges, Grown, Defaulted, BeforeServer, BeforeSave
<1>4. ModeStands'
  BY <1>1, <1>2 DEF IInv, ModeStands, BeforeSave
<1>5. Fresh' /\ Alone' /\ CopyStands' /\ Modes' /\ Tried'
  BY <1>1, <1>2 DEF IInv, Fresh, Alone, CopyStands, Modes, Tried, BeforeServer, BeforeSave
<1> QED  BY <1>3, <1>4, <1>5 DEF IInv

LEMMA ReadStoredModeStep ==
  ASSUME IInv, ReadStoredMode
  PROVE  IInv'
<1>1. /\ pc = "wifi" /\ phase = "up" /\ getParam(Auth) \in Numeric
      /\ stored' = getParam(Auth)
      /\ pc' = IF stored' \in Listed THEN "stored" ELSE "round"
      /\ UNCHANGED <<config, saved, phase, rotation, retry, turn, mode,
                     listening, started, network, kept>>
  BY DEF ReadStoredMode, At, GoTo, settings, results
<1>2. getParam(Auth)' = getParam(Auth) /\ NextMode' = NextMode /\ Full' = Full
  BY <1>1, SameStore
<1>3. stored' # Empty
  BY <1>1, Constants
<1>4. pc' \in {"stored", "round"} /\ (pc' = "stored" => stored' \in Listed)
      /\ (pc' = "round" => stored' \notin Listed)
  BY <1>1
<1>5. Maintained' /\ Ranges' /\ Grown' /\ Defaulted'
  BY <1>1, <1>2, <1>4 DEF IInv, Maintained, Ranges, Booting, Connecting, Grown,
                          Defaulted, BeforeServer, BeforeSave
<1>6. ModeStands'
  BY <1>1, <1>2, <1>4 DEF IInv, ModeStands, BeforeSave
<1>7. Fresh' /\ Alone' /\ CopyStands' /\ Modes'
  BY <1>1, <1>2, <1>3, <1>4 DEF IInv, Fresh, Alone, CopyStands, Modes, BeforeServer, BeforeSave
<1>8. retry = 1 /\ turn = 1
  BY <1>1 DEF IInv, Fresh
<1>9. Tried'
  BY <1>1, <1>4, <1>8, Constants DEF Tried
<1> QED  BY <1>5, <1>6, <1>7, <1>9 DEF IInv

(* The mode the boot found is the one it connects with. *)
LEMMA TryStoredStep ==
  ASSUME IInv, TryStored
  PROVE  IInv'
<1>1. /\ pc = "stored" /\ phase = "up"
      /\ UNCHANGED <<config, saved, phase, rotation, stored, retry, turn,
                     listening, started, network, kept>>
  BY DEF TryStored, Connected, At, GoTo, settings, attempts, results
<1>2. getParam(Auth)' = getParam(Auth) /\ NextMode' = NextMode /\ Full' = Full
  BY <1>1, SameStore
<1>3. /\ stored \in Listed /\ stored = getParam(Auth) /\ stored = NextMode
      /\ saved = kept
  BY <1>1 DEF IInv, Modes, ModeStands, CopyStands, BeforeSave
<1>4. CASE Answers(stored, 5000) /\ Connected(stored, "multicast")
  <2>1. pc' = "multicast" /\ mode' = stored
    BY <1>4 DEF Connected, GoTo
  <2>2. Maintained' /\ Ranges' /\ Grown'
    BY <1>1, <1>3, <2>1 DEF IInv, Maintained, Ranges, Booting, Grown, BeforeServer, BeforeSave
  <2>3. Fresh' /\ Alone' /\ CopyStands' /\ ModeStands' /\ Defaulted' /\ Modes' /\ Tried'
    BY <1>1, <1>2, <1>3, <2>1 DEF IInv, Fresh, Alone, CopyStands, ModeStands, Defaulted,
                                  Modes, Tried, BeforeServer, BeforeSave
  <2> QED  BY <2>2, <2>3 DEF IInv
<1>5. CASE Refuses(stored, 5000) /\ GoTo("round") /\ UNCHANGED attempts
  <2>1. pc' = "round" /\ UNCHANGED mode /\ Failed(stored, 5000)
    BY <1>5 DEF GoTo, attempts, Refuses, Failed
  <2>2. Maintained' /\ Ranges' /\ Grown' /\ Defaulted'
    BY <1>1, <1>2, <2>1 DEF IInv, Maintained, Ranges, Booting, Connecting, Grown,
                            Defaulted, BeforeServer, BeforeSave
  <2>3. ModeStands'
    BY <1>1, <1>2, <2>1 DEF IInv, ModeStands, BeforeSave
  <2>4. Fresh' /\ Alone' /\ CopyStands' /\ Modes'
    BY <1>1, <1>2, <2>1 DEF IInv, Fresh, Alone, CopyStands, Modes, BeforeServer, BeforeSave
  <2>5. retry = 1 /\ turn = 1 /\ Failed(stored, 5000)'
    BY <1>1, <2>1 DEF IInv, Fresh, Failed, Answers
  <2>6. Tried'
    BY <1>1, <2>1, <2>5, Constants DEF Tried
  <2> QED  BY <2>2, <2>3, <2>4, <2>6 DEF IInv
<1> QED  BY <1>4, <1>5 DEF TryStored

(* An attempt that failed, or was not made because it was made before. *)
LEMMA NextAttemptStep ==
  ASSUME IInv, pc = "round",
         auth_modes[turn] # stored => Failed(auth_modes[turn], 2000 * retry),
         NextAttempt
  PROVE  IInv'
<1>1. UNCHANGED <<config, saved, phase, rotation, stored, mode,
                  listening, started, network, kept>>
  BY DEF NextAttempt, Fail, GoTo, settings, attempts, results
<1>2. getParam(Auth)' = getParam(Auth) /\ NextMode' = NextMode /\ Full' = Full
  BY <1>1, SameStore
<1>3. \A m, t : Failed(m, t)' = Failed(m, t)
  BY <1>1 DEF Failed, Answers
<1>4. retry \in 1 .. 3 /\ turn \in 1 .. Len(auth_modes) /\ Len(auth_modes) \in Nat
  BY Constants DEF IInv, Ranges
<1>5. ASSUME NEW n \in DOMAIN auth_modes, auth_modes[n] # stored
      PROVE  /\ n <= turn => Failed(auth_modes[n], 2000 * retry)
             /\ retry > 1 => Failed(auth_modes[n], 2000 * (retry - 1))
  BY <1>4, <1>5, Constants DEF IInv, Tried
<1>6. stored \in Listed => Failed(stored, 5000)
  BY DEF IInv, Tried
<1>7. ASSUME pc' = "round", turn' \in DOMAIN auth_modes, retry' \in 1 .. 3, Tried'
      PROVE  IInv'
  <2>1. Maintained' /\ Ranges' /\ Grown' /\ Defaulted'
    BY <1>1, <1>2, <1>7 DEF IInv, Maintained, Ranges, Grown, Defaulted, BeforeServer, BeforeSave
  <2>2. ModeStands'
    BY <1>1, <1>2, <1>7 DEF IInv, ModeStands, BeforeSave
  <2>3. Fresh' /\ Alone' /\ CopyStands' /\ Modes'
    BY <1>1, <1>2, <1>7 DEF IInv, Fresh, Alone, CopyStands, Modes, BeforeServer, BeforeSave
  <2> QED  BY <1>7, <2>1, <2>2, <2>3 DEF IInv
<1>8. CASE turn < Len(auth_modes) /\ turn' = turn + 1 /\ GoTo("round") /\ UNCHANGED retry
  <2>1. pc' = "round" /\ turn' \in DOMAIN auth_modes /\ retry' = retry
    BY <1>4, <1>8, Constants DEF GoTo
  <2>2. Tried'
    BY <1>1, <1>3, <1>4, <1>5, <1>6, <1>8, <2>1, Constants DEF Tried
  <2> QED  BY <1>4, <1>7, <2>1, <2>2
<1>9. CASE /\ turn = Len(auth_modes) /\ retry < 3
           /\ turn' = FirstTurn /\ retry' = NextRetry /\ GoTo("round")
  <2>1. pc' = "round" /\ turn' = 1 /\ retry' = retry + 1 /\ turn' \in DOMAIN auth_modes
    BY <1>9, Constants DEF GoTo, FirstTurn, NextRetry
  <2>2. retry' \in 1 .. 3 /\ retry' - 1 = retry
    BY <1>4, <1>9, <2>1
  <2>3. ASSUME NEW n \in DOMAIN auth_modes, auth_modes[n] # stored
        PROVE  ~(n < turn') /\ Failed(auth_modes[n], 2000 * (retry' - 1))
    BY <1>3, <1>4, <1>5, <1>9, <2>1, <2>2, <2>3, Constants
  <2>4. Tried'
    BY <1>1, <1>3, <1>6, <2>1, <2>2, <2>3 DEF Tried
  <2> QED  BY <1>7, <2>1, <2>2, <2>4
<1>10. CASE turn = Len(auth_modes) /\ retry = 3 /\ Fail
  <2>1. pc' = "report" /\ UNCHANGED <<retry, turn>>
    BY <1>10 DEF Fail, GoTo, attempts
  <2>2. \A n \in DOMAIN auth_modes : auth_modes[n] # stored => Failed(auth_modes[n], 6000)
    BY <1>4, <1>5, <1>10, Constants
  <2>3. \A m \in Listed : Failed(m, IF m = stored THEN 5000 ELSE 6000)
    BY <1>6, <2>2 DEF Listed
  <2>4. Tried'
    BY <1>1, <1>3, <2>1, <2>3 DEF Tried
  <2>5. Maintained' /\ Ranges'
    BY <1>1, <2>1 DEF IInv, Maintained, Ranges, Booting
  <2>6. Fresh' /\ Alone' /\ CopyStands' /\ Grown' /\ ModeStands' /\ Defaulted' /\ Modes'
    BY <1>1, <2>1 DEF IInv, Fresh, Alone, CopyStands, Grown, ModeStands, Defaulted, Modes,
                BeforeServer, BeforeSave
  <2> QED  BY <2>4, <2>5, <2>6 DEF IInv
<1> QED  BY <1>8, <1>9, <1>10 DEF NextAttempt

LEMMA TryModeStep ==
  ASSUME IInv, TryMode
  PROVE  IInv'
<1> DEFINE m == auth_modes[turn]
<1>1. pc = "round" /\ phase = "up"
  BY DEF TryMode, At
<1>2. CASE m = stored /\ NextAttempt
  BY <1>1, <1>2, NextAttemptStep
<1>3. CASE m # stored /\ Refuses(m, 2000 * retry) /\ NextAttempt
  BY <1>1, <1>3, NextAttemptStep DEF Refuses, Failed
<1>4. CASE m # stored /\ Answers(m, 2000 * retry) /\ Connected(m, "remember")
  <2>1. pc' = "remember" /\ mode' = m
        /\ UNCHANGED <<config, saved, phase, rotation, stored, retry, turn,
                       listening, started, network, kept>>
    BY <1>4 DEF Connected, GoTo, settings, results
  <2>2. getParam(Auth)' = getParam(Auth) /\ NextMode' = NextMode /\ Full' = Full
    BY <2>1, SameStore
  <2>3. mode' \in Listed
    BY <2>1, Constants DEF IInv, Ranges
  <2>4. Maintained' /\ Ranges' /\ Grown' /\ Defaulted'
    BY <1>1, <2>1, <2>2, <2>3 DEF IInv, Maintained, Ranges, Booting, Connecting, Grown,
                                  Defaulted, BeforeServer, BeforeSave
  <2>5. ModeStands'
    BY <1>1, <2>1, <2>2 DEF IInv, ModeStands, BeforeSave
  <2>6. Fresh' /\ Alone' /\ CopyStands' /\ Modes' /\ Tried'
    BY <1>1, <2>1, <2>2, <2>3 DEF IInv, Fresh, Alone, CopyStands, Modes, Tried,
                                  BeforeServer, BeforeSave
  <2> QED  BY <2>4, <2>5, <2>6 DEF IInv
<1> QED  BY <1>2, <1>3, <1>4 DEF TryMode

(* The table cannot refuse the mode: its key is there already. *)
LEMMA RememberStep ==
  ASSUME IInv, Remember
  PROVE  IInv'
<1>1. /\ pc = "remember" /\ pc' = "commit" /\ phase = "up" /\ setParam(Auth, mode)
      /\ UNCHANGED <<rotation, stored, retry, turn, mode, listening, started,
                     network, kept>>
  BY DEF Remember, At, GoTo, attempts, results
<1>2. Auth \in DOMAIN config
  BY <1>1 DEF IInv, Modes, getParam
<1>3. Auth \in Keys /\ mode \in Values /\ mode \in Listed
  BY <1>1, Constants, BootAssumption DEF IInv, Modes
<1>4. Store!Put(Auth, mode)
  BY <1>1, <1>2 DEF setParam
<1>5. /\ Fits(config')
      /\ DOMAIN config' = DOMAIN config /\ config'[Auth] = mode
      /\ \A x \in DOMAIN config \ {Auth} : config'[x] = config[x]
      /\ UNCHANGED <<saved, phase>>
  BY <1>2, <1>3, <1>4, PutFits DEF IInv, Maintained
<1>6. getParam(Auth)' = mode'
  BY <1>1, <1>2, <1>5 DEF getParam
<1>7. Maintained' /\ Ranges' /\ Grown'
  BY <1>1, <1>5 DEF IInv, Maintained, Ranges, Booting, Connecting, Grown,
                    BeforeServer, BeforeSave
<1>8. /\ Fresh' /\ Alone' /\ CopyStands' /\ ModeStands' /\ Defaulted'
      /\ Modes' /\ Tried'
  BY <1>1, <1>3, <1>5, <1>6 DEF IInv, Fresh, Alone, CopyStands, ModeStands, Defaulted,
                                Modes, Tried, BeforeServer, BeforeSave
<1> QED  BY <1>7, <1>8 DEF IInv

LEMMA CommitStep ==
  ASSUME IInv, Commit
  PROVE  IInv'
<1>1. /\ pc = "commit" /\ pc' = "saving" /\ phase' = "saving" /\ saved' = {}
      /\ UNCHANGED <<config, rotation, stored, retry, turn, mode, listening, started,
                     network, kept>>
  BY DEF Commit, At, GoTo, Store!BeginSave, attempts, results
<1>2. getParam(Auth)' = getParam(Auth)
  BY <1>1 DEF getParam
<1>3. Maintained' /\ Ranges' /\ Grown'
  BY <1>1 DEF IInv, Maintained, Copy, Ranges, Booting, Connecting, Grown,
              BeforeServer, BeforeSave
<1>4. /\ Fresh' /\ Alone' /\ CopyStands' /\ ModeStands' /\ Defaulted'
      /\ Modes' /\ Tried'
  BY <1>1, <1>2 DEF IInv, Fresh, Alone, CopyStands, ModeStands, Defaulted,
                    Modes, Tried, BeforeServer, BeforeSave
<1> QED  BY <1>3, <1>4 DEF IInv

(* The new copy names the mode that worked. *)
LEMMA CommittedStep ==
  ASSUME IInv, Committed
  PROVE  IInv'
<1>1. /\ pc = "saving" /\ pc' = "multicast" /\ phase' = "up" /\ saved' = {config}
      /\ UNCHANGED <<config, rotation, stored, retry, turn, mode, listening, started,
                     network, kept>>
  BY DEF Committed, GoTo, Store!EndSave, attempts, results
<1>2. config \in Maps /\ Copy(saved')
  BY <1>1 DEF IInv, Maintained, Fits, Copy
<1>3. Maintained' /\ Ranges' /\ Grown'
  BY <1>1, <1>2 DEF IInv, Maintained, Copy, Ranges, Booting, Grown, BeforeServer, BeforeSave
<1>4. mode \in Listed /\ Auth \in DOMAIN config /\ config[Auth] = mode /\ mode # Empty
  BY <1>1, Constants DEF IInv, Modes, getParam
<1>5. NextMode' = mode
  <2>1. (CHOOSE c \in saved' : TRUE) \in saved'
    BY <1>1
  <2>2. (CHOOSE c \in saved' : TRUE) = config
    BY <1>1, <2>1
  <2> QED  BY <1>1, <1>4, <2>2 DEF NextMode
<1>6. /\ Fresh' /\ Alone' /\ CopyStands' /\ ModeStands' /\ Defaulted'
      /\ Modes' /\ Tried'
  BY <1>1, <1>4, <1>5 DEF IInv, Fresh, Alone, CopyStands, ModeStands, Defaulted,
                          Modes, Tried, BeforeServer, BeforeSave
<1> QED  BY <1>3, <1>6 DEF IInv

LEMMA ListenerStep ==
  ASSUME IInv, setup_multicast_listener \/ run
  PROVE  IInv'
<1>1. /\ phase = "up" /\ listening' \subseteq listening \cup {"udp", "tcp"}
      /\ started' \in {started, TRUE}
      /\ \/ pc = "multicast" /\ pc' = "run" /\ ("tcp" \in listening' => "tcp" \in listening)
         \/ pc = "run" /\ pc' = "report"
      /\ UNCHANGED <<config, saved, phase, rotation, stored, retry, turn, mode,
                     network, kept>>
  BY DEF setup_multicast_listener, run, At, GoTo, settings, attempts
<1>2. NextMode' = NextMode
  BY <1>1, SameStore
<1>3. mode \in Listed /\ mode # Empty /\ NextMode = mode
  BY <1>1, Constants DEF IInv, Modes
<1>4. Maintained' /\ Ranges' /\ Grown'
  BY <1>1 DEF IInv, Maintained, Ranges, Booting, Grown, BeforeServer, BeforeSave
<1>5. /\ Fresh' /\ Alone' /\ CopyStands' /\ ModeStands' /\ Defaulted'
      /\ Modes' /\ Tried'
  BY <1>1, <1>2, <1>3 DEF IInv, Fresh, Alone, CopyStands, ModeStands, Defaulted,
                          Modes, Tried, BeforeServer, BeforeSave
<1> QED  BY <1>4, <1>5 DEF IInv

LEMMA ReportStep ==
  ASSUME IInv, Report
  PROVE  IInv'
<1>1. /\ pc = "report" /\ pc' = "loop" /\ phase = "up"
      /\ stored' = Empty /\ mode' = Empty /\ retry' = 1 /\ turn' = 1
      /\ network' = NoNetwork /\ kept' = {}
      /\ UNCHANGED <<config, saved, phase, rotation, listening, started>>
  BY DEF Report, Returned, At, settings, results
<1>2. 1 \in DOMAIN auth_modes
  BY Constants
<1>3. Maintained' /\ Ranges'
  BY <1>1, <1>2 DEF IInv, Maintained, Copy, Ranges
<1>4. /\ Fresh' /\ Alone' /\ CopyStands' /\ Grown' /\ ModeStands' /\ Defaulted'
      /\ Modes' /\ Tried'
  BY <1>1 DEF IInv, Fresh, Alone, CopyStands, Grown, ModeStands, Defaulted,
              Modes, Tried, BeforeServer, BeforeSave
<1> QED  BY <1>3, <1>4 DEF IInv

(* Once the server may listen, nothing is claimed of the settings but that *)
(* they fit.                                                               *)
LEMMA ServingStep ==
  ASSUME IInv, pc \in {"report", "loop"}, UNCHANGED boot,
         Fits(config'), Copy(saved'), phase' \in {"up", "saving"}
  PROVE  IInv'
<1>1. UNCHANGED <<pc, rotation, stored, retry, turn, mode, listening, started,
                  network, kept>>
  BY DEF boot, attempts, results
<1>2. Maintained' /\ Ranges'
  BY <1>1 DEF IInv, Maintained, Ranges
<1>3. /\ Fresh' /\ Alone' /\ CopyStands' /\ Grown' /\ ModeStands' /\ Defaulted'
      /\ Modes'
  BY <1>1 DEF IInv, Fresh, Alone, CopyStands, Grown, ModeStands, Defaulted,
              Modes, BeforeServer, BeforeSave
<1>4. Tried'
  BY <1>1 DEF IInv, Tried, Failed, Answers
<1> QED  BY <1>2, <1>3, <1>4 DEF IInv

LEMMA CommandsStep ==
  ASSUME IInv, Commands
  PROVE  IInv'
<1>1. pc \in {"report", "loop"} /\ UNCHANGED boot
  <2>1. pc = "loop" \/ "tcp" \in listening
    BY DEF Commands
  <2> QED  BY <2>1 DEF IInv, Ranges, Booting, Connecting, Fresh, Alone,
                       BeforeServer, BeforeSave, Commands
<1>2. Fits(config) /\ Copy(saved)
  BY DEF IInv, Maintained
<1>3. ASSUME NEW pair \in UserPairs, Store!Put(pair[1], pair[2]) PROVE IInv'
  <2>1. pair[1] \in Keys /\ pair[2] \in Values
    BY BootAssumption
  <2>2. Fits(config') /\ UNCHANGED <<saved, phase>> /\ phase = "up"
    BY <1>2, <1>3, <2>1, PutFits
  <2> QED  BY <1>1, <1>2, <2>2, ServingStep
<1>4. ASSUME NEW k \in Keys, Store!Remove(k) PROVE IInv'
  <2>1. Fits(config') /\ UNCHANGED <<saved, phase>> /\ phase = "up"
    BY <1>2, <1>4, RemoveFits DEF Store!Remove
  <2> QED  BY <1>1, <1>2, <2>1, ServingStep
<1>5. CASE Store!BeginSave
  <2>1. config' = config /\ saved' = {} /\ phase' = "saving"
    BY <1>5 DEF Store!BeginSave
  <2>2. Copy(saved')
    BY <2>1 DEF Copy
  <2> QED  BY <1>1, <1>2, <2>1, <2>2, ServingStep
<1> QED  BY <1>3, <1>4, <1>5 DEF Commands

LEMMA CommandSavedStep ==
  ASSUME IInv, CommandSaved
  PROVE  IInv'
<1>1. pc # "saving" /\ phase = "saving" /\ phase' = "up" /\ config' = config
      /\ saved' = {config} /\ UNCHANGED boot
  BY DEF CommandSaved, Store!EndSave
<1>2. pc \in {"report", "loop"}
  BY <1>1 DEF IInv, Ranges, Booting, Connecting, Fresh, Alone, BeforeServer, BeforeSave
<1>3. Fits(config') /\ Copy(saved')
  BY <1>1 DEF IInv, Maintained, Fits, Copy
<1> QED  BY <1>1, <1>2, <1>3, ServingStep

LEMMA PowerLossStep ==
  ASSUME IInv, PowerLoss
  PROVE  IInv'
<1>1. /\ pc' = "off" /\ phase' = "off" /\ config' = Store!NoEntries /\ saved' = saved
      /\ rotation' = Defaults[Rotation] /\ listening' = {} /\ started' = FALSE
      /\ stored' = Empty /\ mode' = Empty /\ retry' = 1 /\ turn' = 1
      /\ network' = NoNetwork /\ kept' = {}
  BY DEF PowerLoss, Returned, Store!PowerLoss
<1>2. 1 \in DOMAIN auth_modes /\ rotation' \in Angles
  BY <1>1, Constants
<1>3. Maintained'
  BY <1>1, NoEntriesFits DEF IInv, Maintained, Copy
<1>4. started' \in BOOLEAN
  BY <1>1
<1>5. retry' \in 1 .. 3
  BY <1>1
<1>6. listening' \subseteq {"udp", "tcp"}
  BY <1>1
<1>7. Ranges'
  BY <1>1, <1>2, <1>4, <1>5, <1>6 DEF IInv, Ranges
<1>8. /\ Fresh' /\ Alone' /\ CopyStands' /\ Grown' /\ ModeStands' /\ Defaulted'
      /\ Modes' /\ Tried'
  BY <1>1 DEF Fresh, Alone, CopyStands, Grown, ModeStands, Defaulted,
              Modes, Tried, BeforeServer, BeforeSave
<1> QED  BY <1>3, <1>7, <1>8 DEF IInv

LEMMA NextInv == IInv /\ [Next]_vars => IInv'
<1> SUFFICES ASSUME IInv, [Next]_vars PROVE IInv'
  OBVIOUS
<1>1. CASE PowerOn
  BY <1>1, PowerOnStep
<1>2. CASE main
  BY <1>2, ApplyDefaultStep, DefaultsAppliedStep, ApiServerStep, NoWiFiStep, AbortStep,
     ReadStoredModeStep, TryStoredStep, TryModeStep, RememberStep, CommitStep,
     CommittedStep, ListenerStep, ReportStep DEF main
<1>3. CASE Commands
  BY <1>3, CommandsStep
<1>4. CASE CommandSaved
  BY <1>4, CommandSavedStep
<1>5. CASE PowerLoss
  BY <1>5, PowerLossStep
<1>6. CASE UNCHANGED vars
  <2>1. UNCHANGED boot /\ UNCHANGED settings
    BY <1>6 DEF vars, boot, settings, attempts, results
  <2>2. /\ UNCHANGED <<config, saved, phase, pc, rotation, stored, retry, turn, mode,
                       listening, started, network, kept>>
    BY <2>1 DEF boot, settings, attempts, results
  <2>3. getParam(Auth)' = getParam(Auth) /\ NextMode' = NextMode /\ Full' = Full
    BY <2>2, SameStore
  <2>4. Maintained' /\ Ranges' /\ Grown' /\ Defaulted'
    BY <2>2, <2>3 DEF IInv, Maintained, Ranges, Grown, Defaulted
  <2>5. ModeStands' /\ Fresh' /\ Alone' /\ CopyStands' /\ Modes'
    BY <2>2, <2>3 DEF IInv, ModeStands, Fresh, Alone, CopyStands, Modes
  <2>6. Tried'
    BY <2>2 DEF IInv, Tried, Failed, Answers
  <2> QED  BY <2>4, <2>5, <2>6 DEF IInv
<1> QED  BY <1>1, <1>2, <1>3, <1>4, <1>5, <1>6 DEF Next

-----------------------------------------------------------------------------
LEMMA Invariant == Spec => []IInv
  BY InitInv, NextInv, PTL DEF Spec

(* Every variable keeps to its values: the server never hands the display  *)
(* a rotation it does not know, whatever was stored, and the table of      *)
(* kv_store_t is never overrun.                                            *)
THEOREM TypeCorrect == Spec => []TypeOK
<1>1. IInv => TypeOK
  BY Typed DEF IInv
<1> QED  BY Invariant, <1>1, PTL

(* std::stoi throws in connect_wifi only if the saved mode is no number,   *)
(* or if the table could not take the default of the mode.                 *)
LEMMA AbortCause ==
  ASSUME IInv, pc = "abort"
  PROVE  \E c \in saved :
           IF Auth \in DOMAIN c /\ c[Auth] # Empty
           THEN c[Auth] \notin Numeric
           ELSE /\ Auth \notin DOMAIN c
                /\ Cardinality(DOMAIN c \cup DOMAIN Defaults) > MAX_ENTRIES
<1>1. saved = kept /\ getParam(Auth) \notin Numeric
  BY DEF IInv, CopyStands, Modes, BeforeSave
<1>2. CASE Auth \in DOMAIN config
  <2>1. config[Auth] # Empty /\ getParam(Auth) = config[Auth] /\ NextMode = config[Auth]
    BY <1>2 DEF IInv, Defaulted, ModeStands, BeforeSave, getParam
  <2>2. PICK c \in saved : Auth \in DOMAIN c /\ c[Auth] # Empty
    BY <1>1, <2>1, NextModeOf, Constants DEF IInv, Maintained
  <2>3. c[Auth] = config[Auth]
    BY <2>1, <2>2, NextModeOf DEF IInv, Maintained
  <2> QED  BY <1>1, <2>1, <2>2, <2>3
<1>3. CASE Auth \notin DOMAIN config
  <2> DEFINE Found == UNION {DOMAIN c : c \in kept}
  <2>1. Full /\ IsFiniteSet(DOMAIN config)
    BY <1>3 DEF IInv, Defaulted, BeforeSave, Maintained, Fits
  <2>2. DOMAIN config \subseteq Found \cup DOMAIN Defaults
    BY DEF IInv, Grown, BeforeServer, BeforeSave
  <2>3. \A c \in kept : Auth \notin DOMAIN c
    BY <1>3 DEF IInv, ModeStands, BeforeSave
  <2>4. IsFiniteSet(Found)
    <3>1. CASE kept = {}
      BY <3>1, FS_EmptySet
    <3>2. ASSUME NEW c \in Maps, Fits(c), kept = {c} PROVE IsFiniteSet(Found)
      <4>1. Found = DOMAIN c
        BY <3>2
      <4> QED  BY <3>2, <4>1 DEF Fits
    <3> QED  BY <3>1, <3>2 DEF IInv, Maintained, Copy
  <2>5. /\ IsFiniteSet(Found \cup DOMAIN Defaults)
        /\ Cardinality(Found \cup DOMAIN Defaults) \in Nat
    BY <2>4, FS_Union, FS_CardinalityType, BootAssumption
  <2>6. Cardinality(DOMAIN config) < Cardinality(Found \cup DOMAIN Defaults)
    <3>1. Auth \in (Found \cup DOMAIN Defaults) \ DOMAIN config
      BY <1>3, Constants
    <3>2. DOMAIN config # Found \cup DOMAIN Defaults
      BY <3>1
    <3>3. DOMAIN config \in SUBSET (Found \cup DOMAIN Defaults)
      BY <2>2
    <3>4. /\ Cardinality(DOMAIN config) <= Cardinality(Found \cup DOMAIN Defaults)
          /\ Cardinality(DOMAIN config) # Cardinality(Found \cup DOMAIN Defaults)
      BY <2>5, <3>2, <3>3, FS_Subset
    <3>5. Cardinality(DOMAIN config) \in Nat
      BY <2>1, FS_CardinalityType
    <3> QED  BY <2>5, <3>4, <3>5
  <2>7. Cardinality(Found \cup DOMAIN Defaults) > MAX_ENTRIES
    BY <2>1, <2>5, <2>6, FS_CardinalityType, BootAssumption DEF Full
  <2>8. kept # {}
    <3> SUFFICES ASSUME kept = {} PROVE FALSE
      OBVIOUS
    <3>1. Found \cup DOMAIN Defaults = DOMAIN Defaults
      OBVIOUS
    <3> QED  BY <2>5, <2>7, <3>1, BootAssumption
  <2>9. PICK c \in kept : kept = {c}
    BY <2>8 DEF IInv, Maintained, Copy
  <2>10. Found = DOMAIN c
    BY <2>9
  <2> QED  BY <1>1, <2>3, <2>7, <2>9, <2>10
<1> QED  BY <1>2, <1>3

(* Where the default of the mode finds room, only a saved mode that is no  *)
(* number keeps connect_wifi from starting.                                *)
THEOREM AbortIsSaved == Spec => []AbortsOnlyIfSavedSo
<1>1. IInv => AbortsOnlyIfSavedSo
  <2> SUFFICES ASSUME IInv, pc = "abort", RoomForMode
               PROVE  \E c \in saved : Auth \in DOMAIN c /\ c[Auth] \notin Numeric \cup {Empty}
    BY DEF AbortsOnlyIfSavedSo
  <2>1. PICK c \in saved :
          IF Auth \in DOMAIN c /\ c[Auth] # Empty
          THEN c[Auth] \notin Numeric
          ELSE /\ Auth \notin DOMAIN c
               /\ Cardinality(DOMAIN c \cup DOMAIN Defaults) > MAX_ENTRIES
    BY AbortCause
  <2>2. CASE Auth \in DOMAIN c /\ c[Auth] # Empty
    BY <2>1, <2>2
  <2>3. CASE ~(Auth \in DOMAIN c /\ c[Auth] # Empty)
    <3>1. IsFiniteSet(DOMAIN c \cup DOMAIN Defaults)
      BY FS_Union, BootAssumption DEF IInv, Maintained, Copy, Fits
    <3>2. Cardinality(DOMAIN c \cup DOMAIN Defaults) \in Nat
      BY <3>1, FS_CardinalityType
    <3>3. Auth \notin DOMAIN c /\ Cardinality(DOMAIN c \cup DOMAIN Defaults) > MAX_ENTRIES
      BY <2>1, <2>3
    <3>4. Cardinality(DOMAIN c \cup DOMAIN Defaults) <= MAX_ENTRIES
      BY <3>3 DEF RoomForMode
    <3> QED  BY <3>2, <3>3, <3>4, BootAssumption
  <2> QED  BY <2>2, <2>3
<1> QED  BY Invariant, <1>1, PTL

(* connect_wifi does not give up on an access point it could have reached, *)
(* for any list of modes, with duplicates as well.                         *)
THEOREM GivesUpOnlyInVain == Spec => []ConnectsIfPossible
<1>1. IInv => ConnectsIfPossible
  <2> SUFFICES ASSUME IInv, pc = "report", stored # Empty, mode = Empty, network.steady,
                      NEW m \in network.accepts
               PROVE  network.needs > IF m = stored THEN 5000 ELSE 6000
    BY DEF ConnectsIfPossible
  <2>1. network \in Networks
    BY DEF IInv, Ranges, NoNetwork
  <2>2. m \in Listed /\ network.needs \in Nat
    BY <2>1, BootAssumption DEF Networks
  <2>3. Failed(m, IF m = stored THEN 5000 ELSE 6000)
    BY <2>2 DEF IInv, Tried
  <2> QED  BY <2>2, <2>3 DEF Failed, Answers
<1> QED  BY Invariant, <1>1, PTL

(* The mode that worked is the one the next boot reads first, whether it   *)
(* was stored all along or found and committed.                            *)
THEOREM ModeIsRemembered == Spec => []RemembersMode
<1>1. IInv => RemembersMode
  BY DEF IInv, Modes, RemembersMode
<1> QED  BY Invariant, <1>1, PTL

(* Neither the defaults nor the commit of a new mode cost another setting. *)
THEOREM OtherSettingsStay == Spec => []BootKeepsSettings
<1>1. IInv => BootKeepsSettings
  <2> SUFFICES ASSUME IInv, pc \in {"multicast", "run"}, NEW c \in kept,
                      NEW k \in DOMAIN c \ {Auth}, c[k] # Empty
               PROVE  /\ getParam(k) = c[k]
                      /\ \E s \in saved : k \in DOMAIN s /\ s[k] = c[k]
    BY DEF BootKeepsSettings
  <2>1. k \in DOMAIN config /\ config[k] = c[k]
    BY DEF IInv, Grown, BeforeServer
  <2>2. saved \in {kept, {config}}
    BY DEF IInv, CopyStands
  <2> QED  BY <2>1, <2>2 DEF getParam
<1> QED  BY Invariant, <1>1, PTL
=============================================================================
