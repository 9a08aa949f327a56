-------------------------------- MODULE Boot ---------------------------------
(***************************************************************************)
(* From power on to the USB loop: main.cpp, the constructor of ApiServer,  *)
(* start, connect_wifi, setup_multicast_listener and run, over several     *)
(* boots with users who change and save settings in between.               *)
(*                                                                         *)
(* The settings are those of ConfigStore, which KVStore implements.  The   *)
(* access point accepts some authentication modes and needs some time for  *)
(* it; an unsteady one may fail any attempt.                               *)
(***************************************************************************)
EXTENDS Naturals, Sequences, FiniteSets

CONSTANTS
  Keys, Values, MAX_ENTRIES, \* of ConfigStore
  Defaults,    \* factory_defaults
  Empty,       \* ""
  Numeric,     \* the values std::stoi accepts
  Angles,      \* the values that are 0, 90, 180 or 270
  auth_modes,  \* the modes the server tries, in order
  Delays,      \* how long an access point may need, ms
  UserPairs    \* the pairs users store

Auth == "wifi_auth"
Rotation == "rotation"
Listed == {auth_modes[n] : n \in DOMAIN auth_modes}

ASSUME BootAssumption ==
  /\ MAX_ENTRIES \in Nat
  /\ {Auth, Rotation} \subseteq DOMAIN Defaults
  /\ IsFiniteSet(DOMAIN Defaults)
  /\ DOMAIN Defaults \subseteq Keys
  /\ \A k \in DOMAIN Defaults : Defaults[k] \in Values \ {Empty}
  /\ Cardinality(DOMAIN Defaults) <= MAX_ENTRIES
  /\ Empty \in Values \ Numeric
  /\ auth_modes \in Seq(Values) \ {<<>>}
  /\ Listed \cup {Defaults[Auth]} \subseteq Numeric
  /\ Defaults[Rotation] \in Angles
  /\ Numeric \cup Angles \subseteq Values
  /\ Delays \subseteq Nat
  /\ UserPairs \subseteq Keys \X Values

VARIABLES
  config, saved, phase, \* of ConfigStore
  pc,          \* the call main is in
  rotation,    \* of the server, read once
  stored,      \* stored_auth_mode
  retry, turn, \* of the loops over auth_modes
  mode,        \* the mode the board is connected with
  listening,   \* the protocols whose callbacks are registered
  started,     \* what start returns
  network,     \* the access point, while the server may try it
  kept         \* history: saved, when the boot began

vars == <<config, saved, phase, pc, rotation, stored, retry, turn, mode,
          listening, started, network, kept>>
settings == <<config, saved, phase>>
attempts == <<stored, retry, turn, mode>>
results == <<listening, started>>
boot == <<pc, rotation, attempts, results, network, kept>>

Store == INSTANCE ConfigStore WITH OversizedKeys <- {}, OversizedValues <- {}

Networks == [accepts : SUBSET Listed, needs : Delays, steady : BOOLEAN]
NoNetwork == [accepts |-> {}, needs |-> 0, steady |-> TRUE]
Maps == UNION {[D -> Values] : D \in SUBSET Keys}

Connecting == {"wifi", "stored", "round", "remember", "commit", "saving"}
Booting == {"defaults", "construct", "multicast", "run", "report"} \cup Connecting

(* The rotation is one the display knows, whatever was stored. *)
TypeOK ==
  /\ config \in Maps
  /\ Cardinality(DOMAIN config) <= MAX_ENTRIES
  /\ saved \in SUBSET Maps
  /\ Cardinality(saved) <= 1
  /\ phase \in {"off", "up", "saving"}
  /\ pc \in {"off", "loop", "abort"} \cup Booting
  /\ rotation \in Angles
  /\ stored \in Numeric \cup {Empty}
  /\ retry \in 1 .. 3
  /\ turn \in DOMAIN auth_modes
  /\ mode \in Listed \cup {Empty}
  /\ listening \subseteq {"udp", "tcp"}
  /\ started \in BOOLEAN
  /\ network \in Networks \cup {NoNetwork}
  /\ kept \in SUBSET Maps

(* Main memory starts as the code initialises it. *)
Init ==
  /\ Store!Init
  /\ pc = "off"
  /\ rotation = Defaults[Rotation]
  /\ stored = Empty /\ mode = Empty
  /\ retry = 1 /\ turn = 1
  /\ listening = {}
  /\ started = FALSE
  /\ network = NoNetwork
  /\ kept = {}

-----------------------------------------------------------------------------
getParam(k) == IF k \in DOMAIN config THEN config[k] ELSE Empty

Full == Cardinality(DOMAIN config) >= MAX_ENTRIES

(* Mutant: a key that is there keeps its value. *)
setParamOnce(k, v) ==
  \/ k \notin DOMAIN config /\ Store!Put(k, v)
  \/ k \in DOMAIN config /\ UNCHANGED settings

(* A full table refuses a new key, and no caller looks at the result. *)
setParam(k, v) ==
  \/ Store!Put(k, v)
  \/ k \notin DOMAIN config /\ Full /\ UNCHANGED settings

At(step) == pc = step /\ phase = "up"

GoTo(step) == pc' = step /\ UNCHANGED <<network, kept>>

PowerOn ==
  /\ pc = "off"
  /\ Store!Boot
  /\ pc' = "defaults"
  /\ kept' = saved
  /\ network' \in Networks
  /\ UNCHANGED <<rotation, attempts, results>>

(* Mutant: defaults are applied only when nothing was saved. *)
MissingAtFirst ==
  {k \in DOMAIN Defaults : kept = {} /\ getParam(k) = Empty}

(* Mutant: any value that is not the default is taken for missing. *)
MissingOrOther == {k \in DOMAIN Defaults : getParam(k) # Defaults[k]}

(* The constructor of KVStore, after the saved map has been loaded. *)
Missing == {k \in DOMAIN Defaults : getParam(k) = Empty}

ApplyDefault ==
  /\ At("defaults")
  /\ \E k \in Missing : Store!Put(k, Defaults[k])
  /\ GoTo("defaults")
  /\ UNCHANGED <<rotation, attempts, results>>

DefaultsApplied ==
  /\ At("defaults")
  /\ \A k \in Missing : k \notin DOMAIN config /\ Full
  /\ GoTo("construct")
  /\ UNCHANGED <<settings, rotation, attempts, results>>

(* Mutant: every number of a plausible size is a rotation. *)
AnyNumber(v) == IF v \in Numeric THEN v ELSE Defaults[Rotation]

(* safe_stoi, and the test for right angles that follows it. *)
RightAngle(v) == IF v \in Angles THEN v ELSE Defaults[Rotation]

ApiServer ==
  /\ At("construct")
  /\ rotation' = RightAngle(getParam(Rotation))
  /\ GoTo("wifi")
  /\ UNCHANGED <<settings, attempts, results>>

-----------------------------------------------------------------------------
(* start: without Wi-Fi neither listener is set up. *)
Fail ==
  /\ GoTo("report")
  /\ UNCHANGED <<settings, rotation, attempts, results>>

NoWiFi == At("wifi") /\ Fail

(* std::stoi throws, and nothing catches it. *)
Abort ==
  /\ At("wifi")
  /\ getParam(Auth) \notin Numeric
  /\ GoTo("abort")
  /\ UNCHANGED <<settings, rotation, attempts, results>>

ReadStoredMode ==
  /\ At("wifi")
  /\ getParam(Auth) \in Numeric
  /\ stored' = getParam(Auth)
  /\ GoTo(IF stored' \in Listed THEN "stored" ELSE "round")
  /\ UNCHANGED <<settings, rotation, retry, turn, mode, results>>

Answers(m, timeout) == m \in network.accepts /\ network.needs <= timeout
Refuses(m, timeout) == network.steady => ~Answers(m, timeout)

Connected(m, next) ==
  /\ mode' = m
  /\ GoTo(next)
  /\ UNCHANGED <<settings, rotation, stored, retry, turn, results>>

TryStored ==
  /\ At("stored")
  /\ \/ Answers(stored, 5000) /\ Connected(stored, "multicast")
     \/ /\ Refuses(stored, 5000)
        /\ GoTo("round")
        /\ UNCHANGED <<settings, rotation, attempts, results>>

(* Mutant: a round begins where the last one ended. *)
TurnStays == turn

FirstTurn == 1

(* Mutant: the rounds are not counted. *)
SameRetry == retry

NextRetry == retry + 1

(* The next mode of the round, the next round, or the end. *)
NextAttempt ==
  \/ /\ turn < Len(auth_modes)
     /\ turn' = turn + 1
     /\ GoTo("round")
     /\ UNCHANGED <<settings, rotation, stored, retry, mode, results>>
  \/ /\ turn = Len(auth_modes)
     /\ retry < 3
     /\ turn' = FirstTurn
     /\ retry' = NextRetry
     /\ GoTo("round")
     /\ UNCHANGED <<settings, rotation, stored, mode, results>>
  \/ turn = Len(auth_modes) /\ retry = 3 /\ Fail

TryMode ==
  LET m == auth_modes[turn] IN
  /\ At("round")
  /\ \/ m = stored /\ NextAttempt
     \/ m # stored /\ Answers(m, 2000 * retry) /\ Connected(m, "remember")
     \/ m # stored /\ Refuses(m, 2000 * retry) /\ NextAttempt

Remember ==
  /\ At("remember")
  /\ setParam(Auth, mode)
  /\ GoTo("commit")
  /\ UNCHANGED <<rotation, attempts, results>>

Commit ==
  /\ At("commit")
  /\ Store!BeginSave
  /\ GoTo("saving")
  /\ UNCHANGED <<rotation, attempts, results>>

Committed ==
  /\ pc = "saving"
  /\ Store!EndSave
  /\ GoTo("multicast")
  /\ UNCHANGED <<rotation, attempts, results>>

-----------------------------------------------------------------------------
(* Either listener may fail to come up, in three ways each; start goes on  *)
(* and returns true.                                                       *)
setup_multicast_listener ==
  /\ At("multicast")
  /\ listening' \in {listening, listening \cup {"udp"}}
  /\ GoTo("run")
  /\ UNCHANGED <<settings, rotation, attempts, started>>

run ==
  /\ At("run")
  /\ listening' \in {listening, listening \cup {"tcp"}}
  /\ started' = TRUE
  /\ GoTo("report")
  /\ UNCHANGED <<settings, rotation, attempts>>

(* start has returned, and its locals are gone. *)
Returned ==
  /\ stored' = Empty /\ mode' = Empty
  /\ retry' = 1 /\ turn' = 1
  /\ network' = NoNetwork
  /\ kept' = {}

Report ==
  /\ At("report")
  /\ pc' = "loop"
  /\ Returned
  /\ UNCHANGED <<settings, rotation, results>>

main ==
  \/ ApplyDefault \/ DefaultsApplied \/ ApiServer
  \/ NoWiFi \/ Abort \/ ReadStoredMode \/ TryStored \/ TryMode
  \/ Remember \/ Commit \/ Committed
  \/ setup_multicast_listener \/ run \/ Report

(* Commands change settings by USB in its loop, and by TCP once the server *)
(* listens.                                                                *)
Commands ==
  /\ pc = "loop" \/ "tcp" \in listening
  /\ \/ \E pair \in UserPairs : Store!Put(pair[1], pair[2])
     \/ \E k \in Keys : Store!Remove(k)
     \/ Store!BeginSave
  /\ UNCHANGED boot

CommandSaved ==
  /\ pc # "saving"
  /\ Store!EndSave
  /\ UNCHANGED boot

PowerLoss ==
  /\ pc # "off"
  /\ Store!PowerLoss
  /\ pc' = "off"
  /\ rotation' = Defaults[Rotation]
  /\ listening' = {}
  /\ started' = FALSE
  /\ Returned

Next == PowerOn \/ main \/ Commands \/ CommandSaved \/ PowerLoss

(* main waits for nobody: every attempt to connect has a timer.  A command *)
(* that saves holds main up, again and again if clients insist, but        *)
(* between two callbacks the foreground runs.                              *)
Spec == Init /\ [][Next]_vars /\ SF_vars(main) /\ WF_vars(CommandSaved)

-----------------------------------------------------------------------------
(* A saved table without a mode that leaves room for the defaults, or none *)
(* at all: the boot can supply the mode.                                   *)
RoomForMode ==
  \A c \in saved :
    Auth \in DOMAIN c \/ Cardinality(DOMAIN c \cup DOMAIN Defaults) <= MAX_ENTRIES

(* The board refuses to start only if users saved it a mode that is no     *)
(* number: not because a save was lost, nor because a mode is missing or   *)
(* empty, as long as the default finds room.  That it does not start       *)
(* without that room is what DefaultsIfNotFound shows.                     *)
AbortsOnlyIfSavedSo ==
  pc = "abort" /\ RoomForMode =>
    \E c \in saved :
      /\ Auth \in DOMAIN c
      /\ c[Auth] \notin Numeric \cup {Empty}

(* "default to WPA2 AES if not found" (server.cpp:115): with no mode saved *)
(* connect_wifi does not give up, it has a default to read.                *)
DefaultsIfNotFound ==
  pc = "abort" => \E c \in saved : Auth \in DOMAIN c /\ c[Auth] # Empty

(* Having given up on a steady access point, the server has not missed a   *)
(* mode it accepts: the stored one does not answer within 5 s, no other    *)
(* one within 6.                                                           *)
ConnectsIfPossible ==
  pc = "report" /\ stored # Empty /\ mode = Empty /\ network.steady =>
    \A m \in network.accepts :
      network.needs > IF m = stored THEN 5000 ELSE 6000

(* The mode the next boot reads first. *)
NextMode ==
  IF \E c \in saved : Auth \in DOMAIN c /\ c[Auth] # Empty
  THEN (CHOOSE c \in saved : TRUE)[Auth]
  ELSE Defaults[Auth]

(* Once connected and before commands arrive, the next boot, after power   *)
(* loss as well, begins with the mode that worked.                         *)
RemembersMode == pc \in {"multicast", "run"} => NextMode = mode

(* The save that a boot makes by itself keeps every other setting.         *)
BootKeepsSettings ==
  pc \in {"multicast", "run"} =>
    \A c \in kept : \A k \in DOMAIN c \ {Auth} :
      /\ c[k] # Empty => getParam(k) = c[k]
      /\ c[k] # Empty => \E s \in saved : k \in DOMAIN s /\ s[k] = c[k]

(* Every boot comes to the USB loop, unless it aborts or loses power. *)
BootEnds == (pc \in Booting) ~> (pc \in {"loop", "abort", "off"})
=============================================================================
