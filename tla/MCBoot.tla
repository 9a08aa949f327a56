-------------------------------- MODULE MCBoot -------------------------------
(***************************************************************************)
(* Two modes, a number that is no mode, a value that is no number; a table *)
(* that one key of the user's own fills.  An access point answers within   *)
(* the first attempts, only within the last ones, or too late.             *)
(***************************************************************************)
EXTENDS Boot

MCKeys == {"wifi_auth", "rotation", "own"}
MCDefaults == [wifi_auth |-> "wpa3", rotation |-> "0"]
MCValues == {"", "wpa3", "wpa2", "0", "45", "90", "junk"}
MCModes == <<"wpa3", "wpa2">>
MCPairs ==
  ({"wifi_auth"} \X {"wpa2", "45", "junk"})
    \cup ({"rotation"} \X {"45", "90"}) \cup {<<"own", "junk">>}
=============================================================================
