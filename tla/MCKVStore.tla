------------------------------ MODULE MCKVStore ------------------------------
(***************************************************************************)
(* A table of two slots, two factory defaults and one key of the user's    *)
(* own, so that the table can be full with or without a default in it.     *)
(***************************************************************************)
EXTENDS KVStore

MCKeys == {"", "ssid", "wifi_auth"}
MCValues == {"", "default", "home", "129-letters"}
MCDefaults == [k \in {"ssid", "wifi_auth"} |-> "default"]
=============================================================================
