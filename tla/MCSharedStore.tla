---------------------------- MODULE MCSharedStore ----------------------------
(***************************************************************************)
(* Two slots, so that a delete can move an entry; two values that differ   *)
(* in bytes and in length.  The empty key and value come from TCP only.    *)
(***************************************************************************)
EXTENDS SharedStore

Long == [data |-> "bb", len |-> 2]
Empty == [data |-> "", len |-> 0]
MCKeys == {"", "ssid", "port"}
MCValues == {Empty, Long}

(* TCP writes only while the USB loop waits; a save may come at any time. *)
OneWriter ==
  [c \in Calls |-> IF c = "none" THEN Callbacks ELSE {"stor"}]

(* A client sets a key while the USB side is in setParam. *)
SetDuringSet ==
  [c \in Calls |-> IF c = "none" THEN Callbacks
                   ELSE IF c = "set" THEN {"kset"}
                   ELSE {}]

(* A client also sets a key while the USB side is in commitToFlash. *)
SetDuringCommit ==
  [c \in Calls |-> IF c = "none" THEN Callbacks
                   ELSE IF c = "commit" THEN {"kset", "stor"}
                   ELSE {"stor"}]
=============================================================================
