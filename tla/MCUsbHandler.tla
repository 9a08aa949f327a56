----------------------------- MODULE MCUsbHandler -----------------------------
(***************************************************************************)
(* A prefix and command names of two bytes, keys and values of up to four  *)
(* bytes: none, some that need escapes, and a key and a value that are too *)
(* long by one byte, a key that fills its buffer, a value that fills it.   *)
(***************************************************************************)
EXTENDS UsbHandler

Colon == 0
Backslash == 1
MCPrefix == <<7, Colon>>
MCOps == {"kset", "kget", "data", "zipd", "stor", "RSET", "kdel"}
MCCode ==
  [o \in MCOps |->
     CASE o = "kset" -> <<3, 4>>
       [] o = "kget" -> <<3, 5>>
       [] o = "kdel" -> <<3, 6>>
       [] o = "data" -> <<4, 4>>
       [] o = "zipd" -> <<4, 5>>
       [] o = "stor" -> <<5, 5>>
       [] o = "RSET" -> <<5, 6>>]

MCFrames ==
  {[op |-> "kset", key |-> <<3>>, value |-> <<Colon, Backslash>>],
   [op |-> "kset", key |-> <<>>, value |-> <<4>>],
   [op |-> "kset", key |-> <<3>>, value |-> <<4, 4, 5>>],
   [op |-> "kset", key |-> <<3, 4, 5>>, value |-> <<3>>],
   [op |-> "kset", key |-> <<3, 4, 5, 6>>, value |-> <<3>>],
   [op |-> "kdel", key |-> <<Backslash, 4, Colon>>, value |-> <<>>],
   [op |-> "data", key |-> <<>>, value |-> <<2, 2>>],
   [op |-> "zipd", key |-> <<>>, value |-> <<3, 3>>],
   [op |-> "zipd", key |-> <<>>, value |-> <<4>>],
   [op |-> "stor", key |-> <<>>, value |-> <<>>],
   [op |-> "RSET", key |-> <<>>, value |-> <<>>]}

MCInflates == {<<3, 3>>}

(* The hypotheses of the theorems hold of these frames. *)
ASSUME MCFramesAssumption == Alone
=============================================================================
