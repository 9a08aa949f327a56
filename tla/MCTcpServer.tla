----------------------------- MODULE MCTcpServer -----------------------------
(***************************************************************************)
(* A header of two tokens and bodies of up to two; every kind of message.  *)
(***************************************************************************)
EXTENDS TcpServer, TLC

MCCommand ==
  [m \in Messages |->
     CASE m = "image"  -> "sdat"
       [] m = "zipped" -> "szip"
       [] m = "broken" -> "szip"
       [] m = "clear"  -> "clsc"
       [] m = "set"    -> "kset"
       [] m \in {"get", "key"} -> "kget"
       [] m = "other"  -> "none"
       [] m = "text"   -> "text"
       [] m = "reset"  -> "RSET"]

MCSize ==
  [m \in Messages |->
     CASE m \in {"image", "zipped"} -> 2
       [] m \in {"broken", "set", "get", "key", "other", "text"} -> 1
       [] OTHER -> 0]

(* One connection is as good as another. *)
Interchangeable == Permutations(Connections)

(* "key" is a key without a ':', as the client on offer sends it. *)
MCDelimited == Messages \cap {"set", "get"}
MCDamaged == Messages \cap {"broken"}
=============================================================================
