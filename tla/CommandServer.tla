---------------------------- MODULE CommandServer ----------------------------
(***************************************************************************)
(* What a client may expect of the TCP server: every message it sends is   *)
(* served, once, with exactly the body it was sent with; a message that    *)
(* asks for nothing the server does is dropped without a trace.            *)
(***************************************************************************)
EXTENDS Sequences

CONSTANTS
  Messages,   \* the messages clients send
  Effective   \* those the server acts on

VARIABLES
  underway, \* messages sent and not served yet
  served    \* the messages the server acted on, in order

vars == <<underway, served>>

Init ==
  /\ underway = {}
  /\ served = <<>>

Send(m) ==
  /\ underway' = underway \cup {m}
  /\ UNCHANGED served

Serve(m) ==
  /\ m \in underway
  /\ underway' = underway \ {m}
  /\ served' = IF m \in Effective THEN Append(served, m) ELSE served

Next == \E m \in Messages : Send(m) \/ Serve(m)

Spec == Init /\ [][Next]_vars /\ \A m \in Messages : WF_vars(Serve(m))
=============================================================================
