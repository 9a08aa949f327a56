------------------------------ MODULE TcpServer ------------------------------
(***************************************************************************)
(* The message protocol of src/server: connections deliver a byte stream   *)
(* in segments of any size, on_receive reassembles messages from them in   *)
(* one global recv_state that all connections share, and executes them.    *)
(*                                                                         *)
(* A message is a header (prefix, size, command) and a body.  The bytes    *)
(* are abstracted to tokens that say which message and which part of it    *)
(* they come from.  The first HEADER_SIZE tokens are the header: the first *)
(* is the prefix, the last carries size and command.  Connections are to   *)
(* one server, so the callbacks of all of them run one after another.      *)
(***************************************************************************)
EXTENDS Integers, Sequences, FiniteSets

CONSTANTS
  Connections,
  Messages,        \* each is sent at most once
  None,            \* no message
  Command,         \* Messages -> the four letters in the header
  Size,            \* Messages -> the length of the body, as the header says
  Delimited,       \* the messages whose body contains a ':'
  Damaged,         \* the messages whose body zlib rejects
  HEADER_SIZE,
  MAX_BUFFER_SIZE, \* the most the reassembly buffer may hold
  Hazards          \* what the network and the clients may do to one another

HazardKinds ==
  {"overlap", "abort", "reset", "split", "chain", "damage", "reuse", "unknown"}

KeyValueCommands == {"kget", "kset", "kdel"}
ZipCommands == {"zipd", "szip"}
ImageCommands == {"data", "sdat"} \cup ZipCommands
RebootCommands == {"RSET", "BOOT"}
ImmediateCommands == {"clsc", "sync", "ipv4", "ipv6", "stor"}

(* "text" and "FACR" have handlers behind this test and are not in the set. *)
SUPPORTED_COMMANDS ==
  KeyValueCommands \cup ImageCommands \cup RebootCommands \cup ImmediateCommands

ASSUME ServerAssumption ==
  /\ HEADER_SIZE \in Nat \ {0, 1}
  /\ None \notin Messages
  /\ Size \in [Messages -> Nat]
  /\ MAX_BUFFER_SIZE \in Nat
  /\ \A m \in Messages : Size[m] <= MAX_BUFFER_SIZE
  /\ Delimited \subseteq {m \in Messages : Size[m] > 0}
  /\ Damaged \subseteq {m \in Messages : Command[m] \in ZipCommands}
  /\ Hazards \subseteq HazardKinds

Token(m, n) == [msg |-> m, pos |-> n]
Stream(m) == [n \in 1 .. HEADER_SIZE + Size[m] |-> Token(m, n)]
Body(m) == [n \in 1 .. Size[m] |-> Token(m, HEADER_SIZE + n)]

VARIABLES
  conn,           \* the message a connection carries, or None when there is none
  net,            \* what the connection has yet to deliver
  unsent,         \* messages no client has sent yet
  receiving_data, \* recv_state.receiving_data
  current,        \* the message whose size and command recv_state holds, or None
  header_buffer,  \* recv_state.header_buffer
  recv_buffer,    \* recv_state.recv_buffer
  wild,           \* the code ran into undefined behaviour; the model stops there
  served,         \* history: what the server did, in order
  met             \* history: the hazards that came about

vars == <<conn, net, unsent, receiving_data, current, header_buffer,
          recv_buffer, wild, served, met>>
recv_state == <<receiving_data, current, header_buffer, recv_buffer>>

Open == {c \in Connections : conn[c] # None}

Tokens == [msg : Messages, pos : Nat \ {0}]

TypeOK ==
  /\ conn \in [Connections -> Messages \cup {None}]
  /\ net \in [Connections -> Seq(Tokens)]
  /\ unsent \subseteq Messages
  /\ receiving_data \in BOOLEAN
  /\ current \in Messages \cup {None}
  /\ header_buffer \in Seq(Tokens)
  /\ recv_buffer \in Seq(Tokens)
  /\ Len(recv_buffer) <= MAX_BUFFER_SIZE
  /\ wild \in BOOLEAN
  /\ served \in Seq([msg : Messages, body : Seq(Tokens)])
  /\ met \subseteq Hazards

Init ==
  /\ conn = [c \in Connections |-> None]
  /\ net = [c \in Connections |-> <<>>]
  /\ unsent = Messages
  /\ receiving_data = FALSE
  /\ current = None
  /\ header_buffer = <<>>
  /\ recv_buffer = <<>>
  /\ wild = FALSE
  /\ served = <<>>
  /\ met = {}

-----------------------------------------------------------------------------
Meet(happened) ==
  /\ happened \subseteq Hazards
  /\ met' = met \cup happened

When(condition, hazard) == IF condition THEN {hazard} ELSE {}

(* on_accept: a client connects and writes one message, as matrix.py does. *)
Connect(c, m) ==
  /\ conn[c] = None
  /\ m \in unsent
  /\ Meet(When(Open # {}, "overlap") \cup When(m \in Damaged, "damage"))
  /\ conn' = [conn EXCEPT ![c] = m]
  /\ net' = [net EXCEPT ![c] = Stream(m)]
  /\ unsent' = unsent \ {m}
  /\ UNCHANGED <<recv_state, wild, served>>

(* A client sends another message once the last one is through.  After an  *)
(* unknown command the connection is of no more use.                       *)
SendAgain(c, m) ==
  /\ c \in Open
  /\ net[c] = <<>>
  /\ m \in unsent
  /\ Meet({"reuse"} \cup When(Open # {c}, "overlap")
            \cup When(m \in Damaged, "damage")
            \cup When(Command[conn[c]] \notin SUPPORTED_COMMANDS, "unknown"))
  /\ conn' = [conn EXCEPT ![c] = m]
  /\ net' = [net EXCEPT ![c] = Stream(m)]
  /\ unsent' = unsent \ {m}
  /\ UNCHANGED <<recv_state, wild, served>>

(* Mutant: an unfinished message is still expected after its connection. *)
reset_recv_state_keeps_receiving ==
  /\ header_buffer' = <<>>
  /\ UNCHANGED <<receiving_data, current, recv_buffer>>

(* reset_recv_state leaves recv_buffer alone. *)
reset_recv_state ==
  /\ receiving_data' = FALSE
  /\ current' = None
  /\ header_buffer' = <<>>
  /\ UNCHANGED recv_buffer

Gone(c) ==
  /\ conn' = [conn EXCEPT ![c] = None]
  /\ net' = [net EXCEPT ![c] = <<>>]

(* on_receive with no pbuf: the client has closed, after its message or, if *)
(* it gave up, in the middle of it.                                        *)
Disconnect(c) ==
  /\ c \in Open
  /\ Meet(When(net[c] # <<>>, "abort"))
  /\ Gone(c)
  /\ reset_recv_state
  /\ UNCHANGED <<unsent, wild, served>>

(* on_error: the connection is gone and recv_state is as it was. *)
on_error(c) ==
  /\ c \in Open
  /\ Meet({"reset"})
  /\ Gone(c)
  /\ UNCHANGED <<unsent, recv_state, wild, served>>

-----------------------------------------------------------------------------
(* lwIP hands over the next n tokens of a connection in a chain of pbufs,  *)
(* of which the callback reads the first: the len tokens of payload.       *)
Segment(c, n, len) ==
  /\ c \in Open
  /\ len <= n
  /\ Meet(When(len < n, "chain")
            \cup When(net[c] = Stream(conn[c]) /\ len < HEADER_SIZE, "split"))
  /\ net' = [net EXCEPT ![c] = SubSeq(@, n + 1, Len(@))]
  /\ UNCHANGED <<conn, unsent>>

(* A header gives the size and the command of a message, if it is one. *)
Verdict(header) ==
  IF Len(header) < HEADER_SIZE THEN "incomplete"
  ELSE IF header[1].pos # 1 THEN "bad prefix"
  ELSE IF header[HEADER_SIZE].pos # HEADER_SIZE THEN "unknown"
  ELSE IF Command[header[HEADER_SIZE].msg] \in SUPPORTED_COMMANDS THEN "supported"
  ELSE "unknown"

Announced(header) == header[HEADER_SIZE].msg

Do(m, body) == served' = Append(served, [msg |-> m, body |-> body])

(* process_header returns false for a header it cannot use.  That of an    *)
(* unknown command stays in its buffer, with whatever follows it.          *)
RejectHeader(header) ==
  /\ Verdict(header) # "supported"
  /\ header_buffer' = IF Verdict(header) = "bad prefix" THEN <<>> ELSE header
  /\ current' = IF Verdict(header) = "unknown" THEN Announced(header) ELSE current
  /\ UNCHANGED <<receiving_data, recv_buffer, wild, served>>

(* Mutant: a command without a body leaves its header in the buffer. *)
ExecutedHeaderStays(header) == header

ExecutedHeader(header) == <<>>

(* It also returns false after a command that it executes itself. *)
ExecuteHeader(header) ==
  /\ Verdict(header) = "supported"
  /\ Command[Announced(header)] \in ImmediateCommands
  /\ header_buffer' = ExecutedHeader(header)
  /\ current' = Announced(header)
  /\ Do(Announced(header), <<>>)
  /\ UNCHANGED <<receiving_data, recv_buffer, wild>>

(* uncompress takes the stream at the start of the buffer and ignores what *)
(* follows it.                                                             *)
Uncompressed(buffer) ==
  {Body(m) : m \in {x \in Messages \ Damaged :
                      /\ Command[x] \in ZipCommands
                      /\ Size[x] > 0
                      /\ Len(buffer) >= Size[x]
                      /\ SubSeq(buffer, 1, Size[x]) = Body(x)}}

(* Mutant: the buffer keeps the pair it was asked to store. *)
PairStays(buffer) == buffer

PairDone(buffer) == <<>>

(* process_key_value_command: no effect without a ':'. *)
process_key_value_command(m, buffer) ==
  /\ IF \E x \in Delimited, n \in DOMAIN buffer : buffer[n] = Token(x, HEADER_SIZE + 1)
     THEN Do(m, buffer)
     ELSE UNCHANGED served
  /\ recv_buffer' = PairDone(buffer)

(* process_data clears the buffer only at its end, which a failed          *)
(* decompression does not reach.                                           *)
process_data(m, buffer) ==
  \/ /\ buffer = <<>>
     /\ recv_buffer' = buffer
     /\ UNCHANGED served
  \/ /\ buffer # <<>>
     /\ Command[m] \notin ZipCommands
     /\ Do(m, buffer)
     /\ recv_buffer' = <<>>
  \/ /\ Command[m] \in ZipCommands
     /\ \E image \in Uncompressed(buffer) : Do(m, image)
     /\ recv_buffer' = <<>>
  \/ /\ buffer # <<>>
     /\ Command[m] \in ZipCommands
     /\ Uncompressed(buffer) = {}
     /\ recv_buffer' = buffer
     /\ UNCHANGED served

(* Mutant: the buffer is taken to be large enough. *)
OverflowsNever(buffer, payload, offset) == Len(payload) < offset

(* When the payload is shorter than the offset, the unsigned size wraps    *)
(* around; then, or when the buffer is full, the code either inserts a     *)
(* range of negative length or makes lwIP deliver again a pbuf that is     *)
(* already free.                                                           *)
Overflows(buffer, payload, offset) ==
  \/ Len(payload) < offset
  \/ Len(buffer) > MAX_BUFFER_SIZE

(* The rest of on_receive, for the message m that is being received. *)
Receive(m, payload, offset) ==
  LET buffer == recv_buffer \o SubSeq(payload, offset + 1, Len(payload)) IN
  /\ current' = m
  /\ header_buffer' = IF receiving_data THEN header_buffer ELSE <<>>
  /\ wild' = Overflows(buffer, payload, offset)
  /\ receiving_data' = (wild' \/ Len(buffer) < Size[m])
  /\ \/ /\ wild'
        /\ recv_buffer' = <<>>
        /\ UNCHANGED served
     \/ /\ ~wild'
        /\ Len(buffer) < Size[m]
        /\ recv_buffer' = buffer
        /\ UNCHANGED served
     \/ /\ ~receiving_data'
        /\ Command[m] \in KeyValueCommands
        /\ process_key_value_command(m, buffer)
     \/ /\ ~receiving_data'
        /\ Command[m] \in ImageCommands
        /\ process_data(m, buffer)

(* Mutant: the header is skipped in every chunk. *)
BodyOffsetAlways == HEADER_SIZE

BodyOffset == 0

ReceiveBody(payload) ==
  /\ receiving_data
  /\ Receive(current, payload, BodyOffset)

ReceiveFirst(header, payload) ==
  /\ Verdict(header) = "supported"
  /\ Command[Announced(header)] \in KeyValueCommands \cup ImageCommands
  /\ Receive(Announced(header), payload, HEADER_SIZE)

on_receive(c, n, len) ==
  LET payload == SubSeq(net[c], 1, len)
      header  == header_buffer \o payload
  IN  /\ Segment(c, n, len)
      /\ \/ ReceiveBody(payload)
         \/ ~receiving_data /\ RejectHeader(header)
         \/ ~receiving_data /\ ExecuteHeader(header)
         \/ ~receiving_data /\ ReceiveFirst(header, payload)

(* RSET and BOOT restart the board: RAM and connections are gone. *)
Reboot(c, n) ==
  LET header == header_buffer \o SubSeq(net[c], 1, n) IN
  /\ c \in Open
  /\ ~receiving_data
  /\ Verdict(header) = "supported"
  /\ Command[Announced(header)] \in RebootCommands
  /\ Do(Announced(header), <<>>)
  /\ conn' = [d \in Connections |-> None]
  /\ net' = [d \in Connections |-> <<>>]
  /\ receiving_data' = FALSE
  /\ current' = None
  /\ header_buffer' = <<>>
  /\ recv_buffer' = <<>>
  /\ UNCHANGED <<unsent, wild, met>>

Deliver(c) ==
  \E n \in 1 .. Len(net[c]) : \/ \E len \in 1 .. n : on_receive(c, n, len)
                             \/ Reboot(c, n)

Next ==
  /\ ~wild
  /\ \E c \in Connections :
       \/ \E m \in Messages : Connect(c, m) \/ SendAgain(c, m)
       \/ Deliver(c)
       \/ Disconnect(c)
       \/ on_error(c)

(* TCP retransmits until the bytes are through, and a client that has sent *)
(* its message closes.                                                     *)
Fairness ==
  \A c \in Connections : /\ WF_vars(~wild /\ Deliver(c))
                         /\ WF_vars(~wild /\ net[c] = <<>> /\ Disconnect(c))

Spec == Init /\ [][Next]_vars /\ Fairness

-----------------------------------------------------------------------------
(* The TCP commands the client offers (examples/matrix.py:54-60). *)
DocumentedCommands ==
  {"FACT", "text", "RSET", "BOOT", "ipv4", "ipv6", "stor", "clsc",
   "kget", "kdel", "kset", "data", "sdat", "zipd", "szip"}

(* The messages a client expects something of: a command that is offered   *)
(* to it, or that has a handler, with an image that is one.                *)
Effective ==
  {m \in Messages :
     /\ Command[m] \in DocumentedCommands \cup SUPPORTED_COMMANDS
     /\ Command[m] \in ImageCommands => m \notin Damaged /\ Size[m] > 0}

(* Clients that know what the client on offer does not: no command the     *)
(* server refuses, and a ':' behind every key.                             *)
Understood ==
  \A m \in Messages :
    /\ Command[m] \in DocumentedCommands => Command[m] \in SUPPORTED_COMMANDS
    /\ Command[m] \in KeyValueCommands => m \in Delimited

IsServed(m) == \E n \in DOMAIN served : served[n].msg = m

(* Whatever clients and network do, no command is executed twice for one   *)
(* message, and none is executed that was not sent.                        *)
AtMostOnce ==
  /\ \A n \in DOMAIN served : served[n].msg \notin unsent
  /\ \A n, k \in DOMAIN served : served[n].msg = served[k].msg => n = k

(* As long as clients take turns, send whole messages, one or several on a *)
(* connection, and the network keeps the header in one segment, what the   *)
(* server does is what was sent and it stays clear of undefined behaviour. *)
FaithfulUntilHazard ==
  met \subseteq {"reuse"} => /\ ~wild
              /\ \A n \in DOMAIN served : served[n].body = Body(served[n].msg)

(* Clients that give up, lost bodies and damaged images leave the server   *)
(* able to execute the next command without a body: closing the connection *)
(* always brings process_header back.                                      *)
ImmediateServed ==
  met \subseteq {"abort", "chain", "damage"} =>
    \A c \in Open : net[c] = <<>> /\ Command[conn[c]] \in ImmediateCommands
                      => IsServed(conn[c])

(* With no hazard about but reuse, the server is the abstract one for       *)
(* clients whose messages it understands.                                  *)
Abstract ==
  INSTANCE CommandServer WITH
    underway <- {conn[c] : c \in {d \in Connections : net[d] # <<>>}},
    served   <- [n \in DOMAIN served |->
                   IF served[n].body = Body(served[n].msg) THEN served[n].msg
                                                           ELSE None]

ImplementsCommandServer == Abstract!Spec

(* "Process image data only after all chunks are received"                 *)
(* (server.cpp:249): an image that is shown has all its chunks in it.      *)
ChunksComplete ==
  \A n \in DOMAIN served :
    Command[served[n].msg] \in ImageCommands =>
      \A k \in DOMAIN Body(served[n].msg) :
        \E j \in DOMAIN served[n].body : served[n].body[j] = Body(served[n].msg)[k]

(* "Options" (examples/matrix.py:53): once what was sent has arrived, every *)
(* command that the client offers has been executed.                       *)
DocumentedServed ==
  unsent = {} /\ (\A c \in Connections : net[c] = <<>>) =>
    \A m \in Messages : Command[m] \in DocumentedCommands => IsServed(m)
=============================================================================
