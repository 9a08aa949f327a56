---------------------------- MODULE TcpServer_proofs ---------------------------
(***************************************************************************)
(* What the TCP server keeps whatever clients and network do to it, and    *)
(* what it keeps until something goes wrong, for every number of           *)
(* connections and messages, every size of header and body and every way   *)
(* the network cuts the stream.                                            *)
(***************************************************************************)
EXTENDS TcpServer, SequenceTheorems, TLAPS

Total(m) == HEADER_SIZE + Size[m]

(* A connection has the end of its message before it. *)
InTransit ==
  \A c \in Connections :
    IF conn[c] = None THEN net[c] = <<>>
    ELSE /\ Len(net[c]) <= Total(conn[c])
         /\ \A i \in 1 .. Len(net[c]) :
              net[c][i] = Token(conn[c], Total(conn[c]) - Len(net[c]) + i)

(* A message is sent once, by one client. *)
OwnMessages ==
  /\ \A c \in Open : conn[c] \notin unsent
  /\ \A c, d \in Open : conn[c] = conn[d] => c = d

(* The token that announces m has been taken from its connection. *)
Begun(m) == IsServed(m) \/ (receiving_data /\ current = m)

BegunOnce ==
  /\ receiving_data => current \in Messages /\ ~IsServed(current)
  /\ \A m \in Messages : Begun(m) =>
       /\ m \notin unsent
       /\ \A c \in Connections : conn[c] = m => Len(net[c]) <= Size[m]
  /\ \A n, k \in DOMAIN served : served[n].msg = served[k].msg => n = k

(* No header that could be executed waits in the buffer. *)
HeaderWaits == Verdict(header_buffer) \in {"incomplete", "unknown"}

IInv ==
  /\ TypeOK
  /\ InTransit
  /\ OwnMessages
  /\ BegunOnce
  /\ HeaderWaits

-----------------------------------------------------------------------------
LEMMA Sizes ==
  /\ HEADER_SIZE \in Nat /\ HEADER_SIZE > 1
  /\ \A m \in Messages : Size[m] \in Nat /\ Total(m) \in Nat /\ m # None
                         /\ Size[m] <= MAX_BUFFER_SIZE
  BY ServerAssumption DEF Total

LEMMA StreamShape ==
  ASSUME NEW m \in Messages
  PROVE  /\ Stream(m) \in Seq(Tokens) /\ Len(Stream(m)) = Total(m)
         /\ \A i \in 1 .. Total(m) : Stream(m)[i] = Token(m, i)
         /\ Body(m) \in Seq(Tokens) /\ Len(Body(m)) = Size[m]
         /\ \A i \in 1 .. Size[m] : Body(m)[i] = Token(m, HEADER_SIZE + i)
<1>1. HEADER_SIZE \in Nat /\ Size[m] \in Nat /\ Total(m) \in Nat
  BY Sizes
<1>2. \A i \in Nat \ {0} : Token(m, i) \in Tokens
  BY DEF Token, Tokens
<1>3. Stream(m) \in [1 .. Total(m) -> Tokens]
  BY <1>1, <1>2 DEF Stream, Total
<1>4. Body(m) \in [1 .. Size[m] -> Tokens]
  BY <1>1, <1>2 DEF Body
<1>5. Stream(m) \in Seq(Tokens) /\ Len(Stream(m)) = Total(m)
  BY <1>1, <1>3
<1>6. Body(m) \in Seq(Tokens) /\ Len(Body(m)) = Size[m]
  BY <1>1, <1>4
<1> QED  BY <1>1, <1>5, <1>6 DEF Stream, Body, Total

(* What a segment takes from a sequence and what it leaves. *)
LEMMA Cut ==
  ASSUME NEW s \in Seq(Tokens), NEW n \in 0 .. Len(s)
  PROVE  /\ SubSeq(s, 1, n) \in Seq(Tokens) /\ Len(SubSeq(s, 1, n)) = n
         /\ \A i \in 1 .. n : SubSeq(s, 1, n)[i] = s[i]
         /\ SubSeq(s, n + 1, Len(s)) \in Seq(Tokens)
         /\ Len(SubSeq(s, n + 1, Len(s))) = Len(s) - n
         /\ \A i \in 1 .. Len(s) - n : SubSeq(s, n + 1, Len(s))[i] = s[n + i]
<1>1. Len(s) \in Nat /\ \A i \in 1 .. Len(s) : s[i] \in Tokens
  BY LenProperties
<1>2. \A i \in 1 .. n : s[i] \in Tokens
  BY <1>1
<1>3. \A i \in n + 1 .. Len(s) : s[i] \in Tokens
  BY <1>1
<1>4. /\ SubSeq(s, 1, n) \in Seq(Tokens) /\ Len(SubSeq(s, 1, n)) = n
      /\ \A i \in 1 .. n : SubSeq(s, 1, n)[i] = s[i]
  BY <1>1, <1>2, SubSeqProperties
<1>5. /\ SubSeq(s, n + 1, Len(s)) \in Seq(Tokens)
      /\ Len(SubSeq(s, n + 1, Len(s))) = Len(s) - n
      /\ \A i \in 1 .. Len(s) - n : SubSeq(s, n + 1, Len(s))[i] = s[n + i]
  BY <1>1, <1>3, SubSeqProperties
<1> QED  BY <1>4, <1>5

(* What is served is served to the end of the history. *)
LEMMA Served ==
  ASSUME TypeOK, NEW m \in Messages, NEW b \in Seq(Tokens), Do(m, b)
  PROVE  /\ served' \in Seq([msg : Messages, body : Seq(Tokens)])
         /\ DOMAIN served' = DOMAIN served \cup {Len(served) + 1}
         /\ Len(served) + 1 \notin DOMAIN served
         /\ \A n \in DOMAIN served : served'[n] = served[n]
         /\ served'[Len(served) + 1] = [msg |-> m, body |-> b]
         /\ \A x : IsServed(x)' <=> IsServed(x) \/ x = m
<1>1. /\ served \in Seq([msg : Messages, body : Seq(Tokens)])
      /\ served' = Append(served, [msg |-> m, body |-> b])
      /\ [msg |-> m, body |-> b] \in [msg : Messages, body : Seq(Tokens)]
  BY DEF TypeOK, Do
<1>2. /\ Len(served) \in Nat /\ DOMAIN served = 1 .. Len(served)
      /\ served' \in Seq([msg : Messages, body : Seq(Tokens)])
      /\ Len(served') = Len(served) + 1 /\ DOMAIN served' = 1 .. Len(served')
      /\ \A n \in 1 .. Len(served) : served'[n] = served[n]
      /\ served'[Len(served) + 1] = [msg |-> m, body |-> b]
  BY <1>1, AppendProperties, LenProperties
<1>3. DOMAIN served' = DOMAIN served \cup {Len(served) + 1}
  BY <1>2
<1>4. \A x : IsServed(x)' <=> IsServed(x) \/ x = m
  <2> SUFFICES ASSUME NEW x PROVE IsServed(x)' <=> IsServed(x) \/ x = m
    OBVIOUS
  <2>1. ASSUME NEW n \in DOMAIN served', served'[n].msg = x PROVE IsServed(x) \/ x = m
    BY <1>2, <1>3, <2>1, SMTT(30) DEF IsServed
  <2>2. ASSUME NEW n \in DOMAIN served, served[n].msg = x PROVE IsServed(x)'
    BY <1>2, <1>3, <2>2 DEF IsServed
  <2>3. ASSUME x = m PROVE IsServed(x)'
    <3>1. served'[Len(served) + 1].msg = x
      BY <1>2, <2>3
    <3> QED  BY <1>3, <3>1 DEF IsServed
  <2> QED  BY <2>1, <2>2, <2>3 DEF IsServed
<1> QED  BY <1>2, <1>3, <1>4

(* The header on_receive looks at. *)
HeaderOf(c, len) == header_buffer \o SubSeq(net[c], 1, len)

(* What the buffers hold is tokens. *)
LEMMA HeaderTyped ==
  ASSUME TypeOK, NEW c \in Connections, NEW len \in 1 .. Len(net[c])
  PROVE  /\ SubSeq(net[c], 1, len) \in Seq(Tokens)
         /\ Len(SubSeq(net[c], 1, len)) = len
         /\ \A i \in 1 .. len : SubSeq(net[c], 1, len)[i] = net[c][i]
         /\ HeaderOf(c, len) \in Seq(Tokens)
         /\ Len(HeaderOf(c, len)) = Len(header_buffer) + len
         /\ Len(header_buffer) \in Nat
         /\ \A i \in 1 .. Len(header_buffer) + len :
              HeaderOf(c, len)[i] =
                IF i <= Len(header_buffer) THEN header_buffer[i]
                                           ELSE net[c][i - Len(header_buffer)]
<1>1. net[c] \in Seq(Tokens) /\ header_buffer \in Seq(Tokens) /\ Len(net[c]) \in Nat
  BY DEF TypeOK
<1>2. len \in 0 .. Len(net[c])
  BY <1>1
<1>3. /\ SubSeq(net[c], 1, len) \in Seq(Tokens)
      /\ Len(SubSeq(net[c], 1, len)) = len
      /\ \A i \in 1 .. len : SubSeq(net[c], 1, len)[i] = net[c][i]
  BY <1>1, <1>2, Cut
<1>4. Len(header_buffer) \in Nat
  BY <1>1, LenProperties
<1> QED  BY <1>1, <1>3, <1>4, ConcatProperties DEF HeaderOf

LEMMA AnnouncedTyped ==
  ASSUME NEW header \in Seq(Tokens), Verdict(header) \in {"supported", "unknown"}
  PROVE  Announced(header) \in Messages /\ Len(header) >= HEADER_SIZE
<1>1. Len(header) \in Nat /\ Len(header) >= HEADER_SIZE
  BY Sizes, LenProperties DEF Verdict
<1>2. HEADER_SIZE \in 1 .. Len(header)
  BY <1>1, Sizes
<1>3. header[HEADER_SIZE] \in Tokens
  BY <1>2, ElementOfSeq
<1> QED  BY <1>1, <1>3 DEF Announced, Tokens

(* A header that can be executed is completed by the payload: its last     *)
(* token is taken from the connection in this very call.                   *)
LEMMA HeaderArrives ==
  ASSUME IInv, NEW c \in Open, NEW len \in 1 .. Len(net[c]),
         NEW header, header = HeaderOf(c, len),
         Verdict(header) = "supported"
  PROVE  /\ Announced(header) = conn[c] /\ conn[c] \in Messages
         /\ Len(header_buffer) < HEADER_SIZE
         /\ Len(net[c]) > Size[conn[c]]
         /\ Len(net[c]) - len <= Size[conn[c]]
         /\ Command[conn[c]] \in SUPPORTED_COMMANDS
<1>1. TypeOK /\ c \in Connections /\ conn[c] \in Messages /\ Len(net[c]) \in Nat
  BY DEF IInv, TypeOK, Open
<1>2. /\ HEADER_SIZE \in Nat /\ HEADER_SIZE > 1 /\ Size[conn[c]] \in Nat
  BY <1>1, Sizes
<1>3. /\ header \in Seq(Tokens) /\ Len(header) = Len(header_buffer) + len
      /\ Len(header_buffer) \in Nat
      /\ \A i \in 1 .. Len(header) :
           header[i] = IF i <= Len(header_buffer) THEN header_buffer[i]
                                                  ELSE net[c][i - Len(header_buffer)]
  BY <1>1, HeaderTyped
<1>4. /\ Len(header) >= HEADER_SIZE
      /\ header[1].pos = 1 /\ header[HEADER_SIZE].pos = HEADER_SIZE
      /\ Command[header[HEADER_SIZE].msg] \in SUPPORTED_COMMANDS
  BY <1>2, <1>3 DEF Verdict
<1>5. Len(header_buffer) < HEADER_SIZE
  <2> SUFFICES ASSUME Len(header_buffer) >= HEADER_SIZE PROVE FALSE
    BY <1>2, <1>3
  <2>1. header[1] = header_buffer[1] /\ header[HEADER_SIZE] = header_buffer[HEADER_SIZE]
    BY <1>2, <1>3, <1>4
  <2>2. Verdict(header_buffer) = "supported"
    BY <1>2, <1>3, <1>4, <2>1 DEF Verdict
  <2> QED  BY <2>2 DEF IInv, HeaderWaits
<1> DEFINE j == HEADER_SIZE - Len(header_buffer)
<1>6. j \in 1 .. len /\ header[HEADER_SIZE] = net[c][j]
  BY <1>2, <1>3, <1>4, <1>5
<1>7. net[c][j] = Token(conn[c], Total(conn[c]) - Len(net[c]) + j)
  BY <1>1, <1>6 DEF IInv, InTransit, Open
<1> DEFINE p == Total(conn[c]) - Len(net[c]) + j
<1>8. header[HEADER_SIZE] = [msg |-> conn[c], pos |-> p]
  BY <1>6, <1>7 DEF Token
<1>9. header[HEADER_SIZE].msg = conn[c] /\ header[HEADER_SIZE].pos = p
  <2> HIDE DEF p
  <2> QED  BY <1>8
<1>10. /\ j \in Int /\ j >= 1 /\ j <= len
       /\ HEADER_SIZE = HEADER_SIZE + Size[conn[c]] - Len(net[c]) + j
  <2>1. j \in Int /\ j >= 1 /\ j <= len
    BY <1>2, <1>3, <1>6
  <2>2. p = HEADER_SIZE
    BY <1>4, <1>9
  <2> QED  BY <1>1, <1>2, <2>1, <2>2 DEF Total
<1>11. Len(net[c]) > Size[conn[c]] /\ Len(net[c]) - len <= Size[conn[c]]
  <2> HIDE DEF j
  <2> QED  BY <1>1, <1>2, <1>10, SMTT(30)
<1> QED  BY <1>1, <1>4, <1>5, <1>9, <1>11 DEF Announced

(* A segment takes from the front of one connection. *)
LEMMA Consumed ==
  ASSUME IInv, NEW c \in Connections, NEW n \in 1 .. Len(net[c]),
         NEW len \in 1 .. n, Segment(c, n, len)
  PROVE  /\ InTransit' /\ OwnMessages'
         /\ net' \in [Connections -> Seq(Tokens)]
         /\ Len(net'[c]) = Len(net[c]) - n
         /\ \A d \in Connections \ {c} : net'[d] = net[d]
         /\ met' \subseteq Hazards
         /\ UNCHANGED <<conn, unsent>>
         /\ conn[c] \in Messages
<1>1. /\ c \in Open /\ net' = [net EXCEPT ![c] = SubSeq(net[c], n + 1, Len(net[c]))]
      /\ met' \subseteq Hazards /\ UNCHANGED <<conn, unsent>>
  BY DEF Segment, Meet, IInv, TypeOK
<1>2. /\ net \in [Connections -> Seq(Tokens)] /\ net[c] \in Seq(Tokens)
      /\ Len(net[c]) \in Nat /\ conn[c] \in Messages
  BY <1>1 DEF IInv, TypeOK, Open
<1>3. /\ net'[c] \in Seq(Tokens) /\ Len(net'[c]) = Len(net[c]) - n
      /\ \A i \in 1 .. Len(net[c]) - n : net'[c][i] = net[c][n + i]
      /\ \A d \in Connections \ {c} : net'[d] = net[d]
      /\ net' \in [Connections -> Seq(Tokens)]
  <2>1. n \in 0 .. Len(net[c])
    BY <1>2
  <2> QED  BY <1>1, <1>2, <2>1, Cut
<1>4. InTransit'
  <2> SUFFICES ASSUME NEW d \in Connections
               PROVE  IF conn[d] = None THEN net'[d] = <<>>
                      ELSE /\ Len(net'[d]) <= Total(conn[d])
                           /\ \A i \in 1 .. Len(net'[d]) :
                                net'[d][i] = Token(conn[d], Total(conn[d]) - Len(net'[d]) + i)
    BY <1>1 DEF InTransit
  <2>1. CASE d # c
    BY <1>3, <2>1 DEF IInv, InTransit
  <2>2. CASE d = c
    <3>1. /\ Len(net[c]) <= Total(conn[c])
          /\ \A i \in 1 .. Len(net[c]) :
               net[c][i] = Token(conn[c], Total(conn[c]) - Len(net[c]) + i)
      BY <1>1 DEF IInv, InTransit, Open
    <3>2. Total(conn[c]) \in Nat
      BY <1>2, Sizes
    <3>3. ASSUME NEW i \in 1 .. Len(net'[c])
          PROVE  net'[c][i] = Token(conn[c], Total(conn[c]) - Len(net'[c]) + i)
      <4>1. n + i \in 1 .. Len(net[c]) /\ net'[c][i] = net[c][n + i]
        BY <1>2, <1>3
      <4>2. Total(conn[c]) - Len(net[c]) + (n + i) = Total(conn[c]) - Len(net'[c]) + i
        BY <1>2, <1>3, <3>2
      <4> QED  BY <3>1, <4>1, <4>2
    <3> QED  BY <1>1, <1>2, <1>3, <2>2, <3>1, <3>2, <3>3 DEF Open
  <2> QED  BY <2>1, <2>2
<1>5. OwnMessages'
  BY <1>1 DEF IInv, OwnMessages, Open
<1> QED  BY <1>1, <1>2, <1>3, <1>4, <1>5

(* What the buffer holds when the payload has been put behind it. *)
BufferOf(payload, offset) == recv_buffer \o SubSeq(payload, offset + 1, Len(payload))

LEMMA BufferTyped ==
  ASSUME TypeOK, NEW payload \in Seq(Tokens), NEW offset \in {0, HEADER_SIZE}
  PROVE  /\ BufferOf(payload, offset) \in Seq(Tokens)
         /\ Len(BufferOf(payload, offset)) \in Nat
<1>1. Len(payload) \in Nat /\ \A i \in 1 .. Len(payload) : payload[i] \in Tokens
  BY LenProperties
<1>2. offset \in Nat
  BY Sizes
<1>3. \A i \in offset + 1 .. Len(payload) : payload[i] \in Tokens
  BY <1>1, <1>2
<1>4. SubSeq(payload, offset + 1, Len(payload)) \in Seq(Tokens)
  BY <1>1, <1>2, <1>3, SubSeqProperties
<1>5. recv_buffer \in Seq(Tokens)
  BY DEF TypeOK
<1>6. BufferOf(payload, offset) \in Seq(Tokens)
  BY <1>4, <1>5, ConcatProperties DEF BufferOf
<1> QED  BY <1>6, LenProperties

(* The rest of on_receive executes the message it received, once it is     *)
(* complete, or nothing.                                                   *)
LEMMA Received ==
  ASSUME TypeOK, NEW m \in Messages, NEW payload \in Seq(Tokens),
         NEW offset \in {0, HEADER_SIZE}, Receive(m, payload, offset)
  PROVE  /\ current' = m
         /\ header_buffer' \in {header_buffer, <<>>}
         /\ wild' \in BOOLEAN /\ receiving_data' \in BOOLEAN
         /\ recv_buffer' \in Seq(Tokens) /\ Len(recv_buffer') <= MAX_BUFFER_SIZE
         /\ \/ UNCHANGED served
            \/ ~receiving_data' /\ \E b \in Seq(Tokens) : Do(m, b)
<1> DEFINE buffer == BufferOf(payload, offset)
<1>1. buffer \in Seq(Tokens) /\ Len(buffer) \in Nat
  BY BufferTyped
<1>2. /\ current' = m
      /\ header_buffer' = IF receiving_data THEN header_buffer ELSE <<>>
      /\ wild' = Overflows(buffer, payload, offset)
      /\ receiving_data' = (wild' \/ Len(buffer) < Size[m])
      /\ \/ wild' /\ recv_buffer' = <<>> /\ UNCHANGED served
         \/ ~wild' /\ recv_buffer' = buffer /\ UNCHANGED served
         \/ ~receiving_data' /\ process_key_value_command(m, buffer)
         \/ ~receiving_data' /\ process_data(m, buffer)
  BY DEF Receive, BufferOf
<1>3. wild' \in BOOLEAN /\ receiving_data' \in BOOLEAN
  BY <1>2 DEF Overflows
<1>4. ~wild' => Len(buffer) <= MAX_BUFFER_SIZE
  BY <1>1, <1>2, ServerAssumption DEF Overflows
<1>5. ~receiving_data' => ~wild'
  BY <1>2
<1>6. <<>> \in Seq(Tokens) /\ Len(<<>>) <= MAX_BUFFER_SIZE
  BY ServerAssumption
<1> HIDE DEF buffer
<1>7. CASE wild' /\ recv_buffer' = <<>> /\ UNCHANGED served
  BY <1>2, <1>3, <1>6, <1>7
<1>8. CASE ~wild' /\ recv_buffer' = buffer /\ UNCHANGED served
  BY <1>1, <1>2, <1>3, <1>4, <1>8
<1>9. CASE ~receiving_data' /\ process_key_value_command(m, buffer)
  <2>1. recv_buffer' = <<>> /\ (UNCHANGED served \/ Do(m, buffer))
    BY <1>9 DEF process_key_value_command, PairDone
  <2> QED  BY <1>1, <1>2, <1>3, <1>6, <1>9, <2>1
<1>10. CASE ~receiving_data' /\ process_data(m, buffer)
  <2>1. \A image \in Uncompressed(buffer) : image \in Seq(Tokens)
    BY StreamShape DEF Uncompressed
  <2>2. recv_buffer' \in {buffer, <<>>}
    BY <1>10 DEF process_data
  <2>3. UNCHANGED served \/ \E b \in Seq(Tokens) : Do(m, b)
    BY <1>1, <1>10, <2>1 DEF process_data
  <2> QED  BY <1>1, <1>2, <1>3, <1>4, <1>5, <1>6, <1>10, <2>2, <2>3
<1> QED  BY <1>2, <1>7, <1>8, <1>9, <1>10

-----------------------------------------------------------------------------
LEMMA InitInv == Init => IInv
<1> SUFFICES ASSUME Init PROVE IInv
  OBVIOUS
<1>1. Open = {} /\ \A m : ~Begun(m)
  BY DEF Init, Open, Begun, IsServed
<1>2. TypeOK
  <2>1. <<>> \in Seq(Tokens) /\ Len(<<>>) <= MAX_BUFFER_SIZE
        /\ <<>> \in Seq([msg : Messages, body : Seq(Tokens)])
    BY ServerAssumption
  <2> QED  BY <2>1 DEF Init, TypeOK
<1>3. InTransit
  BY DEF Init, InTransit
<1>4. OwnMessages /\ BegunOnce
  BY <1>1 DEF Init, OwnMessages, BegunOnce
<1>5. HeaderWaits
  BY Sizes DEF Init, HeaderWaits, Verdict
<1> QED  BY <1>2, <1>3, <1>4, <1>5 DEF IInv

(* A message that is written is new, and all of it is before it. *)
LEMMA WriteStep ==
  ASSUME IInv, NEW c \in Connections, NEW m \in unsent,
         conn[c] = None \/ c \in Open,
         conn' = [conn EXCEPT ![c] = m], net' = [net EXCEPT ![c] = Stream(m)],
         unsent' = unsent \ {m}, met' \subseteq Hazards,
         UNCHANGED <<recv_state, wild, served>>
  PROVE  IInv'
<1>1. m \in Messages /\ m # None /\ Total(m) \in Nat /\ Size[m] \in Nat
  BY Sizes DEF IInv, TypeOK
<1>2. /\ Stream(m) \in Seq(Tokens) /\ Len(Stream(m)) = Total(m)
      /\ \A i \in 1 .. Total(m) : Stream(m)[i] = Token(m, i)
  BY <1>1, StreamShape
<1>3. UNCHANGED <<receiving_data, current, header_buffer, recv_buffer, wild, served>>
  BY DEF recv_state
<1>4. /\ conn \in [Connections -> Messages \cup {None}]
      /\ net \in [Connections -> Seq(Tokens)] /\ unsent \subseteq Messages
  BY DEF IInv, TypeOK
<1>5. /\ conn'[c] = m /\ net'[c] = Stream(m)
      /\ \A d \in Connections \ {c} : conn'[d] = conn[d] /\ net'[d] = net[d]
  BY <1>4
<1>6. TypeOK'
  BY <1>1, <1>2, <1>3, <1>4 DEF IInv, TypeOK
<1>7. InTransit'
  <2> SUFFICES ASSUME NEW d \in Connections
               PROVE  IF conn'[d] = None THEN net'[d] = <<>>
                      ELSE /\ Len(net'[d]) <= Total(conn'[d])
                           /\ \A i \in 1 .. Len(net'[d]) :
                                net'[d][i] = Token(conn'[d], Total(conn'[d]) - Len(net'[d]) + i)
    BY DEF InTransit
  <2>1. CASE d = c
    <3>1. ASSUME NEW i \in 1 .. Total(m)
          PROVE  Stream(m)[i] = Token(m, Total(m) - Total(m) + i)
      BY <1>1, <1>2
    <3> QED  BY <1>1, <1>2, <1>5, <2>1, <3>1
  <2>2. CASE d # c
    BY <1>5, <2>2 DEF IInv, InTransit
  <2> QED  BY <2>1, <2>2
<1>8. OwnMessages'
  BY <1>1, <1>4, <1>5 DEF IInv, OwnMessages, Open
<1>9. BegunOnce'
  <2>1. \A x : Begun(x)' <=> Begun(x)
    BY <1>3 DEF Begun, IsServed
  <2>2. ~Begun(m)
    BY <1>1 DEF IInv, BegunOnce
  <2>3. IsServed(current)' <=> IsServed(current)
    BY <1>3 DEF IsServed
  <2> QED  BY <1>1, <1>3, <1>4, <1>5, <2>1, <2>2, <2>3 DEF IInv, BegunOnce
<1>10. HeaderWaits'
  BY <1>3 DEF IInv, HeaderWaits
<1> QED  BY <1>6, <1>7, <1>8, <1>9, <1>10 DEF IInv

LEMMA EmptyHeader == <<>> \in Seq(Tokens) /\ Verdict(<<>>) = "incomplete"
  BY Sizes DEF Verdict

(* A connection that goes away takes the rest of its message with it. *)
LEMMA GoneStep ==
  ASSUME IInv, NEW c \in Open, Gone(c), met' \subseteq Hazards,
         UNCHANGED <<unsent, wild, served, recv_buffer>>,
         \/ UNCHANGED <<receiving_data, current, header_buffer>>
         \/ receiving_data' = FALSE /\ current' = None /\ header_buffer' = <<>>
  PROVE  IInv'
<1>1. /\ conn' = [conn EXCEPT ![c] = None] /\ net' = [net EXCEPT ![c] = <<>>]
      /\ c \in Connections
      /\ conn \in [Connections -> Messages \cup {None}]
      /\ net \in [Connections -> Seq(Tokens)] /\ unsent \subseteq Messages
  BY DEF Gone, Open, IInv, TypeOK
<1>2. /\ conn'[c] = None /\ net'[c] = <<>>
      /\ \A d \in Connections \ {c} : conn'[d] = conn[d] /\ net'[d] = net[d]
  BY <1>1
<1>3. TypeOK'
  BY <1>1, EmptyHeader DEF IInv, TypeOK
<1>4. InTransit'
  BY <1>2 DEF IInv, InTransit
<1>5. OwnMessages'
  BY <1>1, <1>2 DEF IInv, OwnMessages, Open
<1>6. BegunOnce'
  <2>1. \A x : IsServed(x)' <=> IsServed(x)
    BY DEF IsServed
  <2>2. \A x : Begun(x)' => Begun(x)
    BY <2>1 DEF Begun
  <2>3. \A m \in Messages : m # None
    BY Sizes
  <2> QED  BY <1>2, <2>1, <2>2, <2>3 DEF IInv, BegunOnce
<1>7. HeaderWaits'
  BY EmptyHeader DEF IInv, HeaderWaits
<1> QED  BY <1>3, <1>4, <1>5, <1>6, <1>7 DEF IInv

(* The message a connection carries is taken up at most once, because its  *)
(* announcement leaves the connection with it.                             *)
LEMMA TakeUp ==
  ASSUME IInv, NEW c \in Open, Len(net[c]) > Size[conn[c]]
  PROVE  /\ conn[c] \in Messages /\ ~Begun(conn[c]) /\ conn[c] \notin unsent
         /\ \A d \in Connections : conn[d] = conn[c] => d = c
<1>1. c \in Connections /\ conn[c] \in Messages /\ conn[c] # None /\ Len(net[c]) \in Nat
      /\ Size[conn[c]] \in Nat
  BY Sizes DEF IInv, TypeOK, Open
<1>2. ~Begun(conn[c])
  <2>1. ~(Len(net[c]) <= Size[conn[c]])
    BY <1>1
  <2> QED  BY <1>1, <2>1 DEF IInv, BegunOnce
<1> QED  BY <1>1, <1>2 DEF IInv, OwnMessages, Open

(* A call that takes up no message, or the one of the connection it takes  *)
(* tokens from.                                                            *)
LEMMA BegunStep ==
  ASSUME IInv, UNCHANGED <<conn, unsent>>,
         \A d \in Connections : Len(net'[d]) \in Nat /\ Len(net'[d]) <= Len(net[d]),
         NEW c \in Connections,
         \A m \in Messages : Begun(m)' => \/ Begun(m)
                                         \/ /\ m = conn[c] /\ m \notin unsent
                                            /\ \A d \in Connections : conn[d] = m => d = c
                                            /\ Len(net'[c]) <= Size[m],
         receiving_data' => current' \in Messages /\ ~IsServed(current)',
         \A k, l \in DOMAIN served' : served'[k].msg = served'[l].msg => k = l
  PROVE  BegunOnce'
<1> SUFFICES ASSUME NEW m \in Messages, Begun(m)'
             PROVE  /\ m \notin unsent
                    /\ \A d \in Connections : conn[d] = m => Len(net'[d]) <= Size[m]
  BY DEF BegunOnce
<1>1. Size[m] \in Nat /\ \A d \in Connections : Len(net[d]) \in Nat
  BY Sizes DEF IInv, TypeOK
<1>2. CASE Begun(m)
  <2>1. m \notin unsent /\ \A d \in Connections : conn[d] = m => Len(net[d]) <= Size[m]
    BY <1>2 DEF IInv, BegunOnce
  <2> QED  BY <1>1, <2>1
<1>3. CASE ~Begun(m)
  BY <1>3
<1> QED  BY <1>2, <1>3

LEMMA ReceiveBodyStep ==
  ASSUME IInv, NEW c \in Connections, NEW n \in 1 .. Len(net[c]), NEW len \in 1 .. n,
         Segment(c, n, len), ReceiveBody(SubSeq(net[c], 1, len))
  PROVE  IInv'
<1>1. /\ InTransit' /\ OwnMessages' /\ net' \in [Connections -> Seq(Tokens)]
      /\ Len(net'[c]) = Len(net[c]) - n
      /\ \A d \in Connections \ {c} : net'[d] = net[d]
      /\ met' \subseteq Hazards /\ UNCHANGED <<conn, unsent>>
  BY Consumed
<1>2. receiving_data /\ current \in Messages /\ ~IsServed(current)
  BY DEF ReceiveBody, IInv, BegunOnce
<1>3. len \in 1 .. Len(net[c]) /\ Len(net[c]) \in Nat
  BY DEF IInv, TypeOK
<1>4. SubSeq(net[c], 1, len) \in Seq(Tokens)
  BY <1>3, HeaderTyped DEF IInv
<1>5. /\ current' = current
      /\ header_buffer' \in {header_buffer, <<>>}
      /\ wild' \in BOOLEAN /\ receiving_data' \in BOOLEAN
      /\ recv_buffer' \in Seq(Tokens) /\ Len(recv_buffer') <= MAX_BUFFER_SIZE
      /\ \/ UNCHANGED served
         \/ ~receiving_data' /\ \E b \in Seq(Tokens) : Do(current, b)
  BY <1>2, <1>4, Received DEF ReceiveBody, BodyOffset, IInv
<1>6. HeaderWaits' /\ header_buffer' \in Seq(Tokens)
  BY <1>5, EmptyHeader DEF IInv, HeaderWaits, TypeOK
<1>7. Begun(current)
  BY <1>2 DEF Begun
<1>8. \A d \in Connections :
        Len(net'[d]) \in Nat /\ Len(net[d]) \in Nat /\ Len(net'[d]) <= Len(net[d])
  <2>1. \A d \in Connections : Len(net'[d]) \in Nat /\ Len(net[d]) \in Nat
    BY <1>1 DEF IInv, TypeOK
  <2> QED  BY <1>1, <2>1
<1>9. CASE UNCHANGED served
  <2>1. \A x : IsServed(x)' <=> IsServed(x)
    BY <1>9 DEF IsServed
  <2>2. \A x : Begun(x)' => Begun(x)
    BY <1>2, <1>5, <2>1 DEF Begun
  <2>3. BegunOnce'
    BY <1>1, <1>2, <1>5, <1>8, <1>9, <2>1, <2>2, BegunStep DEF IInv, BegunOnce
  <2>4. TypeOK'
    BY <1>1, <1>5, <1>6, <1>9 DEF IInv, TypeOK
  <2> QED  BY <1>1, <1>6, <2>3, <2>4 DEF IInv
<1>10. ASSUME ~receiving_data', NEW b \in Seq(Tokens), Do(current, b) PROVE IInv'
  <2>1. /\ served' \in Seq([msg : Messages, body : Seq(Tokens)])
        /\ DOMAIN served' = DOMAIN served \cup {Len(served) + 1}
        /\ \A k \in DOMAIN served : served'[k] = served[k]
        /\ served'[Len(served) + 1] = [msg |-> current, body |-> b]
        /\ \A x : IsServed(x)' <=> IsServed(x) \/ x = current
    BY <1>2, <1>10, Served DEF IInv
  <2>2. \A x : Begun(x)' => Begun(x)
    BY <1>7, <1>10, <2>1 DEF Begun
  <2>3. \A k \in DOMAIN served : served[k].msg # current
    BY <1>2 DEF IsServed
  <2>4. \A k, l \in DOMAIN served' : served'[k].msg = served'[l].msg => k = l
    BY <2>1, <2>3 DEF IInv, BegunOnce
  <2>5. BegunOnce'
    BY <1>1, <1>8, <1>10, <2>2, <2>4, BegunStep
  <2>6. TypeOK'
    BY <1>1, <1>2, <1>5, <1>6, <2>1 DEF IInv, TypeOK
  <2> QED  BY <1>1, <1>6, <2>5, <2>6 DEF IInv
<1> QED  BY <1>5, <1>9, <1>10

LEMMA RejectHeaderStep ==
  ASSUME IInv, NEW c \in Connections, NEW n \in 1 .. Len(net[c]), NEW len \in 1 .. n,
         Segment(c, n, len), ~receiving_data, RejectHeader(HeaderOf(c, len))
  PROVE  IInv'
<1> DEFINE header == HeaderOf(c, len)
<1>1. /\ InTransit' /\ OwnMessages' /\ net' \in [Connections -> Seq(Tokens)]
      /\ Len(net'[c]) = Len(net[c]) - n
      /\ \A d \in Connections \ {c} : net'[d] = net[d]
      /\ met' \subseteq Hazards /\ UNCHANGED <<conn, unsent>>
  BY Consumed
<1>2. Len(net[c]) \in Nat /\ len \in 1 .. Len(net[c])
  BY DEF IInv, TypeOK
<1>3. header \in Seq(Tokens)
  BY <1>2, HeaderTyped DEF IInv
<1> HIDE DEF header
<1>4. /\ Verdict(header) \in {"incomplete", "bad prefix", "unknown"}
      /\ header_buffer' = IF Verdict(header) = "bad prefix" THEN <<>> ELSE header
      /\ current' = IF Verdict(header) = "unknown" THEN Announced(header) ELSE current
      /\ UNCHANGED <<receiving_data, recv_buffer, wild, served>>
  BY DEF RejectHeader, header, Verdict
<1>5. HeaderWaits' /\ header_buffer' \in Seq(Tokens)
  BY <1>3, <1>4, EmptyHeader DEF HeaderWaits
<1>6. current' \in Messages \cup {None}
  BY <1>3, <1>4, AnnouncedTyped DEF IInv, TypeOK
<1>7. TypeOK'
  BY <1>1, <1>4, <1>5, <1>6 DEF IInv, TypeOK
<1>8. \A d \in Connections : Len(net'[d]) \in Nat /\ Len(net'[d]) <= Len(net[d])
  <2>1. \A d \in Connections : Len(net'[d]) \in Nat /\ Len(net[d]) \in Nat
    BY <1>1 DEF IInv, TypeOK
  <2> QED  BY <1>1, <2>1
<1>9. \A x : Begun(x)' => Begun(x)
  BY <1>4 DEF Begun, IsServed
<1>10. \A k, l \in DOMAIN served' : served'[k].msg = served'[l].msg => k = l
  BY <1>4 DEF IInv, BegunOnce
<1>11. BegunOnce'
  BY <1>1, <1>4, <1>8, <1>9, <1>10, BegunStep
<1> QED  BY <1>1, <1>5, <1>7, <1>11 DEF IInv

(* The command in the header is executed now, *)
LEMMA ExecuteHeaderStep ==
  ASSUME IInv, NEW c \in Connections, NEW n \in 1 .. Len(net[c]), NEW len \in 1 .. n,
         Segment(c, n, len), ~receiving_data, ExecuteHeader(HeaderOf(c, len))
  PROVE  IInv'
<1>1. /\ InTransit' /\ OwnMessages' /\ net' \in [Connections -> Seq(Tokens)]
      /\ Len(net'[c]) = Len(net[c]) - n
      /\ \A d \in Connections \ {c} : net'[d] = net[d]
      /\ met' \subseteq Hazards /\ UNCHANGED <<conn, unsent>>
  BY Consumed
<1>2. Len(net[c]) \in Nat /\ len \in 1 .. Len(net[c]) /\ c \in Open
  BY DEF IInv, TypeOK, Segment
<1> DEFINE m == Announced(HeaderOf(c, len))
<1>3. Verdict(HeaderOf(c, len)) = "supported"
  BY DEF ExecuteHeader
<1>4. m = conn[c] /\ Len(net[c]) > Size[conn[c]] /\ Len(net[c]) - len <= Size[conn[c]]
  BY <1>2, <1>3, HeaderArrives
<1>5. /\ m \in Messages /\ ~Begun(m) /\ m \notin unsent
      /\ \A d \in Connections : conn[d] = m => d = c
  BY <1>2, <1>4, TakeUp
<1> HIDE DEF m
<1>6. /\ header_buffer' = <<>> /\ current' = m /\ Do(m, <<>>)
      /\ UNCHANGED <<receiving_data, recv_buffer, wild>>
  BY DEF ExecuteHeader, ExecutedHeader, m
<1>7. /\ served' \in Seq([msg : Messages, body : Seq(Tokens)])
      /\ DOMAIN served' = DOMAIN served \cup {Len(served) + 1}
      /\ \A k \in DOMAIN served : served'[k] = served[k]
      /\ served'[Len(served) + 1] = [msg |-> m, body |-> <<>>]
      /\ \A x : IsServed(x)' <=> IsServed(x) \/ x = m
  BY <1>5, <1>6, EmptyHeader, Served DEF IInv
<1>8. HeaderWaits' /\ header_buffer' \in Seq(Tokens)
  BY <1>6, EmptyHeader DEF HeaderWaits
<1>9. TypeOK'
  BY <1>1, <1>5, <1>6, <1>7, <1>8 DEF IInv, TypeOK
<1>10. \A d \in Connections : Len(net'[d]) \in Nat /\ Len(net'[d]) <= Len(net[d])
  <2>1. \A d \in Connections : Len(net'[d]) \in Nat /\ Len(net[d]) \in Nat
    BY <1>1 DEF IInv, TypeOK
  <2> QED  BY <1>1, <2>1
<1>11. Len(net'[c]) <= Size[m]
  BY <1>1, <1>2, <1>4, <1>5, Sizes
<1>12. \A x : Begun(x)' => Begun(x) \/ x = m
  BY <1>6, <1>7 DEF Begun
<1>13. \A k, l \in DOMAIN served' : served'[k].msg = served'[l].msg => k = l
  <2>1. \A k \in DOMAIN served : served[k].msg # m
    BY <1>5 DEF Begun, IsServed
  <2> QED  BY <1>7, <2>1 DEF IInv, BegunOnce
<1>14. BegunOnce'
  BY <1>1, <1>4, <1>5, <1>6, <1>10, <1>11, <1>12, <1>13, BegunStep
<1> QED  BY <1>1, <1>8, <1>9, <1>14 DEF IInv

(* or when its body is there. *)
LEMMA ReceiveFirstStep ==
  ASSUME IInv, NEW c \in Connections, NEW n \in 1 .. Len(net[c]), NEW len \in 1 .. n,
         Segment(c, n, len), ~receiving_data,
         ReceiveFirst(HeaderOf(c, len), SubSeq(net[c], 1, len))
  PROVE  IInv'
<1>1. /\ InTransit' /\ OwnMessages' /\ net' \in [Connections -> Seq(Tokens)]
      /\ Len(net'[c]) = Len(net[c]) - n
      /\ \A d \in Connections \ {c} : net'[d] = net[d]
      /\ met' \subseteq Hazards /\ UNCHANGED <<conn, unsent>>
  BY Consumed
<1>2. Len(net[c]) \in Nat /\ len \in 1 .. Len(net[c]) /\ c \in Open
  BY DEF IInv, TypeOK, Segment
<1> DEFINE m == Announced(HeaderOf(c, len))
<1>3. Verdict(HeaderOf(c, len)) = "supported"
  BY DEF ReceiveFirst
<1>4. m = conn[c] /\ Len(net[c]) > Size[conn[c]] /\ Len(net[c]) - len <= Size[conn[c]]
  BY <1>2, <1>3, HeaderArrives
<1>5. /\ m \in Messages /\ ~Begun(m) /\ m \notin unsent
      /\ \A d \in Connections : conn[d] = m => d = c
  BY <1>2, <1>4, TakeUp
<1>6. SubSeq(net[c], 1, len) \in Seq(Tokens)
  BY <1>2, HeaderTyped DEF IInv
<1> HIDE DEF m
<1>7. /\ current' = m
      /\ header_buffer' \in {header_buffer, <<>>}
      /\ wild' \in BOOLEAN /\ receiving_data' \in BOOLEAN
      /\ recv_buffer' \in Seq(Tokens) /\ Len(recv_buffer') <= MAX_BUFFER_SIZE
      /\ \/ UNCHANGED served
         \/ ~receiving_data' /\ \E b \in Seq(Tokens) : Do(m, b)
  BY <1>5, <1>6, Received DEF ReceiveFirst, IInv, m
<1>8. HeaderWaits' /\ header_buffer' \in Seq(Tokens)
  BY <1>7, EmptyHeader DEF IInv, HeaderWaits, TypeOK
<1>9. \A d \in Connections : Len(net'[d]) \in Nat /\ Len(net'[d]) <= Len(net[d])
  <2>1. \A d \in Connections : Len(net'[d]) \in Nat /\ Len(net[d]) \in Nat
    BY <1>1 DEF IInv, TypeOK
  <2> QED  BY <1>1, <2>1
<1>10. Len(net'[c]) <= Size[m]
  BY <1>1, <1>2, <1>4, <1>5, Sizes
<1>11. ~IsServed(m)
  BY <1>5 DEF Begun
<1>12. CASE UNCHANGED served
  <2>1. \A x : IsServed(x)' <=> IsServed(x)
    BY <1>12 DEF IsServed
  <2>2. \A x : Begun(x)' => Begun(x) \/ x = m
    BY <1>7, <2>1 DEF Begun
  <2>3. BegunOnce'
    <3>1. \A k, l \in DOMAIN served' : served'[k].msg = served'[l].msg => k = l
      BY <1>12 DEF IInv, BegunOnce
    <3> QED  BY <1>1, <1>4, <1>5, <1>7, <1>9, <1>10, <1>11, <2>1, <2>2, <3>1, BegunStep
  <2>4. TypeOK'
    BY <1>1, <1>5, <1>7, <1>8, <1>12 DEF IInv, TypeOK
  <2> QED  BY <1>1, <1>8, <2>3, <2>4 DEF IInv
<1>13. ASSUME ~receiving_data', NEW b \in Seq(Tokens), Do(m, b) PROVE IInv'
  <2>1. /\ served' \in Seq([msg : Messages, body : Seq(Tokens)])
        /\ DOMAIN served' = DOMAIN served \cup {Len(served) + 1}
        /\ \A k \in DOMAIN served : served'[k] = served[k]
        /\ served'[Len(served) + 1] = [msg |-> m, body |-> b]
        /\ \A x : IsServed(x)' <=> IsServed(x) \/ x = m
    BY <1>5, <1>13, Served DEF IInv
  <2>2. \A x : Begun(x)' => Begun(x) \/ x = m
    BY <1>13, <2>1 DEF Begun
  <2>3. \A k \in DOMAIN served : served[k].msg # m
    BY <1>11 DEF IsServed
  <2>4. \A k, l \in DOMAIN served' : served'[k].msg = served'[l].msg => k = l
    BY <2>1, <2>3 DEF IInv, BegunOnce
  <2>5. BegunOnce'
    BY <1>1, <1>4, <1>5, <1>9, <1>10, <1>13, <2>2, <2>4, BegunStep
  <2>6. TypeOK'
    BY <1>1, <1>5, <1>7, <1>8, <2>1 DEF IInv, TypeOK
  <2> QED  BY <1>1, <1>8, <2>5, <2>6 DEF IInv
<1> QED  BY <1>7, <1>12, <1>13

LEMMA RebootStep ==
  ASSUME IInv, NEW c \in Connections, NEW n \in 1 .. Len(net[c]), Reboot(c, n)
  PROVE  IInv'
<1>1. n \in 1 .. Len(net[c]) /\ c \in Open /\ ~receiving_data
  BY DEF Reboot
<1> DEFINE m == Announced(HeaderOf(c, n))
<1>2. Verdict(HeaderOf(c, n)) = "supported" /\ Do(m, <<>>)
  BY DEF Reboot, HeaderOf
<1>3. m = conn[c] /\ Len(net[c]) > Size[conn[c]]
  BY <1>1, <1>2, HeaderArrives
<1>4. m \in Messages /\ ~Begun(m) /\ m \notin unsent
  BY <1>1, <1>3, TakeUp
<1> HIDE DEF m
<1>5. /\ conn' = [d \in Connections |-> None] /\ net' = [d \in Connections |-> <<>>]
      /\ receiving_data' = FALSE /\ current' = None
      /\ header_buffer' = <<>> /\ recv_buffer' = <<>>
      /\ UNCHANGED <<unsent, wild, met>>
  BY DEF Reboot
<1>6. /\ served' \in Seq([msg : Messages, body : Seq(Tokens)])
      /\ DOMAIN served' = DOMAIN served \cup {Len(served) + 1}
      /\ \A k \in DOMAIN served : served'[k] = served[k]
      /\ served'[Len(served) + 1] = [msg |-> m, body |-> <<>>]
      /\ \A x : IsServed(x)' <=> IsServed(x) \/ x = m
  BY <1>2, <1>4, EmptyHeader, Served DEF IInv
<1>7. TypeOK'
  <2>1. Len(<<>>) <= MAX_BUFFER_SIZE
    BY ServerAssumption
  <2>2. net' \in [Connections -> Seq(Tokens)] /\ conn' \in [Connections -> Messages \cup {None}]
    BY <1>5, EmptyHeader
  <2> QED  BY <1>5, <1>6, <2>1, <2>2, EmptyHeader DEF IInv, TypeOK
<1>8. InTransit' /\ OwnMessages' /\ HeaderWaits'
  BY <1>5, EmptyHeader DEF InTransit, OwnMessages, Open, HeaderWaits
<1>9. BegunOnce'
  <2>1. \A x : Begun(x)' => Begun(x) \/ x = m
    BY <1>5, <1>6 DEF Begun
  <2>2. \A k \in DOMAIN served : served[k].msg # m
    BY <1>4 DEF Begun, IsServed
  <2>3. \A k, l \in DOMAIN served' : served'[k].msg = served'[l].msg => k = l
    BY <1>6, <2>2 DEF IInv, BegunOnce
  <2>4. \A x \in Messages : x # None
    BY Sizes
  <2> QED  BY <1>4, <1>5, <2>1, <2>3, <2>4 DEF IInv, BegunOnce
<1> QED  BY <1>7, <1>8, <1>9 DEF IInv

(* Every callback, seen as one of the steps above. *)
LEMMA Callback ==
  ASSUME IInv, NEW c \in Connections, Deliver(c)
  PROVE  \E n \in 1 .. Len(net[c]) :
           \/ \E len \in 1 .. n :
                /\ Segment(c, n, len)
                /\ \/ ReceiveBody(SubSeq(net[c], 1, len))
                   \/ ~receiving_data /\ RejectHeader(HeaderOf(c, len))
                   \/ ~receiving_data /\ ExecuteHeader(HeaderOf(c, len))
                   \/ /\ ~receiving_data
                      /\ ReceiveFirst(HeaderOf(c, len), SubSeq(net[c], 1, len))
           \/ Reboot(c, n)
  BY DEF Deliver, on_receive, HeaderOf

LEMMA NextInv == IInv /\ [Next]_vars => IInv'
<1> SUFFICES ASSUME IInv, [Next]_vars PROVE IInv'
  OBVIOUS
<1>1. ASSUME NEW c \in Connections, NEW m \in Messages, Connect(c, m) PROVE IInv'
  <2>1. /\ conn[c] = None /\ m \in unsent /\ met' \subseteq Hazards
        /\ conn' = [conn EXCEPT ![c] = m] /\ net' = [net EXCEPT ![c] = Stream(m)]
        /\ unsent' = unsent \ {m} /\ UNCHANGED <<recv_state, wild, served>>
    BY <1>1 DEF Connect, Meet, IInv, TypeOK
  <2> QED  BY <2>1, WriteStep
<1>2. ASSUME NEW c \in Connections, NEW m \in Messages, SendAgain(c, m) PROVE IInv'
  <2>1. /\ c \in Open /\ m \in unsent /\ met' \subseteq Hazards
        /\ conn' = [conn EXCEPT ![c] = m] /\ net' = [net EXCEPT ![c] = Stream(m)]
        /\ unsent' = unsent \ {m} /\ UNCHANGED <<recv_state, wild, served>>
    BY <1>2 DEF SendAgain, Meet, IInv, TypeOK
  <2> QED  BY <2>1, WriteStep
<1>3. ASSUME NEW c \in Connections, Deliver(c) PROVE IInv'
  BY <1>3, Callback, ReceiveBodyStep, RejectHeaderStep, ExecuteHeaderStep,
     ReceiveFirstStep, RebootStep
<1>4. ASSUME NEW c \in Connections, Disconnect(c) PROVE IInv'
  <2>1. /\ c \in Open /\ Gone(c) /\ met' \subseteq Hazards
        /\ receiving_data' = FALSE /\ current' = None /\ header_buffer' = <<>>
        /\ UNCHANGED <<unsent, wild, served, recv_buffer>>
    BY <1>4 DEF Disconnect, Meet, reset_recv_state, IInv, TypeOK
  <2> QED  BY <2>1, GoneStep
<1>5. ASSUME NEW c \in Connections, on_error(c) PROVE IInv'
  <2>1. /\ c \in Open /\ Gone(c) /\ met' \subseteq Hazards
        /\ UNCHANGED <<unsent, wild, served, recv_buffer>>
        /\ UNCHANGED <<receiving_data, current, header_buffer>>
    BY <1>5 DEF on_error, Meet, recv_state, IInv, TypeOK
  <2> QED  BY <2>1, GoneStep
<1>6. CASE UNCHANGED vars
  <2>1. UNCHANGED <<conn, net, unsent, receiving_data, current, header_buffer,
                    recv_buffer, wild, served, met>>
    BY <1>6 DEF vars, recv_state
  <2>2. TypeOK' /\ InTransit' /\ OwnMessages' /\ HeaderWaits'
    BY <2>1 DEF IInv, TypeOK, InTransit, OwnMessages, Open, HeaderWaits
  <2>3. BegunOnce'
    BY <2>1 DEF IInv, BegunOnce, Begun, IsServed
  <2> QED  BY <2>2, <2>3 DEF IInv
<1> QED  BY <1>1, <1>2, <1>3, <1>4, <1>5, <1>6 DEF Next

-----------------------------------------------------------------------------
LEMMA Invariant == Spec => []IInv
  BY InitInv, NextInv, PTL DEF Spec

(* Nothing makes the server leave its types; above all the reassembly      *)
(* buffer, which on_receive fills before it knows that it is full.         *)
THEOREM TypeCorrect == Spec => []TypeOK
<1>1. IInv => TypeOK
  BY DEF IInv
<1> QED  BY Invariant, <1>1, PTL

(* Clients that overlap or give up, connections that break, headers that   *)
(* come in pieces, chained pbufs, damaged images, messages behind unknown  *)
(* ones: no command is executed twice for one message or without one.      *)
THEOREM NothingTwice == Spec => []AtMostOnce
<1>1. IInv => AtMostOnce
  <2> SUFFICES ASSUME IInv PROVE AtMostOnce
    OBVIOUS
  <2>1. ASSUME NEW n \in DOMAIN served PROVE served[n].msg \notin unsent
    <3>1. served[n].msg \in Messages
      <4>1. served[n] \in [msg : Messages, body : Seq(Tokens)]
        BY LenProperties, ElementOfSeq DEF IInv, TypeOK
      <4> QED  BY <4>1
    <3>2. Begun(served[n].msg)
      BY DEF Begun, IsServed
    <3> QED  BY <3>1, <3>2 DEF IInv, BegunOnce
  <2> QED  BY <2>1 DEF IInv, BegunOnce, AtMostOnce
<1> QED  BY Invariant, <1>1, PTL

-----------------------------------------------------------------------------
(* What the server does for clients that take turns: commands without a    *)
(* body are served even if other messages are broken off, and as long as   *)
(* nothing is broken off the server is the abstract one.                   *)
Solo == \A c, d \in Open : c = d

(* on_receive expects the start of a header. *)
Idle == ~receiving_data /\ header_buffer = <<>>

(* Nothing of its message has been delivered. *)
Untouched(c) == Len(net[c]) = Total(conn[c])

Ready ==
  /\ Open = {} => Idle
  /\ \A c \in Open : Untouched(c) => Idle

LEMMA UntouchedStream ==
  ASSUME IInv, NEW c \in Open
  PROVE  /\ net[c] = Stream(conn[c]) <=> Untouched(c)
         /\ c \in Connections /\ conn[c] \in Messages /\ net[c] \in Seq(Tokens)
         /\ Len(net[c]) \in Nat /\ Len(net[c]) <= Total(conn[c])
         /\ \A i \in 1 .. Len(net[c]) :
              net[c][i] = Token(conn[c], Total(conn[c]) - Len(net[c]) + i)
<1>1. /\ c \in Connections /\ conn[c] \in Messages /\ net[c] \in Seq(Tokens)
      /\ Len(net[c]) \in Nat
  BY DEF IInv, TypeOK, Open
<1>2. /\ Len(net[c]) <= Total(conn[c])
      /\ \A i \in 1 .. Len(net[c]) :
           net[c][i] = Token(conn[c], Total(conn[c]) - Len(net[c]) + i)
  BY DEF IInv, InTransit, Open
<1>3. /\ Stream(conn[c]) \in Seq(Tokens) /\ Len(Stream(conn[c])) = Total(conn[c])
      /\ \A i \in 1 .. Total(conn[c]) : Stream(conn[c])[i] = Token(conn[c], i)
      /\ Total(conn[c]) \in Nat
  BY <1>1, StreamShape, Sizes
<1>4. ASSUME Untouched(c) PROVE net[c] = Stream(conn[c])
  <2>1. ASSUME NEW i \in 1 .. Len(net[c]) PROVE net[c][i] = Stream(conn[c])[i]
    <3>1. Total(conn[c]) - Len(net[c]) + i = i /\ i \in 1 .. Total(conn[c])
      BY <1>1, <1>3, <1>4 DEF Untouched
    <3> QED  BY <1>2, <1>3, <3>1
  <2> QED  BY <1>1, <1>3, <1>4, <2>1, SeqEqual DEF Untouched
<1> QED  BY <1>1, <1>2, <1>3, <1>4 DEF Untouched

(* What a segment is if the network spares the server. *)
LEMMA Smooth ==
  ASSUME IInv, NEW c \in Connections, NEW n \in 1 .. Len(net[c]), NEW len \in 1 .. n,
         Segment(c, n, len)
  PROVE  /\ c \in Open /\ met \subseteq met'
         /\ "chain" \notin met' => len = n
         /\ "split" \notin met' /\ Untouched(c) => len >= HEADER_SIZE
<1>1. /\ c \in Open
      /\ met' = met \cup (When(len < n, "chain")
                           \cup When(net[c] = Stream(conn[c]) /\ len < HEADER_SIZE, "split"))
  BY DEF Segment, Meet
<1>2. n \in Nat /\ len \in Nat /\ len <= n
  BY DEF IInv, TypeOK
<1>3. "chain" \notin met' => ~(len < n)
  BY <1>1 DEF When
<1>4. "split" \notin met' /\ Untouched(c) => ~(len < HEADER_SIZE)
  BY <1>1, UntouchedStream DEF When
<1> QED  BY <1>1, <1>2, <1>3, <1>4, Sizes

(* A header that arrives in one piece is judged by its command. *)
LEMMA WholeHeader ==
  ASSUME IInv, NEW c \in Open, NEW len \in 1 .. Len(net[c]),
         Untouched(c), Idle, len >= HEADER_SIZE
  PROVE  /\ Verdict(HeaderOf(c, len)) = IF Command[conn[c]] \in SUPPORTED_COMMANDS
                                        THEN "supported" ELSE "unknown"
         /\ Announced(HeaderOf(c, len)) = conn[c]
<1>1. /\ c \in Connections /\ conn[c] \in Messages /\ net[c] \in Seq(Tokens)
      /\ Len(net[c]) \in Nat /\ len \in Nat
      /\ \A i \in 1 .. Len(net[c]) : net[c][i] = Token(conn[c], i)
  <2>1. Total(conn[c]) \in Nat /\ conn[c] \in Messages
    BY UntouchedStream, Sizes
  <2>2. ASSUME NEW i \in 1 .. Len(net[c]) PROVE net[c][i] = Token(conn[c], i)
    <3>1. Total(conn[c]) - Len(net[c]) + i = i
      BY <2>1, UntouchedStream DEF Untouched
    <3> QED  BY <3>1, UntouchedStream
  <2> QED  BY <2>2, UntouchedStream
<1>2. Len(header_buffer) = 0
  BY DEF Idle
<1>3. /\ Len(HeaderOf(c, len)) = len
      /\ \A i \in 1 .. len : HeaderOf(c, len)[i] = Token(conn[c], i)
  <2>1. /\ Len(HeaderOf(c, len)) = Len(header_buffer) + len
        /\ \A i \in 1 .. Len(header_buffer) + len :
             HeaderOf(c, len)[i] = IF i <= Len(header_buffer) THEN header_buffer[i]
                                   ELSE net[c][i - Len(header_buffer)]
    BY <1>1, HeaderTyped DEF IInv
  <2> QED  BY <1>1, <1>2, <2>1
<1>4. HEADER_SIZE \in Nat /\ 1 \in 1 .. len /\ HEADER_SIZE \in 1 .. len
  BY <1>1, Sizes
<1>5. /\ HeaderOf(c, len)[1].pos = 1
      /\ HeaderOf(c, len)[HEADER_SIZE].pos = HEADER_SIZE
      /\ HeaderOf(c, len)[HEADER_SIZE].msg = conn[c]
  BY <1>3, <1>4 DEF Token
<1> QED  BY <1>1, <1>3, <1>4, <1>5 DEF Verdict, Announced

(* The history only grows. *)
LEMMA ServedStays ==
  ASSUME IInv, NEW c \in Connections, Deliver(c)
  PROVE  \A x : IsServed(x) => IsServed(x)'
<1>1. ASSUME NEW m \in Messages, NEW b \in Seq(Tokens), Do(m, b)
      PROVE  \A x : IsServed(x) => IsServed(x)'
  BY <1>1, Served DEF IInv
<1>2. ASSUME UNCHANGED served PROVE \A x : IsServed(x) => IsServed(x)'
  BY <1>2 DEF IsServed
<1>3. PICK n \in 1 .. Len(net[c]) :
         \/ \E len \in 1 .. n :
              /\ Segment(c, n, len)
              /\ \/ ReceiveBody(SubSeq(net[c], 1, len))
                 \/ ~receiving_data /\ RejectHeader(HeaderOf(c, len))
                 \/ ~receiving_data /\ ExecuteHeader(HeaderOf(c, len))
                 \/ /\ ~receiving_data
                    /\ ReceiveFirst(HeaderOf(c, len), SubSeq(net[c], 1, len))
         \/ Reboot(c, n)
  BY Callback
<1>4. ASSUME NEW len \in 1 .. n, Segment(c, n, len)
      PROVE  /\ SubSeq(net[c], 1, len) \in Seq(Tokens)
             /\ Verdict(HeaderOf(c, len)) = "supported" =>
                  Announced(HeaderOf(c, len)) \in Messages
  <2>1. len \in 1 .. Len(net[c]) /\ c \in Open
    BY <1>4 DEF IInv, TypeOK, Segment
  <2> QED  BY <2>1, HeaderTyped, HeaderArrives, SMTT(30) DEF IInv
<1>5. ASSUME NEW len \in 1 .. n, Segment(c, n, len), ReceiveBody(SubSeq(net[c], 1, len))
      PROVE  \A x : IsServed(x) => IsServed(x)'
  <2>1. current \in Messages
    BY <1>5 DEF ReceiveBody, IInv, BegunOnce
  <2>2. UNCHANGED served \/ \E b \in Seq(Tokens) : Do(current, b)
    BY <1>4, <1>5, <2>1, Received DEF ReceiveBody, BodyOffset, IInv
  <2> QED  BY <1>1, <1>2, <2>1, <2>2
<1>6. ASSUME NEW len \in 1 .. n, RejectHeader(HeaderOf(c, len))
      PROVE  \A x : IsServed(x) => IsServed(x)'
  BY <1>2, <1>6 DEF RejectHeader
<1>7. ASSUME NEW len \in 1 .. n, Segment(c, n, len), ExecuteHeader(HeaderOf(c, len))
      PROVE  \A x : IsServed(x) => IsServed(x)'
  BY <1>1, <1>4, <1>7, EmptyHeader DEF ExecuteHeader
<1>8. ASSUME NEW len \in 1 .. n, Segment(c, n, len),
             ReceiveFirst(HeaderOf(c, len), SubSeq(net[c], 1, len))
      PROVE  \A x : IsServed(x) => IsServed(x)'
  <2>1. Announced(HeaderOf(c, len)) \in Messages
    BY <1>4, <1>8 DEF ReceiveFirst
  <2>2. UNCHANGED served \/ \E b \in Seq(Tokens) : Do(Announced(HeaderOf(c, len)), b)
    BY <1>4, <1>8, <2>1, Received DEF ReceiveFirst, IInv
  <2> QED  BY <1>1, <1>2, <2>1, <2>2
<1>9. CASE Reboot(c, n)
  <2>1. c \in Open /\ Verdict(HeaderOf(c, n)) = "supported" /\ Do(Announced(HeaderOf(c, n)), <<>>)
    BY <1>9 DEF Reboot, HeaderOf
  <2> QED  BY <1>1, <2>1, HeaderArrives, EmptyHeader
<1> QED  BY <1>3, <1>5, <1>6, <1>7, <1>8, <1>9

-----------------------------------------------------------------------------
(* The hazards after which on_receive still finds every header, because    *)
(* the connection that brought them is closed before the next is opened.   *)
Cured == {"abort", "chain", "damage"}

Prompt ==
  met \subseteq Cured =>
    /\ Solo
    /\ Ready
    /\ \A c \in Open : Command[conn[c]] \in ImmediateCommands =>
                         Untouched(c) \/ IsServed(conn[c])

LEMMA PromptInit == Init => Prompt
  BY DEF Init, Prompt, Solo, Ready, Open, Idle

LEMMA PromptStep ==
  ASSUME IInv, Prompt, [Next]_vars
  PROVE  Prompt'
<1> SUFFICES ASSUME met' \subseteq Cured
             PROVE  /\ Solo' /\ Ready'
                    /\ \A c \in Open' : Command[conn'[c]] \in ImmediateCommands =>
                                          Untouched(c)' \/ IsServed(conn[c])'
  BY DEF Prompt
<1>1. ASSUME NEW c \in Connections, NEW m \in Messages, Connect(c, m)
      PROVE  /\ Solo' /\ Ready'
             /\ \A d \in Open' : Untouched(d)'
  <2>1. /\ conn[c] = None /\ met \subseteq met' /\ "overlap" \notin met'
        /\ (Open # {} => "overlap" \in met')
        /\ conn' = [conn EXCEPT ![c] = m] /\ net' = [net EXCEPT ![c] = Stream(m)]
        /\ UNCHANGED <<receiving_data, header_buffer>>
    BY <1>1 DEF Connect, Meet, When, recv_state, Cured
  <2>2. Open = {} /\ Idle
    BY <2>1 DEF Prompt, Ready
  <2>3. Open' = {c} /\ Idle'
    BY <2>1, <2>2, Sizes DEF Open, IInv, TypeOK, Idle
  <2>4. conn'[c] = m /\ net'[c] = Stream(m) /\ Len(Stream(m)) = Total(m)
    BY <2>1, StreamShape DEF IInv, TypeOK
  <2> QED  BY <2>3, <2>4 DEF Solo, Ready, Untouched
<1>2. ASSUME NEW c \in Connections, NEW m \in Messages, SendAgain(c, m)
      PROVE  FALSE
  BY <1>2 DEF SendAgain, Meet, Cured
<1>3. ASSUME NEW c \in Connections, Disconnect(c)
      PROVE  Solo' /\ Ready' /\ Open' = {}
  <2>1. /\ c \in Open /\ met \subseteq met' /\ conn' = [conn EXCEPT ![c] = None]
        /\ receiving_data' = FALSE /\ header_buffer' = <<>>
    BY <1>3 DEF Disconnect, Meet, Gone, reset_recv_state
  <2>2. Open = {c}
    BY <2>1 DEF Prompt, Solo
  <2>3. Open' = {}
    BY <2>1, <2>2 DEF Open, IInv, TypeOK
  <2> QED  BY <2>1, <2>3 DEF Solo, Ready, Idle
<1>4. ASSUME NEW c \in Connections, on_error(c) PROVE FALSE
  BY <1>4 DEF on_error, Meet, Cured
<1>5. ASSUME NEW c \in Connections, Deliver(c)
      PROVE  /\ Solo' /\ Ready'
             /\ \A d \in Open' : Command[conn'[d]] \in ImmediateCommands =>
                                   Untouched(d)' \/ IsServed(conn[d])'
  <2>1. PICK n \in 1 .. Len(net[c]) :
          \/ \E len \in 1 .. n :
               /\ Segment(c, n, len)
               /\ \/ ReceiveBody(SubSeq(net[c], 1, len))
                  \/ ~receiving_data /\ RejectHeader(HeaderOf(c, len))
                  \/ ~receiving_data /\ ExecuteHeader(HeaderOf(c, len))
                  \/ /\ ~receiving_data
                     /\ ReceiveFirst(HeaderOf(c, len), SubSeq(net[c], 1, len))
          \/ Reboot(c, n)
    BY <1>5, Callback
  <2>2. CASE Reboot(c, n)
    <3>1. conn' = [d \in Connections |-> None] /\ ~receiving_data' /\ header_buffer' = <<>>
      BY <2>2 DEF Reboot
    <3>2. Open' = {}
      BY <3>1 DEF Open
    <3> QED  BY <3>1, <3>2 DEF Solo, Ready, Idle
  <2>3. ASSUME NEW len \in 1 .. n, Segment(c, n, len),
               \/ ReceiveBody(SubSeq(net[c], 1, len))
               \/ ~receiving_data /\ RejectHeader(HeaderOf(c, len))
               \/ ~receiving_data /\ ExecuteHeader(HeaderOf(c, len))
               \/ /\ ~receiving_data
                  /\ ReceiveFirst(HeaderOf(c, len), SubSeq(net[c], 1, len))
        PROVE  /\ Solo' /\ Ready'
               /\ \A d \in Open' : Command[conn'[d]] \in ImmediateCommands =>
                                     Untouched(d)' \/ IsServed(conn[d])'
    <3>1. /\ c \in Open /\ met \subseteq met' /\ "split" \notin met'
          /\ (Untouched(c) => len >= HEADER_SIZE)
      BY <2>3, Smooth DEF Cured
    <3>2. Prompt /\ met \subseteq Cured /\ Solo /\ Ready
      BY <3>1 DEF Prompt
    <3>3. /\ conn' = conn /\ Open' = Open /\ Open = {c}
          /\ Len(net'[c]) = Len(net[c]) - n
      BY <2>3, <3>1, <3>2, Consumed DEF Solo, Open
    <3>4. ~Untouched(c)'
      <4>1. Len(net[c]) \in Nat /\ Total(conn[c]) \in Nat /\ Len(net[c]) <= Total(conn[c])
        BY <3>1, UntouchedStream, Sizes
      <4> QED  BY <3>3, <4>1 DEF Untouched
    <3>5. Solo' /\ Ready'
      BY <3>2, <3>3, <3>4 DEF Solo, Ready
    <3>6. ASSUME Command[conn[c]] \in ImmediateCommands PROVE IsServed(conn[c])'
      <4>1. CASE IsServed(conn[c])
        BY <1>5, <3>3, <4>1, ServedStays DEF IsServed
      <4>2. CASE Untouched(c)
        <5>1. Idle /\ len >= HEADER_SIZE /\ len \in 1 .. Len(net[c])
          BY <3>1, <3>2, <4>2 DEF Ready, IInv, TypeOK
        <5>2. Command[conn[c]] \in SUPPORTED_COMMANDS
          BY <3>6 DEF SUPPORTED_COMMANDS
        <5>3. /\ Verdict(HeaderOf(c, len)) = "supported"
              /\ Announced(HeaderOf(c, len)) = conn[c] /\ conn[c] \in Messages
          BY <3>1, <4>2, <5>1, <5>2, WholeHeader, UntouchedStream
        <5>4. Command[conn[c]] \notin KeyValueCommands \cup ImageCommands
          BY <3>6 DEF ImmediateCommands, KeyValueCommands, ImageCommands, ZipCommands
        <5>5. Do(conn[c], <<>>)
          BY <2>3, <5>1, <5>3, <5>4 DEF Idle, ReceiveBody, RejectHeader, ReceiveFirst,
                                        ExecuteHeader
        <5> QED  BY <3>3, <5>3, <5>5, EmptyHeader, Served DEF IInv, IsServed
      <4> QED  BY <3>1, <3>2, <3>6, <4>1, <4>2 DEF Prompt
    <3> QED  BY <3>3, <3>5, <3>6
  <2> QED  BY <2>1, <2>2, <2>3
<1>6. CASE UNCHANGED vars
  BY <1>6 DEF vars, recv_state, Prompt, Solo, Ready, Idle, Open, Untouched, IsServed
<1> QED  BY <1>1, <1>2, <1>3, <1>4, <1>5, <1>6 DEF Next

(* A client that gives up, a body of which a part is lost and a damaged    *)
(* image leave the server ready for the next command without a body.       *)
THEOREM ImmediateIsServed == Spec => []ImmediateServed
<1>1. IInv /\ Prompt => ImmediateServed
  <2> SUFFICES ASSUME IInv, Prompt, met \subseteq Cured, NEW c \in Open, net[c] = <<>>,
                      Command[conn[c]] \in ImmediateCommands
               PROVE  IsServed(conn[c])
    BY DEF ImmediateServed, Cured
  <2>1. conn[c] \in Messages /\ Len(net[c]) = 0
    BY UntouchedStream
  <2>2. ~Untouched(c)
    BY <2>1, Sizes DEF Untouched, Total
  <2> QED  BY <2>2 DEF Prompt
<1>2. IInv /\ Prompt /\ [Next]_vars => Prompt'
  BY PromptStep
<1> QED  BY Invariant, PromptInit, <1>1, <1>2, PTL DEF Spec

-----------------------------------------------------------------------------
(* Messages of commands that have no body have none, as matrix.py sends    *)
(* them.                                                                   *)
BodiesHaveCommands ==
  \A m \in Messages :
    Command[m] \in ImmediateCommands \cup RebootCommands => Size[m] = 0

(* Where the body of the message is that is being received. *)
Assembling ==
  receiving_data =>
    \A c \in Open :
      /\ current = conn[c] /\ Command[current] \in KeyValueCommands \cup ImageCommands
      /\ Len(net[c]) > 0 /\ Len(recv_buffer) + Len(net[c]) = Size[current]
      /\ \A i \in 1 .. Len(recv_buffer) : recv_buffer[i] = Token(current, HEADER_SIZE + i)

(* What is between two messages on the one connection there is. *)
Between ==
  \A c \in Open :
    /\ conn[c] \notin Damaged
    /\ header_buffer # <<>> => Command[conn[c]] \notin SUPPORTED_COMMANDS
    /\ Untouched(c) \/ Len(net[c]) <= Size[conn[c]]
    /\ ~Untouched(c) /\ ~receiving_data /\ Len(net[c]) > 0 =>
         Command[conn[c]] \notin SUPPORTED_COMMANDS

Faithful == \A n \in DOMAIN served : served[n].body = Body(served[n].msg)

Clean ==
  met \subseteq {"reuse"} =>
    /\ ~wild
    /\ Solo
    /\ Ready
    /\ ~receiving_data => recv_buffer = <<>>
    /\ Assembling
    /\ Between
    /\ Faithful

(* The messages the server acts on: no key without a ':'. *)
Acted ==
  {m \in Messages :
     \/ Command[m] \in ImmediateCommands \cup RebootCommands
     \/ Command[m] \in KeyValueCommands /\ m \in Delimited
     \/ Command[m] \in ImageCommands /\ m \notin Damaged /\ Size[m] > 0}

(* What a message comes to when it is whole. *)
Execution(m) == IF m \in Acted THEN Do(m, Body(m)) ELSE UNCHANGED served

LEMMA BodyEmpty ==
  ASSUME NEW m \in Messages
  PROVE  /\ Body(m) = <<>> <=> Size[m] = 0
         /\ Size[m] > 0 => Body(m)[1] = Token(m, HEADER_SIZE + 1)
  BY StreamShape, Sizes

LEMMA TokensDiffer ==
  ASSUME NEW x, NEW y, NEW i, NEW k, Token(x, i) = Token(y, k)
  PROVE  x = y /\ i = k
<1>1. Token(x, i).msg = Token(y, k).msg /\ Token(x, i).pos = Token(y, k).pos
  OBVIOUS
<1> QED  BY <1>1 DEF Token

(* The pair has a ':' exactly if it was sent with one. *)
LEMMA PairExecuted ==
  ASSUME NEW m \in Messages, Command[m] \in KeyValueCommands,
         process_key_value_command(m, Body(m))
  PROVE  recv_buffer' = <<>> /\ Execution(m)
<1>1. Size[m] \in Nat /\ HEADER_SIZE \in Nat /\ (m \in Delimited => Size[m] > 0)
  BY Sizes, ServerAssumption
<1>2. (\E x \in Delimited, n \in DOMAIN Body(m) : Body(m)[n] = Token(x, HEADER_SIZE + 1))
        <=> m \in Delimited
  <2>1. ASSUME NEW x \in Delimited, NEW n \in DOMAIN Body(m),
               Body(m)[n] = Token(x, HEADER_SIZE + 1)
        PROVE  m \in Delimited
    <3>1. Body(m)[n] = Token(m, HEADER_SIZE + n)
      BY DEF Body
    <3> QED  BY <2>1, <3>1, TokensDiffer
  <2>2. ASSUME m \in Delimited
        PROVE  \E x \in Delimited, n \in DOMAIN Body(m) : Body(m)[n] = Token(x, HEADER_SIZE + 1)
    <3>1. 1 \in DOMAIN Body(m) /\ Body(m)[1] = Token(m, HEADER_SIZE + 1)
      BY <1>1, <2>2 DEF Body
    <3> QED  BY <2>2, <3>1
  <2> QED  BY <2>1, <2>2
<1>3. m \in Acted <=> m \in Delimited
  BY DEF Acted, KeyValueCommands, ImmediateCommands, RebootCommands, ImageCommands,
         ZipCommands
<1> QED  BY <1>2, <1>3 DEF process_key_value_command, PairDone, Execution

(* The stream at the start of the buffer is the one that was sent. *)
LEMMA OneStream ==
  ASSUME NEW m \in Messages \ Damaged, Command[m] \in ZipCommands
  PROVE  Uncompressed(Body(m)) = IF Size[m] > 0 THEN {Body(m)} ELSE {}
<1>1. /\ Body(m) \in Seq(Tokens) /\ Len(Body(m)) = Size[m]
      /\ \A i \in 1 .. Size[m] : Body(m)[i] = Token(m, HEADER_SIZE + i)
      /\ Size[m] \in Nat
  BY StreamShape, Sizes
<1>2. ASSUME Size[m] > 0 PROVE Body(m) \in Uncompressed(Body(m))
  <2>1. SubSeq(Body(m), 1, Size[m]) = Body(m)
    BY <1>1, SubSeqFull
  <2> QED  BY <1>1, <1>2, <2>1 DEF Uncompressed
<1>3. ASSUME NEW x \in Messages \ Damaged, Size[x] > 0, Size[m] >= Size[x],
             SubSeq(Body(m), 1, Size[x]) = Body(x)
      PROVE  x = m /\ Size[m] > 0
  <2>1. Size[x] \in 0 .. Len(Body(m)) /\ 1 \in 1 .. Size[x] /\ Size[m] > 0
    BY <1>1, <1>3, Sizes
  <2>2. SubSeq(Body(m), 1, Size[x])[1] = Body(m)[1]
    BY <1>1, <2>1, Cut
  <2>3. Token(x, HEADER_SIZE + 1) = Token(m, HEADER_SIZE + 1)
    BY <1>3, <2>1, <2>2, BodyEmpty
  <2> QED  BY <2>1, <2>3, TokensDiffer
<1>4. \A b \in Uncompressed(Body(m)) : b = Body(m) /\ Size[m] > 0
  BY <1>1, <1>3 DEF Uncompressed
<1> QED  BY <1>2, <1>4

LEMMA ImageExecuted ==
  ASSUME NEW m \in Messages \ Damaged, Command[m] \in ImageCommands,
         process_data(m, Body(m))
  PROVE  recv_buffer' = <<>> /\ Execution(m)
<1>1. Size[m] \in Nat /\ (Body(m) = <<>> <=> Size[m] = 0)
  BY BodyEmpty, Sizes
<1>2. m \in Acted <=> Size[m] > 0
  BY DEF Acted, KeyValueCommands, ImmediateCommands, RebootCommands, ImageCommands,
         ZipCommands
<1>3. CASE Size[m] = 0
  <2>1. Command[m] \in ZipCommands => Uncompressed(Body(m)) = {}
    BY <1>3, OneStream
  <2> QED  BY <1>1, <1>2, <1>3, <2>1 DEF process_data, Execution
<1>4. CASE Size[m] > 0
  <2>1. Body(m) # <<>> /\ (Execution(m) <=> Do(m, Body(m)))
    BY <1>1, <1>2, <1>4 DEF Execution
  <2>2. CASE Command[m] \in ZipCommands
    <3>1. Uncompressed(Body(m)) = {Body(m)}
      BY <1>4, <2>2, OneStream
    <3> QED  BY <2>1, <2>2, <3>1 DEF process_data
  <2>3. CASE Command[m] \notin ZipCommands
    BY <2>1, <2>3 DEF process_data
  <2> QED  BY <2>2, <2>3
<1> QED  BY <1>1, <1>3, <1>4

(* on_receive has put the next part of a body behind what it had. *)
LEMMA CleanReceive ==
  ASSUME TypeOK, NEW m \in Messages \ Damaged, NEW rest \in Nat,
         Command[m] \in KeyValueCommands \cup ImageCommands,
         NEW payload \in Seq(Tokens), NEW offset \in {0, HEADER_SIZE},
         Len(payload) >= offset,
         Len(BufferOf(payload, offset)) + rest = Size[m],
         \A i \in 1 .. Len(BufferOf(payload, offset)) :
           BufferOf(payload, offset)[i] = Token(m, HEADER_SIZE + i),
         Receive(m, payload, offset)
  PROVE  /\ ~wild' /\ current' = m
         /\ receiving_data' <=> rest > 0
         /\ header_buffer' = IF receiving_data THEN header_buffer ELSE <<>>
         /\ rest > 0 => recv_buffer' = BufferOf(payload, offset) /\ UNCHANGED served
         /\ rest = 0 => recv_buffer' = <<>> /\ Execution(m)
<1> DEFINE buffer == BufferOf(payload, offset)
<1>1. buffer \in Seq(Tokens) /\ Len(buffer) \in Nat
  BY BufferTyped
<1>2. Size[m] \in Nat /\ Size[m] <= MAX_BUFFER_SIZE /\ MAX_BUFFER_SIZE \in Nat
  BY Sizes, ServerAssumption
<1>3. /\ current' = m
      /\ header_buffer' = IF receiving_data THEN header_buffer ELSE <<>>
      /\ wild' = Overflows(buffer, payload, offset)
      /\ receiving_data' = (wild' \/ Len(buffer) < Size[m])
      /\ \/ wild' /\ recv_buffer' = <<>> /\ UNCHANGED served
         \/ ~wild' /\ Len(buffer) < Size[m] /\ recv_buffer' = buffer /\ UNCHANGED served
         \/ ~receiving_data' /\ Command[m] \in KeyValueCommands
            /\ process_key_value_command(m, buffer)
         \/ ~receiving_data' /\ Command[m] \in ImageCommands /\ process_data(m, buffer)
  BY DEF Receive, BufferOf
<1>4. Len(payload) \in Nat /\ offset \in Nat
  BY Sizes, LenProperties
<1>5. Len(buffer) + rest = Size[m]
  OBVIOUS
<1> HIDE DEF buffer
<1>6. ~Overflows(buffer, payload, offset)
  BY <1>1, <1>2, <1>4, <1>5 DEF Overflows
<1>7. ~wild' /\ (receiving_data' <=> rest > 0)
  <2>1. ~wild'
    BY <1>3, <1>6
  <2>2. receiving_data' <=> Len(buffer) < Size[m]
    BY <1>3, <2>1
  <2>3. Len(buffer) < Size[m] <=> rest > 0
    BY <1>1, <1>2, <1>5
  <2> QED  BY <2>1, <2>2, <2>3
<1>8. CASE rest > 0
  BY <1>3, <1>7, <1>8 DEF buffer
<1>9. CASE rest = 0
  <2>1. buffer = Body(m)
    BY <1>1, <1>2, <1>5, <1>9, StreamShape, SeqEqual DEF buffer
  <2>2. Len(buffer) = Size[m]
    BY <1>1, <1>2, <1>5, <1>9
  <2> QED  BY <1>2, <1>3, <1>7, <1>9, <2>1, <2>2, PairExecuted, ImageExecuted
<1> QED  BY <1>3, <1>7, <1>8, <1>9

LEMMA BufferGrows ==
  ASSUME TypeOK, NEW payload \in Seq(Tokens), NEW offset \in {0, HEADER_SIZE},
         Len(payload) >= offset
  PROVE  /\ Len(BufferOf(payload, offset)) = Len(recv_buffer) + Len(payload) - offset
         /\ Len(recv_buffer) \in Nat
         /\ \A i \in 1 .. Len(recv_buffer) + Len(payload) - offset :
              BufferOf(payload, offset)[i] =
                IF i <= Len(recv_buffer) THEN recv_buffer[i]
                                         ELSE payload[offset + (i - Len(recv_buffer))]
<1>1. Len(payload) \in Nat /\ offset \in 0 .. Len(payload)
  BY Sizes, LenProperties
<1> DEFINE behind == SubSeq(payload, offset + 1, Len(payload))
<1>2. /\ behind \in Seq(Tokens) /\ Len(behind) = Len(payload) - offset
      /\ \A i \in 1 .. Len(payload) - offset : behind[i] = payload[offset + i]
  BY <1>1, Cut
<1>3. recv_buffer \in Seq(Tokens) /\ Len(recv_buffer) \in Nat
  BY LenProperties DEF TypeOK
<1> HIDE DEF behind
<1>4. /\ Len(recv_buffer \o behind) = Len(recv_buffer) + Len(behind)
      /\ \A i \in 1 .. Len(recv_buffer) + Len(behind) :
           (recv_buffer \o behind)[i] = IF i <= Len(recv_buffer) THEN recv_buffer[i]
                                        ELSE behind[i - Len(recv_buffer)]
  BY <1>2, <1>3, ConcatProperties, ZenonT(60)
<1>5. BufferOf(payload, offset) = recv_buffer \o behind
  BY DEF BufferOf, behind
<1>6. ASSUME NEW i \in 1 .. Len(recv_buffer) + Len(payload) - offset
      PROVE  BufferOf(payload, offset)[i] =
                IF i <= Len(recv_buffer) THEN recv_buffer[i]
                                         ELSE payload[offset + (i - Len(recv_buffer))]
  <2>1. i \in 1 .. Len(recv_buffer) + Len(behind)
    BY <1>1, <1>2, <1>3
  <2>2. ~(i <= Len(recv_buffer)) => i - Len(recv_buffer) \in 1 .. Len(payload) - offset
    BY <1>1, <1>3
  <2> QED  BY <1>2, <1>4, <1>5, <2>1, <2>2
<1> QED  BY <1>1, <1>2, <1>3, <1>4, <1>5, <1>6

LEMMA FaithfulStep ==
  ASSUME IInv, Faithful, NEW m \in Messages, UNCHANGED served \/ Do(m, Body(m))
  PROVE  Faithful'
<1>1. CASE UNCHANGED served
  BY <1>1 DEF Faithful, Body, Token
<1>2. CASE Do(m, Body(m))
  <2>1. Body(m) \in Seq(Tokens)
    BY StreamShape
  <2>2. /\ DOMAIN served' = DOMAIN served \cup {Len(served) + 1}
        /\ \A n \in DOMAIN served : served'[n] = served[n]
        /\ served'[Len(served) + 1] = [msg |-> m, body |-> Body(m)]
    BY <1>2, <2>1, Served DEF IInv
  <2>3. /\ served'[Len(served) + 1].body = Body(m)
        /\ served'[Len(served) + 1].msg = m
    BY <2>2
  <2>4. \A n \in DOMAIN served' : served'[n].body = Body(served'[n].msg)
    BY <2>2, <2>3 DEF Faithful
  <2> QED  BY <2>4 DEF Faithful, Body, Token
<1> QED  BY <1>1, <1>2

(* What a callback makes of the message its connection carries. *)
Outcome(c) == IF Len(net'[c]) = 0 THEN Execution(conn[c]) ELSE UNCHANGED served

LEMMA CleanSegment ==
  ASSUME IInv, Clean, NEW c \in Connections, NEW n \in 1 .. Len(net[c]),
         NEW len \in 1 .. n, Segment(c, n, len), met' \subseteq {"reuse"}
  PROVE  /\ ~wild /\ Solo /\ Ready /\ Assembling /\ Between /\ Faithful
         /\ ~receiving_data => recv_buffer = <<>>
         /\ Open = {c} /\ Open' = {c} /\ UNCHANGED <<conn, unsent>> /\ len = n
         /\ conn[c] \in Messages \ Damaged
         /\ Len(net[c]) \in Nat /\ Len(net'[c]) \in Nat /\ Len(net'[c]) = Len(net[c]) - n
         /\ \A d \in Connections \ {c} : net'[d] = net[d]
         /\ ~Untouched(c)'
         /\ Untouched(c) => Idle /\ len >= HEADER_SIZE
         /\ Len(net[c]) <= Total(conn[c])
         /\ \A i \in 1 .. Len(net[c]) :
              net[c][i] = Token(conn[c], Total(conn[c]) - Len(net[c]) + i)
         /\ SubSeq(net[c], 1, n) \in Seq(Tokens) /\ Len(SubSeq(net[c], 1, n)) = n
         /\ \A i \in 1 .. n : SubSeq(net[c], 1, n)[i] = net[c][i]
<1>1. /\ c \in Open /\ met \subseteq met' /\ len = n
      /\ (Untouched(c) => len >= HEADER_SIZE)
  BY Smooth
<1>2. /\ ~wild /\ Solo /\ Ready /\ Assembling /\ Between /\ Faithful
      /\ (~receiving_data => recv_buffer = <<>>)
  BY <1>1 DEF Clean
<1>3. Open = {c}
  BY <1>1, <1>2 DEF Solo
<1>4. /\ net' \in [Connections -> Seq(Tokens)] /\ UNCHANGED <<conn, unsent>>
      /\ Len(net'[c]) = Len(net[c]) - n
      /\ \A d \in Connections \ {c} : net'[d] = net[d]
  BY Consumed
<1>5. /\ conn[c] \in Messages /\ Len(net[c]) \in Nat /\ Len(net[c]) <= Total(conn[c])
      /\ \A i \in 1 .. Len(net[c]) :
           net[c][i] = Token(conn[c], Total(conn[c]) - Len(net[c]) + i)
      /\ Total(conn[c]) \in Nat
  BY <1>1, UntouchedStream, Sizes
<1>6. ~Untouched(c)' /\ Len(net'[c]) \in Nat
  BY <1>4, <1>5 DEF Untouched
<1>7. conn[c] \notin Damaged /\ (Untouched(c) => Idle)
  BY <1>1, <1>2 DEF Between, Ready
<1>8. /\ SubSeq(net[c], 1, n) \in Seq(Tokens) /\ Len(SubSeq(net[c], 1, n)) = n
      /\ \A i \in 1 .. n : SubSeq(net[c], 1, n)[i] = net[c][i]
  BY HeaderTyped DEF IInv
<1>9. Open' = {c}
  BY <1>3, <1>4 DEF Open
<1> QED  BY <1>1, <1>2, <1>3, <1>4, <1>5, <1>6, <1>7, <1>8, <1>9

(* After part of a body. *)
LEMMA CleanBody ==
  ASSUME IInv, NEW c \in Connections, NEW m \in Messages \ Damaged, m = conn[c],
         Command[m] \in KeyValueCommands \cup ImageCommands,
         NEW payload \in Seq(Tokens), NEW offset \in {0, HEADER_SIZE},
         Len(payload) >= offset, Receive(m, payload, offset),
         Len(net'[c]) \in Nat,
         Len(BufferOf(payload, offset)) + Len(net'[c]) = Size[m],
         \A i \in 1 .. Len(BufferOf(payload, offset)) :
           BufferOf(payload, offset)[i] = Token(m, HEADER_SIZE + i),
         header_buffer = <<>>, Open' = {c}, conn' = conn, ~Untouched(c)', Faithful
  PROVE  Clean' /\ Outcome(c)
<1>1. /\ ~wild' /\ current' = m
      /\ (receiving_data' <=> Len(net'[c]) > 0)
      /\ header_buffer' = IF receiving_data THEN header_buffer ELSE <<>>
      /\ (Len(net'[c]) > 0 => recv_buffer' = BufferOf(payload, offset) /\ UNCHANGED served)
      /\ (Len(net'[c]) = 0 => recv_buffer' = <<>> /\ Execution(m))
  BY CleanReceive DEF IInv
<1>2. Outcome(c) /\ header_buffer' = <<>>
  BY <1>1 DEF Outcome
<1>3. Faithful'
  BY <1>1, FaithfulStep DEF Execution
<1>4. Size[m] \in Nat /\ Len(BufferOf(payload, offset)) \in Nat
  BY Sizes, BufferTyped DEF IInv
<1>5. ~receiving_data' => recv_buffer' = <<>>
  BY <1>1
<1>6. Assembling'
  BY <1>1, <1>4 DEF Assembling
<1>7. Between'
  BY <1>1, <1>2, <1>4 DEF Between
<1>8. Solo' /\ Ready'
  BY DEF Solo, Ready
<1> QED  BY <1>1, <1>2, <1>3, <1>5, <1>6, <1>7, <1>8 DEF Clean

(* The cases of on_receive. *)
LEMMA CleanReceiveBody ==
  ASSUME IInv, Clean, NEW c \in Connections, NEW n \in 1 .. Len(net[c]),
         NEW len \in 1 .. n, Segment(c, n, len), met' \subseteq {"reuse"},
         ReceiveBody(SubSeq(net[c], 1, len))
  PROVE  Clean' /\ Outcome(c)
<1> DEFINE payload == SubSeq(net[c], 1, n)
           m == conn[c]
<1>1. /\ Assembling /\ Between /\ Faithful /\ c \in Open /\ Open' = {c} /\ conn' = conn
      /\ len = n /\ m \in Messages \ Damaged /\ ~Untouched(c)'
      /\ Len(net[c]) \in Nat /\ Len(net'[c]) \in Nat /\ Len(net'[c]) = Len(net[c]) - n
      /\ \A i \in 1 .. Len(net[c]) : net[c][i] = Token(m, Total(m) - Len(net[c]) + i)
      /\ payload \in Seq(Tokens) /\ Len(payload) = n
      /\ \A i \in 1 .. n : payload[i] = net[c][i]
  BY CleanSegment
<1>2. receiving_data /\ Receive(current, payload, 0)
  BY <1>1 DEF ReceiveBody, BodyOffset
<1>3. /\ current = m /\ Command[m] \in KeyValueCommands \cup ImageCommands
      /\ Len(recv_buffer) + Len(net[c]) = Size[m]
      /\ \A i \in 1 .. Len(recv_buffer) : recv_buffer[i] = Token(m, HEADER_SIZE + i)
  BY <1>1, <1>2 DEF Assembling
<1>4. header_buffer = <<>>
  BY <1>1, <1>3 DEF Between, SUPPORTED_COMMANDS
<1> HIDE DEF payload, m
<1>5. n \in Nat /\ Size[m] \in Nat /\ HEADER_SIZE \in Nat /\ Total(m) = HEADER_SIZE + Size[m]
  BY <1>1, Sizes DEF Total
<1>6. /\ Len(BufferOf(payload, 0)) = Len(recv_buffer) + n
      /\ Len(recv_buffer) \in Nat
      /\ \A i \in 1 .. Len(recv_buffer) + n :
           BufferOf(payload, 0)[i] =
             IF i <= Len(recv_buffer) THEN recv_buffer[i] ELSE payload[i - Len(recv_buffer)]
  <2>1. Len(payload) >= 0 /\ TypeOK
    BY <1>1, <1>5 DEF IInv
  <2>2. /\ Len(BufferOf(payload, 0)) = Len(recv_buffer) + Len(payload) - 0
        /\ Len(recv_buffer) \in Nat
        /\ \A i \in 1 .. Len(recv_buffer) + Len(payload) - 0 :
             BufferOf(payload, 0)[i] =
               IF i <= Len(recv_buffer) THEN recv_buffer[i]
                                        ELSE payload[0 + (i - Len(recv_buffer))]
    BY <1>1, <2>1, BufferGrows
  <2> QED  BY <1>1, <1>5, <2>2
<1>7. ASSUME NEW i \in 1 .. Len(BufferOf(payload, 0))
      PROVE  BufferOf(payload, 0)[i] = Token(m, HEADER_SIZE + i)
  <2>1. CASE i <= Len(recv_buffer)
    BY <1>3, <1>6, <2>1
  <2>2. CASE ~(i <= Len(recv_buffer))
    <3> DEFINE k == i - Len(recv_buffer)
    <3>1. k \in 1 .. n /\ k \in 1 .. Len(net[c]) /\ BufferOf(payload, 0)[i] = payload[k]
      BY <1>1, <1>5, <1>6, <2>2, SMTT(30)
    <3>2. payload[k] = Token(m, Total(m) - Len(net[c]) + k)
      BY <1>1, <3>1
    <3>3. Total(m) - Len(net[c]) + k = HEADER_SIZE + i
      BY <1>1, <1>3, <1>5, <1>6, SMTT(30)
    <3> QED  BY <3>1, <3>2, <3>3
  <2> QED  BY <2>1, <2>2
<1>8. Len(BufferOf(payload, 0)) + Len(net'[c]) = Size[m]
  <2>1. Len(net'[c]) = Len(net[c]) - n /\ Len(recv_buffer) + Len(net[c]) = Size[m]
    BY <1>1, <1>3
  <2>2. Len(net[c]) \in Nat /\ Len(recv_buffer) \in Nat
    BY <1>1, <1>6
  <2>3. Len(BufferOf(payload, 0)) = Len(recv_buffer) + n
    BY <1>6
  <2> QED  BY <1>5, <2>1, <2>2, <2>3, SMTT(30)
<1>9. Len(payload) >= 0
  BY <1>1, <1>5
<1>10. m = conn[c]
  BY DEF m
<1> QED  BY <1>1, <1>2, <1>3, <1>4, <1>7, <1>8, <1>9, <1>10, CleanBody

LEMMA CleanReceiveFirst ==
  ASSUME IInv, Clean, NEW c \in Connections, NEW n \in 1 .. Len(net[c]),
         NEW len \in 1 .. n, Segment(c, n, len), met' \subseteq {"reuse"},
         ~receiving_data, ReceiveFirst(HeaderOf(c, len), SubSeq(net[c], 1, len))
  PROVE  Clean' /\ Outcome(c)
<1> DEFINE payload == SubSeq(net[c], 1, n)
           m == conn[c]
<1>1. /\ Between /\ Faithful /\ c \in Open /\ Open' = {c} /\ conn' = conn
      /\ recv_buffer = <<>> /\ (Untouched(c) => Idle /\ n >= HEADER_SIZE)
      /\ len = n /\ m \in Messages \ Damaged /\ ~Untouched(c)'
      /\ Len(net[c]) \in Nat /\ Len(net'[c]) \in Nat /\ Len(net'[c]) = Len(net[c]) - n
      /\ \A i \in 1 .. Len(net[c]) : net[c][i] = Token(m, Total(m) - Len(net[c]) + i)
      /\ payload \in Seq(Tokens) /\ Len(payload) = n
      /\ \A i \in 1 .. n : payload[i] = net[c][i]
  BY CleanSegment, SMTT(30), ZenonT(60)
<1>2. /\ Verdict(HeaderOf(c, n)) = "supported"
      /\ Command[Announced(HeaderOf(c, n))] \in KeyValueCommands \cup ImageCommands
      /\ Receive(Announced(HeaderOf(c, n)), payload, HEADER_SIZE)
  BY <1>1 DEF ReceiveFirst
<1>3. Announced(HeaderOf(c, n)) = m /\ Len(net[c]) > Size[m]
  BY <1>1, <1>2, HeaderArrives
<1> HIDE DEF payload
<1>4. /\ n \in Nat /\ Size[m] \in Nat /\ HEADER_SIZE \in Nat
      /\ Total(m) = HEADER_SIZE + Size[m]
  BY <1>1, Sizes DEF Total
<1>5. Untouched(c)
  BY <1>1, <1>3, <1>4 DEF Between
<1>6. header_buffer = <<>> /\ Len(payload) >= HEADER_SIZE /\ Len(net[c]) = Total(m)
  BY <1>1, <1>5 DEF Idle, Untouched
<1> HIDE DEF m
<1>7. /\ Len(BufferOf(payload, HEADER_SIZE)) = n - HEADER_SIZE
      /\ \A i \in 1 .. n - HEADER_SIZE :
           BufferOf(payload, HEADER_SIZE)[i] = payload[HEADER_SIZE + i]
  <2>1. Len(recv_buffer) = 0
    BY <1>1
  <2>2. /\ Len(BufferOf(payload, HEADER_SIZE)) = Len(recv_buffer) + Len(payload) - HEADER_SIZE
        /\ \A i \in 1 .. Len(recv_buffer) + Len(payload) - HEADER_SIZE :
             BufferOf(payload, HEADER_SIZE)[i] =
               IF i <= Len(recv_buffer) THEN recv_buffer[i]
                                        ELSE payload[HEADER_SIZE + (i - Len(recv_buffer))]
    BY <1>1, <1>6, BufferGrows DEF IInv
  <2> QED  BY <1>1, <1>4, <2>1, <2>2
<1>8. ASSUME NEW i \in 1 .. Len(BufferOf(payload, HEADER_SIZE))
      PROVE  BufferOf(payload, HEADER_SIZE)[i] = Token(m, HEADER_SIZE + i)
  <2>1. /\ i \in 1 .. n - HEADER_SIZE /\ HEADER_SIZE + i \in 1 .. n
        /\ HEADER_SIZE + i \in 1 .. Len(net[c])
    BY <1>1, <1>4, <1>7
  <2>2. Total(m) - Len(net[c]) + (HEADER_SIZE + i) = HEADER_SIZE + i
    BY <1>4, <1>6
  <2> QED  BY <1>1, <1>7, <2>1, <2>2
<1>9. Len(BufferOf(payload, HEADER_SIZE)) + Len(net'[c]) = Size[m]
  <2>1. Len(net'[c]) = Len(net[c]) - n /\ Len(net[c]) = HEADER_SIZE + Size[m]
    BY <1>1, <1>4, <1>6
  <2>2. Len(BufferOf(payload, HEADER_SIZE)) = n - HEADER_SIZE
    BY <1>7
  <2> QED  BY <1>4, <2>1, <2>2
<1>10. m = conn[c]
  BY DEF m
<1> QED  BY <1>1, <1>2, <1>3, <1>6, <1>8, <1>9, <1>10, CleanBody

LEMMA CleanRejectHeader ==
  ASSUME IInv, Clean, NEW c \in Connections, NEW n \in 1 .. Len(net[c]),
         NEW len \in 1 .. n, Segment(c, n, len), met' \subseteq {"reuse"},
         ~receiving_data, RejectHeader(HeaderOf(c, len))
  PROVE  Clean' /\ Outcome(c)
<1> DEFINE m == conn[c]
<1>1. /\ ~wild /\ Between /\ Faithful /\ c \in Open /\ Open' = {c} /\ conn' = conn
      /\ recv_buffer = <<>> /\ (Untouched(c) => Idle /\ n >= HEADER_SIZE)
      /\ len = n /\ m \in Messages \ Damaged /\ ~Untouched(c)'
      /\ Len(net[c]) \in Nat /\ Len(net'[c]) \in Nat /\ Len(net'[c]) = Len(net[c]) - n
  BY CleanSegment
<1>2. /\ Verdict(HeaderOf(c, n)) # "supported"
      /\ UNCHANGED <<receiving_data, recv_buffer, wild, served>>
  BY <1>1 DEF RejectHeader
<1>3. /\ n \in Nat /\ Size[m] \in Nat /\ HEADER_SIZE \in Nat
      /\ Total(m) = HEADER_SIZE + Size[m]
  BY <1>1, Sizes DEF Total
<1>4. Command[m] \notin SUPPORTED_COMMANDS
  <2>1. CASE Untouched(c)
    BY <1>1, <1>2, <2>1, WholeHeader
  <2>2. CASE ~Untouched(c)
    BY <1>1, <1>3, <2>2 DEF Between
  <2> QED  BY <2>1, <2>2
<1>5. m \notin Acted
  BY <1>4 DEF Acted, SUPPORTED_COMMANDS
<1>6. Len(net'[c]) <= Size[m]
  <2>1. CASE Untouched(c)
    BY <1>1, <1>3, <2>1, SMTT(30) DEF Untouched
  <2>2. CASE ~Untouched(c)
    BY <1>1, <1>3, <2>2 DEF Between
  <2> QED  BY <2>1, <2>2
<1>7. Outcome(c)
  BY <1>2, <1>5 DEF Outcome, Execution
<1>8. Between'
  BY <1>1, <1>4, <1>6 DEF Between
<1>9. Solo' /\ Ready' /\ Assembling'
  BY <1>1, <1>2 DEF Solo, Ready, Assembling
<1>10. Faithful'
  BY <1>1, <1>2, FaithfulStep
<1> QED  BY <1>1, <1>2, <1>7, <1>8, <1>9, <1>10 DEF Clean

(* A message without a body is its header. *)
LEMMA BareHeader ==
  ASSUME IInv, Between, BodiesHaveCommands, NEW c \in Open, NEW n \in 1 .. Len(net[c]),
         Untouched(c) => n >= HEADER_SIZE,
         Verdict(HeaderOf(c, n)) = "supported",
         Command[Announced(HeaderOf(c, n))] \in ImmediateCommands \cup RebootCommands
  PROVE  /\ Announced(HeaderOf(c, n)) = conn[c] /\ conn[c] \in Messages
         /\ Execution(conn[c]) <=> Do(conn[c], <<>>)
         /\ Untouched(c) /\ Len(net[c]) = n /\ Body(conn[c]) = <<>>
<1>1. Announced(HeaderOf(c, n)) = conn[c] /\ conn[c] \in Messages /\ Len(net[c]) > Size[conn[c]]
  BY HeaderArrives
<1>2. Size[conn[c]] = 0 /\ HEADER_SIZE \in Nat /\ Total(conn[c]) = HEADER_SIZE
  BY <1>1, Sizes DEF BodiesHaveCommands, Total
<1>3. Untouched(c) /\ Len(net[c]) \in Nat
  BY <1>1, <1>2, UntouchedStream DEF Between
<1>4. Len(net[c]) = n
  BY <1>2, <1>3 DEF Untouched
<1>5. conn[c] \in Acted
  BY <1>1 DEF Acted
<1>6. Body(conn[c]) = <<>>
  BY <1>1, <1>2, BodyEmpty
<1> QED  BY <1>1, <1>3, <1>4, <1>5, <1>6 DEF Execution

LEMMA CleanExecuteHeader ==
  ASSUME IInv, Clean, BodiesHaveCommands, NEW c \in Connections,
         NEW n \in 1 .. Len(net[c]),
         NEW len \in 1 .. n, Segment(c, n, len), met' \subseteq {"reuse"},
         ~receiving_data, ExecuteHeader(HeaderOf(c, len))
  PROVE  Clean' /\ Outcome(c)
<1> DEFINE m == conn[c]
<1>1. /\ ~wild /\ Between /\ Faithful /\ c \in Open /\ Open' = {c} /\ conn' = conn
      /\ recv_buffer = <<>> /\ (Untouched(c) => n >= HEADER_SIZE)
      /\ len = n /\ m \in Messages \ Damaged /\ ~Untouched(c)'
      /\ Len(net[c]) \in Nat /\ Len(net'[c]) = Len(net[c]) - n
  BY CleanSegment, SMTT(30), ZenonT(60)
<1>2. /\ Verdict(HeaderOf(c, n)) = "supported"
      /\ Command[Announced(HeaderOf(c, n))] \in ImmediateCommands
      /\ header_buffer' = <<>> /\ Do(Announced(HeaderOf(c, n)), <<>>)
      /\ UNCHANGED <<receiving_data, recv_buffer, wild>>
  BY <1>1 DEF ExecuteHeader, ExecutedHeader
<1>3. /\ Announced(HeaderOf(c, n)) = m
      /\ Execution(m) <=> Do(m, <<>>)
      /\ Len(net[c]) = n /\ Body(m) = <<>>
  BY <1>1, <1>2, BareHeader
<1>4. Len(net'[c]) = 0
  BY <1>1, <1>3
<1>5. Outcome(c)
  BY <1>2, <1>3, <1>4 DEF Outcome
<1>6. Faithful'
  BY <1>1, <1>2, <1>3, FaithfulStep
<1>7. Between'
  <2>1. Size[m] \in Nat
    BY <1>1, Sizes
  <2> QED  BY <1>1, <1>2, <1>4, <2>1 DEF Between
<1>8. Solo' /\ Ready' /\ Assembling'
  BY <1>1, <1>2 DEF Solo, Ready, Assembling
<1> QED  BY <1>1, <1>2, <1>5, <1>6, <1>7, <1>8 DEF Clean

LEMMA CleanReboot ==
  ASSUME IInv, Clean, BodiesHaveCommands, NEW c \in Connections,
         NEW n \in 1 .. Len(net[c]), Reboot(c, n), met' \subseteq {"reuse"}
  PROVE  /\ Clean' /\ Execution(conn[c]) /\ conn[c] \in Messages
         /\ Open = {c} /\ Open' = {} /\ net'[c] = <<>> /\ Faithful
<1>1. /\ c \in Open /\ ~receiving_data /\ met' = met
      /\ Verdict(HeaderOf(c, n)) = "supported"
      /\ Command[Announced(HeaderOf(c, n))] \in RebootCommands
      /\ Do(Announced(HeaderOf(c, n)), <<>>)
      /\ conn' = [d \in Connections |-> None] /\ net' = [d \in Connections |-> <<>>]
      /\ receiving_data' = FALSE /\ header_buffer' = <<>> /\ recv_buffer' = <<>>
      /\ wild' = wild
  BY DEF Reboot, HeaderOf
<1>2. ~wild /\ Between /\ Faithful /\ Solo
  BY <1>1 DEF Clean
<1>3. conn[c] = Announced(HeaderOf(c, n)) /\ conn[c] \in Messages
  BY <1>1, HeaderArrives
<1>4. Size[conn[c]] = 0 /\ Body(conn[c]) = <<>> /\ conn[c] \in Acted
  BY <1>1, <1>3, BodyEmpty DEF BodiesHaveCommands, Acted
<1>5. Execution(conn[c])
  BY <1>1, <1>3, <1>4 DEF Execution
<1>6. Faithful'
  BY <1>2, <1>3, <1>5, FaithfulStep DEF Execution
<1>7. Open' = {}
  BY <1>1 DEF Open
<1>8. Between' /\ Solo' /\ Ready' /\ Assembling'
  BY <1>1, <1>7 DEF Between, Solo, Ready, Assembling, Idle
<1>9. Open = {c} /\ net'[c] = <<>>
  BY <1>1, <1>2 DEF Solo
<1> QED  BY <1>1, <1>2, <1>3, <1>5, <1>6, <1>7, <1>8, <1>9 DEF Clean

(* What a callback comes to. *)
LEMMA CleanDeliver ==
  ASSUME IInv, Clean, BodiesHaveCommands, NEW c \in Connections, Deliver(c),
         met' \subseteq {"reuse"}
  PROVE  /\ Clean' /\ Faithful
         /\ Open = {c} /\ conn[c] \in Messages /\ net[c] # <<>>
         /\ \/ conn' = conn /\ Open' = {c} /\ net'[c] # <<>> /\ UNCHANGED served
            \/ Open' \subseteq {c} /\ net'[c] = <<>> /\ Execution(conn[c])
<1>1. PICK n \in 1 .. Len(net[c]) :
         \/ \E len \in 1 .. n :
              /\ Segment(c, n, len)
              /\ \/ ReceiveBody(SubSeq(net[c], 1, len))
                 \/ ~receiving_data /\ RejectHeader(HeaderOf(c, len))
                 \/ ~receiving_data /\ ExecuteHeader(HeaderOf(c, len))
                 \/ /\ ~receiving_data
                    /\ ReceiveFirst(HeaderOf(c, len), SubSeq(net[c], 1, len))
         \/ Reboot(c, n)
  BY Callback
<1>2. net[c] # <<>>
  BY <1>1 DEF IInv, TypeOK
<1>3. CASE Reboot(c, n)
  BY <1>2, <1>3, CleanReboot
<1>4. ASSUME NEW len \in 1 .. n, Segment(c, n, len),
             \/ ReceiveBody(SubSeq(net[c], 1, len))
             \/ ~receiving_data /\ RejectHeader(HeaderOf(c, len))
             \/ ~receiving_data /\ ExecuteHeader(HeaderOf(c, len))
             \/ ~receiving_data /\ ReceiveFirst(HeaderOf(c, len), SubSeq(net[c], 1, len))
      PROVE  /\ Clean' /\ Faithful
             /\ Open = {c} /\ conn[c] \in Messages
             /\ \/ conn' = conn /\ Open' = {c} /\ net'[c] # <<>> /\ UNCHANGED served
                \/ Open' \subseteq {c} /\ net'[c] = <<>> /\ Execution(conn[c])
  <2>1. /\ Faithful /\ Open = {c} /\ Open' = {c} /\ conn' = conn /\ conn[c] \in Messages
        /\ Len(net'[c]) \in Nat
    BY <1>4, CleanSegment
  <2>2. Clean' /\ Outcome(c)
    BY <1>4, CleanReceiveBody, CleanReceiveFirst, CleanRejectHeader, CleanExecuteHeader
  <2>3. net'[c] \in Seq(Tokens)
    BY <1>4, Consumed
  <2>4. CASE Len(net'[c]) = 0
    BY <2>1, <2>2, <2>3, <2>4 DEF Outcome
  <2>5. CASE Len(net'[c]) # 0
    BY <2>1, <2>2, <2>3, <2>5 DEF Outcome
  <2> QED  BY <2>4, <2>5
<1> QED  BY <1>1, <1>2, <1>3, <1>4

(* A client writes to a server that waits for a header. *)
LEMMA CleanWrite ==
  ASSUME IInv, Clean, met \subseteq {"reuse"}, NEW c \in Connections,
         NEW m \in Messages \ Damaged, Idle, Open \subseteq {c},
         conn' = [conn EXCEPT ![c] = m], net' = [net EXCEPT ![c] = Stream(m)],
         UNCHANGED <<recv_state, wild, served>>
  PROVE  Clean' /\ Open' = {c} /\ conn'[c] = m /\ net'[c] # <<>>
<1>1. /\ UNCHANGED <<receiving_data, current, header_buffer, recv_buffer, wild, served>>
      /\ conn \in [Connections -> Messages \cup {None}]
      /\ net \in [Connections -> Seq(Tokens)]
  BY DEF recv_state, IInv, TypeOK
<1>2. /\ conn'[c] = m /\ net'[c] = Stream(m) /\ m # None
      /\ \A d \in Connections \ {c} : conn'[d] = conn[d]
  BY <1>1, Sizes
<1>3. Open' = {c}
  BY <1>2 DEF Open
<1>4. Stream(m) \in Seq(Tokens) /\ Len(Stream(m)) = Total(m) /\ Total(m) \in Nat /\ Total(m) > 0
  BY StreamShape, Sizes DEF Total
<1>5. Untouched(c)'
  BY <1>2, <1>4 DEF Untouched
<1>6. Solo' /\ Ready' /\ Assembling'
  BY <1>1, <1>3 DEF Solo, Ready, Idle, Assembling
<1>7. Between'
  BY <1>1, <1>2, <1>3, <1>5 DEF Between, Idle
<1>8. Faithful /\ ~wild /\ recv_buffer = <<>>
  BY DEF Clean, Idle
<1>9. Faithful'
  BY <1>1, <1>2, <1>8, FaithfulStep
<1> QED  BY <1>1, <1>2, <1>3, <1>4, <1>6, <1>7, <1>8, <1>9 DEF Clean

LEMMA CleanConnect ==
  ASSUME IInv, Clean, NEW c \in Connections, NEW m \in Messages, Connect(c, m),
         met' \subseteq {"reuse"}
  PROVE  Clean' /\ Faithful /\ Open = {} /\ Open' = {c} /\ conn'[c] = m /\ net'[c] # <<>>
<1>1. /\ conn[c] = None /\ met \subseteq met'
      /\ (Open # {} => "overlap" \in met') /\ (m \in Damaged => "damage" \in met')
      /\ conn' = [conn EXCEPT ![c] = m] /\ net' = [net EXCEPT ![c] = Stream(m)]
      /\ UNCHANGED <<recv_state, wild, served>>
  BY DEF Connect, Meet, When
<1>2. Open = {} /\ m \notin Damaged /\ met \subseteq {"reuse"}
  BY <1>1
<1>3. Idle /\ Faithful
  BY <1>2 DEF Clean, Ready
<1> QED  BY <1>1, <1>2, <1>3, CleanWrite

LEMMA CleanSendAgain ==
  ASSUME IInv, Clean, NEW c \in Connections, NEW m \in Messages, SendAgain(c, m),
         met' \subseteq {"reuse"}
  PROVE  /\ Clean' /\ Faithful /\ Open = {c} /\ Open' = {c}
         /\ net[c] = <<>> /\ conn'[c] = m /\ net'[c] # <<>>
<1>1. /\ c \in Open /\ net[c] = <<>> /\ met \subseteq met'
      /\ (Open # {c} => "overlap" \in met') /\ (m \in Damaged => "damage" \in met')
      /\ (Command[conn[c]] \notin SUPPORTED_COMMANDS => "unknown" \in met')
      /\ conn' = [conn EXCEPT ![c] = m] /\ net' = [net EXCEPT ![c] = Stream(m)]
      /\ UNCHANGED <<recv_state, wild, served>>
  BY DEF SendAgain, Meet, When
<1>2. Open = {c} /\ m \notin Damaged /\ met \subseteq {"reuse"}
  BY <1>1
<1>3. Command[conn[c]] \in SUPPORTED_COMMANDS
  BY <1>1
<1>4. Assembling /\ Between /\ Faithful
  BY <1>2 DEF Clean
<1>5. ~receiving_data
  <2>1. Len(net[c]) = 0
    BY <1>1
  <2> QED  BY <1>1, <1>4, <2>1 DEF Assembling
<1>6. header_buffer = <<>>
  BY <1>1, <1>3, <1>4 DEF Between
<1>7. Idle
  BY <1>5, <1>6 DEF Idle
<1> QED  BY <1>1, <1>2, <1>4, <1>7, CleanWrite

LEMMA CleanDisconnect ==
  ASSUME IInv, Clean, NEW c \in Connections, Disconnect(c), met' \subseteq {"reuse"}
  PROVE  /\ Clean' /\ Faithful /\ Open = {c} /\ Open' = {} /\ net[c] = <<>>
         /\ UNCHANGED served
<1>1. /\ c \in Open /\ met \subseteq met' /\ (net[c] # <<>> => "abort" \in met')
      /\ conn' = [conn EXCEPT ![c] = None]
      /\ ~receiving_data' /\ header_buffer' = <<>>
      /\ UNCHANGED <<recv_buffer, wild, served>>
  BY DEF Disconnect, Meet, When, Gone, reset_recv_state
<1>2. net[c] = <<>> /\ met \subseteq {"reuse"}
  BY <1>1
<1>3. ~wild /\ Solo /\ Faithful /\ Assembling
  BY <1>2 DEF Clean
<1>4. Open = {c} /\ Open' = {}
  BY <1>1, <1>3 DEF Solo, Open, IInv, TypeOK
<1>5. recv_buffer = <<>>
  <2>1. Len(net[c]) = 0
    BY <1>2
  <2>2. ~receiving_data
    BY <1>1, <1>3, <2>1 DEF Assembling
  <2> QED  BY <1>2, <2>2 DEF Clean
<1>6. Solo' /\ Ready' /\ Assembling' /\ Between'
  BY <1>1, <1>4 DEF Solo, Ready, Idle, Assembling, Between
<1>7. Faithful'
  BY <1>1, <1>3 DEF Faithful, Body, Token
<1> QED  BY <1>1, <1>2, <1>3, <1>4, <1>5, <1>6, <1>7 DEF Clean

LEMMA CleanUnchanged ==
  ASSUME Clean, UNCHANGED vars PROVE Clean'
<1>1. UNCHANGED <<conn, net, unsent, receiving_data, current, header_buffer,
                  recv_buffer, wild, served, met>>
  BY DEF vars, recv_state
<1>2. Faithful => Faithful'
  BY <1>1 DEF Faithful, Body, Token
<1>3. (Solo => Solo') /\ (Ready => Ready')
  BY <1>1 DEF Solo, Ready, Idle, Untouched, Open, Total
<1>4. (Assembling => Assembling')
  BY <1>1 DEF Assembling, Open, Token
<1>5. (Between => Between')
  BY <1>1 DEF Between, Open, Untouched, Total
<1> QED  BY <1>1, <1>2, <1>3, <1>4, <1>5 DEF Clean

LEMMA CleanInit == Init => Clean
  BY DEF Init, Clean, Solo, Ready, Idle, Open, Assembling, Between, Faithful

LEMMA CleanStep ==
  ASSUME IInv, Clean, BodiesHaveCommands, [Next]_vars
  PROVE  Clean'
<1> SUFFICES ASSUME met' \subseteq {"reuse"} PROVE Clean'
  BY DEF Clean
<1>1. ASSUME NEW c \in Connections, on_error(c) PROVE FALSE
  BY <1>1 DEF on_error, Meet
<1> QED  BY <1>1, CleanConnect, CleanSendAgain, CleanDeliver, CleanDisconnect,
            CleanUnchanged DEF Next

(* As long as clients take turns and are patient and the network keeps     *)
(* headers whole, the server does what was sent, to the byte, and stays    *)
(* clear of undefined behaviour, however it reassembles the bodies.        *)
THEOREM FaithfulServer ==
  ASSUME BodiesHaveCommands PROVE Spec => []FaithfulUntilHazard
<1>1. Clean => FaithfulUntilHazard
  BY DEF Clean, Faithful, FaithfulUntilHazard
<1>2. IInv /\ Clean /\ [Next]_vars => Clean'
  BY CleanStep
<1> QED  BY Invariant, CleanInit, <1>1, <1>2, PTL DEF Spec

-----------------------------------------------------------------------------
(* The state of the abstract server. *)
UnderwayIn(cn, nt) == {cn[c] : c \in {d \in Connections : nt[d] # <<>>}}
ServedIn(sv) ==
  [n \in DOMAIN sv |-> IF sv[n].body = Body(sv[n].msg) THEN sv[n].msg ELSE None]

LEMMA OneUnderway ==
  ASSUME NEW cn, NEW nt, NEW c \in Connections,
         \A d \in Connections \ {c} : nt[d] = <<>>
  PROVE  UnderwayIn(cn, nt) = IF nt[c] = <<>> THEN {} ELSE {cn[c]}
  BY DEF UnderwayIn

(* Only open connections carry something. *)
LEMMA OthersEmpty ==
  ASSUME InTransit, NEW c, Open \subseteq {c}
  PROVE  \A d \in Connections \ {c} : net[d] = <<>>
  BY DEF InTransit, Open

LEMMA ServedGrows ==
  ASSUME IInv, Faithful, NEW m \in Messages, Do(m, Body(m))
  PROVE  ServedIn(served') = Append(ServedIn(served), m)
<1>1. /\ served \in Seq([msg : Messages, body : Seq(Tokens)]) /\ Len(served) \in Nat
      /\ DOMAIN served = 1 .. Len(served)
  BY LenProperties DEF IInv, TypeOK
<1>2. /\ DOMAIN served' = DOMAIN served \cup {Len(served) + 1}
      /\ \A n \in DOMAIN served : served'[n] = served[n]
      /\ served'[Len(served) + 1] = [msg |-> m, body |-> Body(m)]
  BY StreamShape, Served DEF IInv
<1>3. DOMAIN served' = 1 .. Len(served) + 1
  BY <1>1, <1>2
<1>4. /\ served'[Len(served) + 1].body = Body(m)
      /\ served'[Len(served) + 1].msg = m
  BY <1>2
<1>5. ASSUME NEW n \in DOMAIN served
      PROVE  served[n].msg \in Messages /\ ServedIn(served)[n] = served[n].msg
  <2>1. served[n] \in [msg : Messages, body : Seq(Tokens)]
    BY <1>1, ElementOfSeq
  <2> QED  BY <2>1 DEF ServedIn, Faithful
<1>6. DOMAIN ServedIn(served) = 1 .. Len(served)
  BY <1>1 DEF ServedIn
<1>7. ServedIn(served) \in [1 .. Len(served) -> Messages]
  BY <1>1, <1>5, <1>6 DEF ServedIn
<1>8. ServedIn(served) \in Seq(Messages) /\ Len(ServedIn(served)) = Len(served)
  <2>1. Len(served) \in Nat
    BY <1>1
  <2> QED  BY <1>7, <2>1
<1>9. /\ DOMAIN Append(ServedIn(served), m) = 1 .. Len(served) + 1
      /\ Append(ServedIn(served), m) \in Seq(Messages)
      /\ Len(Append(ServedIn(served), m)) = Len(served) + 1
      /\ \A n \in 1 .. Len(served) : Append(ServedIn(served), m)[n] = ServedIn(served)[n]
      /\ Append(ServedIn(served), m)[Len(served) + 1] = m
  BY <1>8, AppendProperties, LenProperties
<1>10. ServedIn(served')[Len(served) + 1] = m
  BY <1>2, <1>4 DEF ServedIn
<1>11. \A n \in DOMAIN served : ServedIn(served')[n] = ServedIn(served)[n]
  BY <1>2 DEF ServedIn
<1>12. ServedIn(served') \in [1 .. Len(served) + 1 -> Messages]
  <2>1. \A n \in 1 .. Len(served) + 1 : ServedIn(served')[n] \in Messages
    <3> SUFFICES ASSUME NEW n \in 1 .. Len(served) + 1 PROVE ServedIn(served')[n] \in Messages
      OBVIOUS
    <3>1. CASE n = Len(served) + 1
      BY <1>10, <3>1
    <3>2. CASE n # Len(served) + 1
      <4>1. n \in DOMAIN served
        BY <1>1, <3>2
      <4> QED  BY <1>5, <1>11, <4>1
    <3> QED  BY <3>1, <3>2
  <2>2. DOMAIN ServedIn(served') = 1 .. Len(served) + 1
    BY <1>3 DEF ServedIn
  <2> QED  BY <2>1, <2>2 DEF ServedIn
<1>13. ServedIn(served') \in Seq(Messages) /\ Len(ServedIn(served')) = Len(served) + 1
  BY <1>1, <1>12
<1> QED  BY <1>1, <1>9, <1>10, <1>11, <1>13, SeqEqual

(* Writing a message is sending it, the callback with its last byte serves *)
(* it, and nothing else shows.                                             *)
LEMMA AbstractStep ==
  ASSUME IInv, IInv', Clean, BodiesHaveCommands, met' \subseteq {"reuse"}, [Next]_vars
  PROVE  \/ \E m \in Messages :
              \/ /\ UnderwayIn(conn', net') = UnderwayIn(conn, net) \cup {m}
                 /\ ServedIn(served') = ServedIn(served)
              \/ /\ m \in UnderwayIn(conn, net)
                 /\ UnderwayIn(conn', net') = UnderwayIn(conn, net) \ {m}
                 /\ ServedIn(served') = IF m \in Acted THEN Append(ServedIn(served), m)
                                                           ELSE ServedIn(served)
         \/ /\ UnderwayIn(conn', net') = UnderwayIn(conn, net)
            /\ ServedIn(served') = ServedIn(served)
<1>1. ASSUME NEW c \in Connections, Open \subseteq {c}
      PROVE  UnderwayIn(conn, net) = IF net[c] = <<>> THEN {} ELSE {conn[c]}
  BY <1>1, OthersEmpty, OneUnderway DEF IInv
<1>2. ASSUME NEW c \in Connections, Open' \subseteq {c}
      PROVE  UnderwayIn(conn', net') = IF net'[c] = <<>> THEN {} ELSE {conn'[c]}
  <2>1. \A d \in Connections \ {c} : net'[d] = <<>>
    BY <1>2 DEF IInv, InTransit, Open
  <2> QED  BY <2>1 DEF UnderwayIn
<1>3. ASSUME UNCHANGED served PROVE ServedIn(served') = ServedIn(served)
  BY <1>3
<1>4. ASSUME NEW c \in Connections, NEW m \in Messages, Connect(c, m)
      PROVE  /\ UnderwayIn(conn', net') = UnderwayIn(conn, net) \cup {m}
             /\ ServedIn(served') = ServedIn(served)
  <2>1. Open = {} /\ Open' = {c} /\ conn'[c] = m /\ net'[c] # <<>>
    BY <1>4, CleanConnect
  <2>2. net[c] = <<>> /\ UNCHANGED served
    BY <1>4, <2>1 DEF Connect, IInv, InTransit
  <2> QED  BY <1>1, <1>2, <1>3, <2>1, <2>2
<1>5. ASSUME NEW c \in Connections, NEW m \in Messages, SendAgain(c, m)
      PROVE  /\ UnderwayIn(conn', net') = UnderwayIn(conn, net) \cup {m}
             /\ ServedIn(served') = ServedIn(served)
  <2>1. /\ Open = {c} /\ Open' = {c} /\ net[c] = <<>> /\ conn'[c] = m /\ net'[c] # <<>>
        /\ UNCHANGED served
    BY <1>5, CleanSendAgain DEF SendAgain
  <2> QED  BY <1>1, <1>2, <1>3, <2>1
<1>6. ASSUME NEW c \in Connections, Disconnect(c)
      PROVE  /\ UnderwayIn(conn', net') = UnderwayIn(conn, net)
             /\ ServedIn(served') = ServedIn(served)
  <2>1. Open = {c} /\ Open' = {} /\ net[c] = <<>> /\ UNCHANGED served
    BY <1>6, CleanDisconnect
  <2>2. net'[c] = <<>>
    BY <2>1 DEF IInv, InTransit, Open
  <2> QED  BY <1>1, <1>2, <1>3, <2>1, <2>2
<1>7. ASSUME NEW c \in Connections, on_error(c) PROVE FALSE
  BY <1>7 DEF on_error, Meet
<1>8. ASSUME NEW c \in Connections, Deliver(c)
      PROVE  \/ /\ UnderwayIn(conn', net') = UnderwayIn(conn, net)
                /\ ServedIn(served') = ServedIn(served)
             \/ /\ conn[c] \in Messages
                /\ conn[c] \in UnderwayIn(conn, net)
                /\ UnderwayIn(conn', net') = UnderwayIn(conn, net) \ {conn[c]}
                /\ ServedIn(served') =
                     IF conn[c] \in Acted THEN Append(ServedIn(served), conn[c])
                                              ELSE ServedIn(served)
  <2>1. /\ Faithful /\ Open = {c} /\ conn[c] \in Messages /\ net[c] # <<>>
        /\ \/ conn' = conn /\ Open' = {c} /\ net'[c] # <<>> /\ UNCHANGED served
           \/ Open' \subseteq {c} /\ net'[c] = <<>> /\ Execution(conn[c])
    BY <1>8, CleanDeliver
  <2>2. UnderwayIn(conn, net) = {conn[c]}
    BY <1>1, <2>1
  <2>3. CASE conn' = conn /\ Open' = {c} /\ net'[c] # <<>> /\ UNCHANGED served
    BY <1>2, <1>3, <2>2, <2>3
  <2>4. CASE Open' \subseteq {c} /\ net'[c] = <<>> /\ Execution(conn[c])
    <3>1. UnderwayIn(conn', net') = {}
      BY <1>2, <2>4
    <3>2. ServedIn(served') = IF conn[c] \in Acted THEN Append(ServedIn(served), conn[c])
                                                       ELSE ServedIn(served)
      BY <1>3, <2>1, <2>4, ServedGrows DEF Execution
    <3> QED  BY <2>1, <2>2, <3>1, <3>2
  <2> QED  BY <2>1, <2>3, <2>4
<1>9. CASE UNCHANGED vars
  BY <1>9 DEF vars
<1>10. CASE Next
  BY <1>4, <1>5, <1>6, <1>7, <1>8, <1>10 DEF Next
<1> QED  BY <1>9, <1>10

(* What clients expect, if the server understands them, is what it does. *)
LEMMA ActedIsEffective ==
  ASSUME Understood PROVE Acted = Effective
<1>1. ASSUME NEW m \in Messages, Command[m] \in KeyValueCommands
      PROVE  m \in Acted /\ m \in Effective
  BY <1>1 DEF Understood, Acted, Effective, SUPPORTED_COMMANDS, KeyValueCommands,
              ImageCommands, ZipCommands
<1>2. ASSUME NEW m \in Messages, Command[m] \in ImageCommands
      PROVE  m \in Acted <=> m \in Effective
  BY <1>2 DEF Acted, Effective, SUPPORTED_COMMANDS, KeyValueCommands, ImageCommands,
              ZipCommands, ImmediateCommands, RebootCommands
<1>3. ASSUME NEW m \in Messages, Command[m] \in ImmediateCommands \cup RebootCommands
      PROVE  m \in Acted /\ m \in Effective
  BY <1>3 DEF Acted, Effective, SUPPORTED_COMMANDS, ImageCommands, ZipCommands,
              ImmediateCommands, RebootCommands
<1>4. ASSUME NEW m \in Messages, Command[m] \notin SUPPORTED_COMMANDS
      PROVE  m \notin Acted /\ m \notin Effective
  BY <1>4 DEF Understood, Acted, Effective, SUPPORTED_COMMANDS
<1>5. \A m \in Messages : m \in Acted <=> m \in Effective
  BY <1>1, <1>2, <1>3, <1>4 DEF SUPPORTED_COMMANDS
<1> QED  BY <1>5 DEF Acted, Effective

(* Patient clients that take turns, and whose messages the server          *)
(* understands, cannot tell it from one that takes every message out of    *)
(* what is under way and executes it whole: the safety part of what        *)
(* ImplementsCommandServer says.                                           *)
THEOREM RefinesCommandServer ==
  ASSUME BodiesHaveCommands, Understood, Hazards \subseteq {"reuse"}
  PROVE  Spec => Abstract!Init /\ [][Abstract!Next]_(Abstract!vars)
<1>1. Init => Abstract!Init
  <2> SUFFICES ASSUME Init PROVE Abstract!Init
    OBVIOUS
  <2>1. /\ {d \in Connections : net[d] # <<>>} = {} /\ DOMAIN served = {}
    BY DEF Init
  <2>2. [n \in DOMAIN served |->
           IF served[n].body = Body(served[n].msg) THEN served[n].msg ELSE None] = <<>>
    BY <2>1
  <2> QED  BY <2>1, <2>2 DEF Abstract!Init
<1>2. IInv /\ IInv' /\ Clean /\ [Next]_vars => [Abstract!Next]_(Abstract!vars)
  <2> SUFFICES ASSUME IInv, IInv', Clean, [Next]_vars
               PROVE  [Abstract!Next]_(Abstract!vars)
    OBVIOUS
  <2>1. met' \subseteq {"reuse"}
    BY DEF IInv, TypeOK
  <2> QED  BY <2>1, AbstractStep, ActedIsEffective DEF UnderwayIn, ServedIn, Abstract!Next, Abstract!Send,
              Abstract!Serve, Abstract!vars
<1>3. IInv /\ Clean /\ [Next]_vars => Clean'
  BY CleanStep
<1> QED  BY Invariant, CleanInit, <1>1, <1>2, <1>3, PTL DEF Spec
=============================================================================
