---------------------------- MODULE Display_proofs ----------------------------
(***************************************************************************)
(* Proofs about Display, for any panel, any characters and any texts: its  *)
(* invariants hold whatever the callbacks do between two steps of the      *)
(* foreground.                                                             *)
(***************************************************************************)
EXTENDS Display, TextConsole_proofs

-----------------------------------------------------------------------------
(* The inductive invariant. *)

(* The types of everything but what scroll keeps. *)
Shaped ==
  /\ text_buffer \in Seq(Chars)
  /\ buffer \in [All -> Contents]
  /\ behind \subseteq All
  /\ pen \in {"black", "white"}
  /\ pc \in {"idle", "fill", "inflate", "update"} \cup Printing \cup Drawing
  /\ part \in All
  /\ picture \in Pictures \cup {NoPicture}
  /\ rest \in Seq(Chars)
  /\ width \in 0 .. WIDTH - 1
  /\ ink \in {"console", "old"}
  /\ asked \in Pictures \cup {"console", "none"}
  /\ goal \in Seq(Chars)
  /\ staged \in BOOLEAN
  /\ spliced \in BOOLEAN

(* What scroll keeps.  A count is torn only while it is made, and what     *)
(* tears it leaves a text that fits; there is something to pop unless the  *)
(* screen was cleared.                                                     *)
Scrolls ==
  /\ front \in Chars
  /\ torn \in BOOLEAN
  /\ wild \in BOOLEAN
  /\ cleared \in BOOLEAN
  /\ torn => pc = "scroll" /\ FitsPanel(text_buffer)
  /\ pc \in {"front", "drop"} /\ text_buffer = <<>> => cleared
  /\ wild => pc = "drop" /\ text_buffer = <<>> /\ cleared

(* What the foreground holds while it does not need it. *)
Locals ==
  /\ pc \in Printing => rest # <<>> /\ Last(rest) = NewLine
  /\ pc \notin Printing => rest = <<>>
  /\ pc \notin Printing \cup {"copy"} => width = 0
  /\ pc \in Printing \cup {"idle", "copy", "pen", "clear"} => part = 1
  /\ pc \in {"fill", "inflate"} => picture \in Pictures
  /\ pc = "push" => CharWidth[Head(rest)] <= width

(* The parts behind are still to come in update. *)
BehindAhead == \A n \in behind : n >= part

AllAre(content) == \A n \in All : buffer[n] = content

(* How far a picture has come that nothing disturbed. *)
PictureOnItsWay ==
  asked \in Pictures =>
    /\ pc \in {"fill", "inflate", "update", "idle"}
    /\ pc \in {"fill", "inflate"} =>
         picture = asked /\ \A n \in All : n < part => buffer[n] = asked
    /\ pc = "update" => AllAre(asked) /\ BehindAhead
    /\ pc = "idle" => AllAre(asked) /\ behind = {}

(* The same for text. *)
TextOnItsWay ==
  asked = "console" =>
    /\ pc \in Printing \cup Drawing \cup {"update", "idle"}
    /\ pc \in {"pen", "clear", "draw"} => ink = "console"
    /\ pc = "clear" => pen = "black"
    /\ pc = "draw" =>
         \A n \in All : buffer[n] = IF n < part THEN "console" ELSE "blank"
    /\ pc = "update" => AllAre("console") /\ BehindAhead
    /\ pc = "idle" => AllAre("console") /\ behind = {}

(* What is written is shown, or will be. *)
NothingForgotten ==
  ~staged => /\ pc = "update" => BehindAhead
             /\ pc = "idle" => behind = {}

(* Only print may leave an open line, or one too many. *)
WholeLines ==
  /\ pc \notin Printing => FitsPanel(text_buffer)
  /\ pc \in {"scroll"} \cup Popping /\ text_buffer # <<>> =>
       Last(text_buffer) \in {Head(rest), NewLine}

Bound == IF spliced THEN 2 * (WIDTH - 1) ELSE WIDTH - 1

(* width is at least what the last line takes. *)
Measured ==
  /\ NoWider(text_buffer, Bound)
  /\ pc \in {"measure", "scroll"} \cup Popping => Trails(text_buffer, width)
  /\ pc = "push" => Trails(text_buffer, width - CharWidth[Head(rest)])

(* What is in the buffer and what print will yet add make the goal. *)
OnCourse ==
  asked = "console" =>
    /\ pc = "measure" =>
         \E b \in Seq(Chars) : /\ Follows(rest, width, b)
                               /\ goal = Scrolled(text_buffer \o b)
    /\ pc = "push" =>
         \E b \in Seq(Chars) : /\ Follows(Tail(rest), width, b)
                               /\ goal = Scrolled(Append(text_buffer, Head(rest)) \o b)
    /\ pc \in {"scroll"} \cup Popping =>
         \E b \in Seq(Chars) : /\ Follows(Tail(rest), width, b)
                               /\ goal = Scrolled(text_buffer \o b)
    /\ pc = "scroll" => ~torn
    /\ pc \in Popping => line_count(text_buffer) > MAX_LINES
    /\ pc = "drop" => text_buffer # <<>> /\ front = Head(text_buffer)
    /\ pc = "copy" => text_buffer = goal

(* What was asked for, and the text. *)
OnItsWay == PictureOnItsWay /\ TextOnItsWay /\ NothingForgotten

Texts == WholeLines /\ Measured /\ OnCourse

IInv == TypeOK /\ Scrolls /\ Locals /\ OnItsWay /\ Texts

-----------------------------------------------------------------------------
LEMMA Given ==
  /\ Parts \in Nat /\ Parts > 0 /\ 1 \in All /\ Parts \in All
  /\ \A p \in Pictures : p \notin {"blank", "flood", "console", "old", "mixed", "none"}
  /\ \A m \in UsbTexts \cup TcpTexts : m \in Seq(Chars)
<1>1. Parts \in Nat /\ Parts > 0
  BY DisplayAssumption
<1>2. 1 \in All /\ Parts \in All
  BY <1>1 DEF All
<1> QED  BY <1>1, <1>2, DisplayAssumption

(* What the steps are made of keeps the types. *)
LEMMA TextBecomesTyped ==
  ASSUME TypeOK, NEW t \in Seq(Chars), TextBecomes(t)
  PROVE  /\ text_buffer' = t /\ text_buffer' \in Seq(Chars)
         /\ buffer' \in [All -> Contents] /\ ink' \in {"console", "old"}
         /\ UNCHANGED <<behind, pen, staged>>
<1>1. buffer \in [All -> Contents] /\ ink \in {"console", "old"}
  BY DEF TypeOK
<1>2. ASSUME NEW x \in Contents PROVE Aged(x) \in Contents
  BY DEF Aged, Contents
<1>3. \A n \in All : Aged(buffer[n]) \in Contents
  BY <1>1, <1>2
<1>4. buffer' = [n \in All |-> Aged(buffer[n])]
  BY DEF TextBecomes
<1>5. buffer' \in [All -> Contents]
  BY <1>3, <1>4
<1>6. ink' \in {"console", "old"}
  BY <1>1 DEF TextBecomes, Aged
<1> QED  BY <1>5, <1>6 DEF TextBecomes

LEMMA PaintTyped ==
  ASSUME TypeOK, NEW parts \in SUBSET All, NEW content \in Contents, Paint(parts, content)
  PROVE  buffer' \in [All -> Contents] /\ behind' \in SUBSET All
  BY DEF TypeOK, Paint

LEMMA RestTyped ==
  ASSUME Rest
  PROVE  /\ pc' = "idle" /\ part' = 1 /\ picture' = NoPicture /\ rest' = <<>> /\ width' = 0
         /\ part' \in All /\ rest' \in Seq(Chars) /\ width' \in 0 .. WIDTH - 1
<1>1. <<>> \in Seq(Chars)
  BY EmptySeq
<1>2. 0 \in 0 .. WIDTH - 1
  BY Widths
<1> QED  BY <1>1, <1>2, Given DEF Rest

LEMMA NextPart ==
  ASSUME TypeOK, NEW next \in BOOLEAN, ForEachPart(next)
  PROVE  /\ part < Parts => /\ part' = part + 1 /\ part' \in All
                            /\ UNCHANGED <<pc, picture, rest, width>>
         /\ ~(part < Parts) => next /\ part = Parts
<1>1. part \in 1 .. Parts /\ Parts \in Nat
  BY Given DEF TypeOK, All
<1>2. CASE part < Parts
  <2>1. part + 1 \in 1 .. Parts
    BY <1>1, <1>2
  <2> QED  BY <1>2, <2>1 DEF ForEachPart, All
<1>3. CASE ~(part < Parts)
  BY <1>1, <1>3 DEF ForEachPart
<1> QED  BY <1>2, <1>3

LEMMA PaintPartStep ==
  ASSUME TypeOK, NEW content \in Contents, PaintPart(content)
  PROVE  /\ buffer' = [n \in All |-> IF n = part THEN content ELSE buffer[n]]
         /\ buffer' \in [All -> Contents]
         /\ behind' = behind \cup {part} /\ behind' \in SUBSET All
         /\ part' \in All
         /\ UNCHANGED <<picture, rest, width, pen, asked, goal, spliced>>
         /\ part < Parts => part' = part + 1 /\ pc' = pc /\ staged' = staged
         /\ ~(part < Parts) => part = Parts /\ part' = 1 /\ pc' = "update" /\ staged' = FALSE
<1>1. part \in All /\ staged \in BOOLEAN
  BY DEF TypeOK
<1>2. Paint({part}, content) /\ ForEachPart(ToUpdate) /\ staged' = (staged /\ part < Parts)
  BY DEF PaintPart
<1>3. buffer' \in [All -> Contents] /\ behind' \in SUBSET All
  BY <1>1, <1>2, PaintTyped
<1>4. /\ buffer' = [n \in All |-> IF n = part THEN content ELSE buffer[n]]
      /\ behind' = behind \cup {part}
  BY <1>2 DEF Paint
<1>5. UNCHANGED <<pen, asked, goal, spliced>>
  BY DEF PaintPart
<1>6. CASE part < Parts
  <2>1. part' = part + 1 /\ part' \in All /\ UNCHANGED <<pc, picture, rest, width>>
    <3>1. ToUpdate \in BOOLEAN
      BY DEF ToUpdate
    <3> QED  BY <1>2, <1>6, <3>1, NextPart
  <2>2. staged' = staged
    BY <1>1, <1>2, <1>6
  <2> QED  BY <1>3, <1>4, <1>5, <1>6, <2>1, <2>2
<1>7. CASE ~(part < Parts)
  <2>1. part = Parts /\ ToUpdate
    <3>1. ToUpdate \in BOOLEAN
      BY DEF ToUpdate
    <3> QED  BY <1>2, <1>7, <3>1, NextPart
  <2>2. pc' = "update" /\ part' = 1 /\ UNCHANGED <<picture, rest, width>>
    BY <2>1 DEF ToUpdate
  <2>3. staged' = FALSE
    BY <1>2, <1>7
  <2> QED  BY <1>3, <1>4, <1>5, <1>7, <2>1, <2>2, <2>3, Given
<1> QED  BY <1>6, <1>7

-----------------------------------------------------------------------------
LEMMA Nothing ==
  FitsPanel(<<>>) /\ \A w : NoWider(<<>>, w)
<1>1. DOMAIN <<>> = {}
  OBVIOUS
<1>2. LineEnds(<<>>) = {}
  BY <1>1 DEF LineEnds
<1>3. line_count(<<>>) <= MAX_LINES
  <2>1. Cardinality(LineEnds(<<>>)) = 0
    BY <1>2, FS_EmptySet
  <2>2. MAX_LINES \in Nat
    BY Widths
  <2> QED  BY <2>1, <2>2 DEF line_count
<1> QED  BY <1>1, <1>3 DEF FitsPanel, NoWider

(* The callbacks leave whole lines on the panel. *)
LEMMA ShownTyped ==
  ASSUME TypeOK, NEW t \in Seq(Chars), Shown(t)
  PROVE  /\ text_buffer' = t /\ text_buffer' \in Seq(Chars)
         /\ buffer' \in [All -> Contents] /\ AllAre("console")'
         /\ behind' = {} /\ pen' = "white" /\ ink' \in {"console", "old"}
         /\ asked' = "none" /\ staged' = FALSE
         /\ UNCHANGED <<pc, part, picture, rest, width, goal>>
<1>1. buffer' = [n \in All |-> "console"]
  BY DEF Shown
<1>2. buffer' \in [All -> Contents] /\ AllAre("console")'
  BY <1>1 DEF Contents, AllAre
<1>3. ink' \in {"console", "old"}
  BY DEF Shown, Aged, TypeOK
<1>4. UNCHANGED <<pc, part, picture, rest, width, goal>>
  BY DEF Shown, Callback, locals
<1> QED  BY <1>2, <1>3, <1>4 DEF Shown

(* What a callback prints: one line, or two. *)
Printable(text) ==
  \/ \E m \in TcpTexts : text = Printed(text_buffer, m)
  \/ \E m, r \in TcpTexts : text = Printed(Printed(text_buffer, r), m)

LEMMA PrintableTyped ==
  ASSUME TypeOK, NEW t, Printable(t)
  PROVE  t \in Seq(Chars) /\ FitsPanel(t)
<1>1. text_buffer \in Seq(Chars)
  BY DEF TypeOK
<1>2. ASSUME NEW m \in TcpTexts, NEW x \in Seq(Chars)
      PROVE  Printed(x, m) \in Seq(Chars) /\ FitsPanel(Printed(x, m))
  <2>1. m \in Seq(Chars)
    BY Given
  <2> QED  BY <1>2, <2>1, PrintedFits
<1>3. ASSUME NEW m \in TcpTexts, t = Printed(text_buffer, m)
      PROVE  t \in Seq(Chars) /\ FitsPanel(t)
  BY <1>1, <1>2, <1>3
<1>4. ASSUME NEW m \in TcpTexts, NEW r \in TcpTexts,
             t = Printed(Printed(text_buffer, r), m)
      PROVE  t \in Seq(Chars) /\ FitsPanel(t)
  <2>1. Printed(text_buffer, r) \in Seq(Chars)
    BY <1>1, <1>2
  <2> QED  BY <1>2, <1>4, <2>1
<1> QED  BY <1>3, <1>4 DEF Printable

(* A callback prints, clears, copies the buffer or draws a picture. *)
LEMMA Callbacks ==
  ASSUME Interrupt
  PROVE  \/ \E p \in Pictures, n \in All, shown \in BOOLEAN : process_data(p, n, shown)
         \/ \E t : Printable(t) /\ PrintBy(t)
         \/ ClearScreen
         \/ Sync
<1>1. ASSUME NEW m \in TcpTexts, Reply(m)
      PROVE  \E t : Printable(t) /\ PrintBy(t)
  BY <1>1 DEF Reply, Printable
<1>2. ASSUME NEW m \in TcpTexts, Discovery(m)
      PROVE  \E t : Printable(t) /\ PrintBy(t)
  <2>1. PICK r \in TcpTexts : PrintBy(Printed(Printed(text_buffer, r), m))
    BY <1>2 DEF Discovery
  <2> QED  BY <2>1 DEF Printable
<1> QED  BY <1>1, <1>2 DEF Interrupt

LEMMA CallbackTypes ==
  ASSUME TypeOK, Locals, Interrupt
  PROVE  Shaped' /\ Locals' /\ UNCHANGED <<pc, part, picture, rest, width, goal>>
<1>0. Interrupt => \/ \E p \in Pictures, n \in All, shown \in BOOLEAN : process_data(p, n, shown)
                   \/ \E t : Printable(t) /\ PrintBy(t)
                   \/ ClearScreen
                   \/ Sync
  BY Callbacks
<1>1. ASSUME UNCHANGED <<pc, part, picture, rest, width, goal>>,
             text_buffer' \in Seq(Chars), buffer' \in [All -> Contents],
             behind' \in SUBSET All, pen' \in {"black", "white"},
             ink' \in {"console", "old"}, asked' \in Pictures \cup {"console", "none"},
             staged' \in BOOLEAN, spliced' \in BOOLEAN
      PROVE  Shaped' /\ Locals' /\ UNCHANGED <<pc, part, picture, rest, width, goal>>
  <2>1. Locals'
    BY <1>1 DEF Locals
  <2>2. Shaped'
    BY <1>1 DEF Shaped, TypeOK
  <2> QED  BY <1>1, <2>1, <2>2
<1>2. ASSUME NEW p \in Pictures, NEW n \in All, NEW shown \in BOOLEAN, process_data(p, n, shown)
      PROVE  Shaped' /\ Locals' /\ UNCHANGED <<pc, part, picture, rest, width, goal>>
  <2>1. UNCHANGED <<pc, part, picture, rest, width, goal, text_buffer, ink, pen, spliced>>
    BY <1>2 DEF process_data, Callback, NoText, locals
  <2>2. /\ buffer' = [i \in All |-> IF i <= n THEN p ELSE buffer[i]]
        /\ behind' = IF shown THEN {} ELSE behind \cup (1 .. n)
        /\ staged' = ~shown /\ asked' = "none"
    BY <1>2 DEF process_data
  <2>3. p \in Contents /\ buffer \in [All -> Contents] /\ behind \in SUBSET All
    BY DEF Contents, TypeOK
  <2>4. buffer' \in [All -> Contents]
    BY <2>2, <2>3
  <2>5. 1 .. n \in SUBSET All
    BY Given DEF All
  <2>6. behind' \in SUBSET All
    BY <2>2, <2>3, <2>5
  <2>7. /\ text_buffer \in Seq(Chars) /\ ink \in {"console", "old"} /\ pen \in {"black", "white"}
        /\ spliced \in BOOLEAN
    BY DEF TypeOK
  <2> QED  BY <1>1, <2>1, <2>2, <2>4, <2>6, <2>7
<1>3. ASSUME NEW t \in Seq(Chars), Shown(t), spliced' \in BOOLEAN
      PROVE  Shaped' /\ Locals' /\ UNCHANGED <<pc, part, picture, rest, width, goal>>
  <2>1. /\ text_buffer' \in Seq(Chars) /\ buffer' \in [All -> Contents]
        /\ behind' = {} /\ pen' = "white" /\ ink' \in {"console", "old"}
        /\ asked' = "none" /\ staged' = FALSE
        /\ UNCHANGED <<pc, part, picture, rest, width, goal>>
    BY <1>3, ShownTyped
  <2> QED  BY <1>1, <1>3, <2>1
<1>4. ASSUME NEW t, Printable(t), PrintBy(t)
      PROVE  Shaped' /\ Locals' /\ UNCHANGED <<pc, part, picture, rest, width, goal>>
  <2>1. t \in Seq(Chars)
    BY <1>4, PrintableTyped
  <2>2. Shown(t) /\ spliced' \in BOOLEAN
    BY <1>4 DEF PrintBy
  <2> QED  BY <1>3, <2>1, <2>2
<1>5. ASSUME ClearScreen
      PROVE  Shaped' /\ Locals' /\ UNCHANGED <<pc, part, picture, rest, width, goal>>
  <2>1. <<>> \in Seq(Chars) /\ Shown(<<>>) /\ spliced' \in BOOLEAN
    BY <1>5, EmptySeq DEF ClearScreen, TypeOK
  <2> QED  BY <1>3, <2>1
<1>6. ASSUME Sync
      PROVE  Shaped' /\ Locals' /\ UNCHANGED <<pc, part, picture, rest, width, goal>>
  <2>1. /\ UNCHANGED <<pc, part, picture, rest, width, goal, text_buffer, ink, buffer, pen, asked, spliced>>
        /\ behind' = {} /\ staged' = FALSE
    BY <1>6 DEF Sync, Callback, NoText, locals
  <2>2. /\ text_buffer \in Seq(Chars) /\ ink \in {"console", "old"} /\ pen \in {"black", "white"}
        /\ spliced \in BOOLEAN /\ buffer \in [All -> Contents]
        /\ asked \in Pictures \cup {"console", "none"}
    BY DEF TypeOK
  <2> QED  BY <1>1, <2>1, <2>2
<1> QED  BY <1>0, <1>2, <1>4, <1>5, <1>6

-----------------------------------------------------------------------------
(* The steps of the foreground keep the types. *)
LEMMA HeldTypes ==
  ASSUME TypeOK
  PROVE  /\ text_buffer \in Seq(Chars) /\ buffer \in [All -> Contents] /\ behind \in SUBSET All
         /\ pen \in {"black", "white"} /\ part \in All /\ picture \in Pictures \cup {NoPicture}
         /\ rest \in Seq(Chars) /\ width \in 0 .. WIDTH - 1 /\ ink \in {"console", "old"}
         /\ asked \in Pictures \cup {"console", "none"} /\ goal \in Seq(Chars)
         /\ staged \in BOOLEAN /\ spliced \in BOOLEAN
  BY DEF TypeOK

LEMMA PictureTypes ==
  ASSUME TypeOK, Locals,
         \/ \E p \in Pictures : handleData(p) \/ handleZippedData(p)
         \/ FillPart \/ GiveUp \/ Update
  PROVE  Shaped' /\ Locals'
<1>1. ASSUME NEW p \in Pictures, NEW step \in {"fill", "inflate"}, Receive(p, step),
             buffer' \in [All -> Contents], behind' \in SUBSET All
      PROVE  Shaped' /\ Locals'
  <2>1. /\ pc = "idle" /\ pc' = step /\ picture' = p /\ asked' = p
        /\ UNCHANGED <<pen, part, rest, width, goal, staged, spliced, text_buffer, ink>>
    BY <1>1 DEF Receive, NoText
  <2>2. rest = <<>> /\ width = 0
    BY <2>1 DEF Locals, Printing, Popping
  <2>3. Locals'
    BY <2>1, <2>2 DEF Locals, Printing, Popping
  <2>4. Shaped'
    BY <1>1, <2>1, HeldTypes DEF Shaped
  <2> QED  BY <2>3, <2>4
<1>2. ASSUME NEW p \in Pictures, handleData(p) PROVE Shaped' /\ Locals'
  <2>1. Receive(p, "fill") /\ Paint(All, "blank")
    BY <1>2 DEF handleData
  <2>2. "blank" \in Contents /\ All \in SUBSET All
    BY DEF Contents
  <2>3. buffer' \in [All -> Contents] /\ behind' \in SUBSET All
    BY <2>1, <2>2, PaintTyped
  <2> QED  BY <1>1, <2>1, <2>3
<1>3. ASSUME NEW p \in Pictures, handleZippedData(p) PROVE Shaped' /\ Locals'
  <2>1. Receive(p, "inflate") /\ UNCHANGED <<buffer, behind>>
    BY <1>3 DEF handleZippedData
  <2> QED  BY <1>1, <2>1, HeldTypes
<1>4. CASE FillPart
  <2>1. pc \in {"fill", "inflate"} /\ PaintPart(picture) /\ UNCHANGED <<text_buffer, ink>>
    BY <1>4 DEF FillPart, NoText
  <2>2. picture \in Contents
    BY <2>1 DEF Locals, Contents
  <2>3. /\ buffer' \in [All -> Contents] /\ behind' \in SUBSET All /\ part' \in All
        /\ UNCHANGED <<picture, rest, width, pen, asked, goal, spliced>>
        /\ part < Parts => part' = part + 1 /\ pc' = pc /\ staged' = staged
        /\ ~(part < Parts) => part = Parts /\ part' = 1 /\ pc' = "update" /\ staged' = FALSE
    BY <2>1, <2>2, PaintPartStep
  <2>4. pc' \in {"fill", "inflate", "update"} /\ staged' \in BOOLEAN
    BY <2>1, <2>3, HeldTypes
  <2>5. rest = <<>> /\ width = 0 /\ picture \in Pictures
    BY <2>1 DEF Locals, Printing, Popping
  <2>6. Locals'
    BY <2>3, <2>4, <2>5 DEF Locals, Printing, Popping
  <2>7. Shaped'
    BY <2>1, <2>3, <2>4, HeldTypes DEF Shaped
  <2> QED  BY <2>6, <2>7
<1>5. ASSUME Rest PROVE Locals' /\ pc' = "idle"
  BY <1>5, RestTyped DEF Locals, Printing, Popping
<1>6. CASE GiveUp
  <2>1. Rest /\ asked' = "none" /\ staged' = TRUE /\ UNCHANGED <<text_buffer, ink, buffer, behind, pen, goal, spliced>>
    BY <1>6 DEF GiveUp, NoText, NoPixels
  <2>2. Shaped'
    BY <2>1, RestTyped, HeldTypes DEF Shaped
  <2> QED  BY <1>5, <2>1, <2>2
<1>7. CASE Update
  <2>1. /\ pc = "update" /\ behind' = behind \ {part} /\ ForEachPart(Rest)
        /\ UNCHANGED <<text_buffer, ink, buffer, pen, asked, goal, staged, spliced>>
    BY <1>7 DEF Update, NoText, NoHistory
  <2>2. behind' \in SUBSET All
    BY <2>1, HeldTypes
  <2>3. Rest \in BOOLEAN
    BY DEF Rest
  <2>4. CASE part < Parts
    <3>1. part' \in All /\ UNCHANGED <<pc, picture, rest, width>>
      BY <2>1, <2>3, <2>4, NextPart
    <3>2. Locals'
      BY <2>1, <3>1 DEF Locals, Printing, Popping
    <3>3. Shaped'
      BY <2>1, <2>2, <3>1, HeldTypes DEF Shaped
    <3> QED  BY <3>2, <3>3
  <2>5. CASE ~(part < Parts)
    <3>1. Rest
      BY <2>1, <2>3, <2>5, NextPart
    <3>2. Shaped'
      BY <2>1, <2>2, <3>1, RestTyped, HeldTypes DEF Shaped
    <3> QED  BY <1>5, <3>1, <3>2
  <2> QED  BY <2>4, <2>5
<1> QED  BY <1>2, <1>3, <1>4, <1>6, <1>7

(* What print takes next. *)
LEMMA Taken ==
  ASSUME TypeOK, Locals, pc \in Printing
  PROVE  /\ rest # <<>> /\ Head(rest) \in Chars /\ Tail(rest) \in Seq(Chars)
         /\ Tail(rest) = <<>> => Head(rest) = NewLine
         /\ Tail(rest) # <<>> => Last(Tail(rest)) = NewLine
         /\ Broken(width, Head(rest)) \in Seq(Chars)
         /\ Grown(width, Head(rest)) \in 0 .. WIDTH - 1
         /\ CharWidth[Head(rest)] <= Grown(width, Head(rest))
<1>1. rest \in Seq(Chars) /\ rest # <<>> /\ Last(rest) = NewLine /\ width \in 0 .. WIDTH - 1
  BY HeldTypes DEF Locals
<1>2. /\ Head(rest) \in Chars /\ Tail(rest) \in Seq(Chars) /\ Head(rest) = rest[1]
      /\ Tail(rest) # <<>> => Last(Tail(rest)) = Last(rest)
      /\ Len(Tail(rest)) = Len(rest) - 1 /\ Len(rest) \in Nat
  BY <1>1, TailShape
<1>3. ASSUME Tail(rest) = <<>> PROVE Head(rest) = NewLine
  <2>1. Len(rest) = 1
    <3>1. Len(Tail(rest)) = 0
      BY <1>2, <1>3, EmptyOrLonger
    <3> DEFINE a == Len(Tail(rest))
               b == Len(rest)
    <3>2. a = b - 1 /\ b \in Nat
      BY <1>2
    <3> HIDE DEF a, b
    <3>3. a = 0
      BY <3>1 DEF a
    <3>4. b = 1
      BY <3>2, <3>3
    <3> QED  BY <3>4 DEF b
  <2> QED  BY <1>1, <1>2, <2>1 DEF Last
<1>4. /\ Broken(width, Head(rest)) \in Seq(Chars)
      /\ Grown(width, Head(rest)) \in 0 .. WIDTH - 1
      /\ Grown(width, Head(rest)) >= CharWidth[Head(rest)]
      /\ CharWidth[Head(rest)] \in Nat
  <2>1. /\ Broken(width, Head(rest)) \in Seq(Chars)
        /\ Grown(width, Head(rest)) \in 0 .. WIDTH - 1
        /\ Grown(width, Head(rest)) >= CharWidth[Head(rest)]
    BY <1>1, <1>2, PieceTyped
  <2> QED  BY <1>2, <2>1, Widths
<1>5. CharWidth[Head(rest)] <= Grown(width, Head(rest))
  <2>1. Grown(width, Head(rest)) \in Int
    BY <1>4, Widths
  <2> QED  BY <1>4, <2>1
<1> QED  BY <1>1, <1>2, <1>3, <1>4, <1>5

(* The four steps of the inner loop of scroll. *)
Pops == TestEmpty \/ ReadFront \/ PopFront \/ PopEmpty

LEMMA PopsRest ==
  ASSUME Pops
  PROVE  /\ pc \in Popping /\ pc' \in {"scroll"} \cup Popping
         /\ UNCHANGED <<part, picture, rest, width, asked, goal, spliced>>
<1>1. CASE TestEmpty
  BY <1>1 DEF TestEmpty, GoTo, locals, NoHistory, Popping
<1>2. CASE ReadFront
  BY <1>2 DEF ReadFront, GoTo, locals, NoHistory, Popping
<1>3. CASE PopFront
  BY <1>3 DEF PopFront, GoTo, locals, Popping
<1>4. CASE PopEmpty
  BY <1>4 DEF PopEmpty, locals, NoHistory, Popping
<1> QED  BY <1>1, <1>2, <1>3, <1>4 DEF Pops

(* Where they lead, and with which character. *)
LEMMA PopsOn ==
  ASSUME Pops
  PROVE  /\ UNCHANGED torn
         /\ pc' = "drop" /\ text_buffer # <<>> =>
              UNCHANGED text_buffer /\ front' = Head(text_buffer)
         /\ pc = "drop" /\ text_buffer # <<>> =>
              pc' = IF front = NewLine THEN "scroll" ELSE "pop"
<1>1. CASE TestEmpty
  BY <1>1 DEF TestEmpty, GoTo, scrolling
<1>2. CASE ReadFront
  BY <1>2 DEF ReadFront, GoTo, NoText
<1>3. CASE PopFront
  BY <1>3 DEF PopFront, GoTo
<1>4. CASE PopEmpty
  BY <1>4 DEF PopEmpty
<1> QED  BY <1>1, <1>2, <1>3, <1>4 DEF Pops

(* The text stays, or loses its first character. *)
LEMMA PopsText ==
  ASSUME TypeOK, Pops
  PROVE  /\ \/ UNCHANGED text_buffer
            \/ pc = "drop" /\ text_buffer # <<>> /\ text_buffer' = Tail(text_buffer)
         /\ text_buffer' \in Seq(Chars) /\ buffer' \in [All -> Contents]
         /\ ink' \in {"console", "old"} /\ UNCHANGED <<behind, pen, staged>>
<1>1. CASE PopFront
  <2>1. pc = "drop" /\ text_buffer # <<>> /\ TextBecomes(Tail(text_buffer))
    BY <1>1 DEF PopFront, Popped
  <2>2. Tail(text_buffer) \in Seq(Chars)
    BY <2>1, HeldTypes, TailShape
  <2>3. /\ text_buffer' = Tail(text_buffer)
        /\ text_buffer' \in Seq(Chars) /\ buffer' \in [All -> Contents]
        /\ ink' \in {"console", "old"} /\ UNCHANGED <<behind, pen, staged>>
    BY <2>1, <2>2, TextBecomesTyped
  <2> QED  BY <2>1, <2>3
<1>2. CASE TestEmpty \/ ReadFront \/ PopEmpty
  <2>1. UNCHANGED <<text_buffer, ink, buffer, behind, pen, staged>>
    BY <1>2 DEF TestEmpty, ReadFront, PopEmpty, NoText, NoPixels, NoHistory
  <2> QED  BY <2>1, HeldTypes
<1> QED  BY <1>1, <1>2 DEF Pops

LEMMA PrintTypes ==
  ASSUME TypeOK, Locals,
         \/ \E m \in UsbTexts : BeginPrint(m)
         \/ Measure \/ Push \/ Scroll \/ Pops
  PROVE  Shaped' /\ Locals'
<1>1. ASSUME NEW m \in UsbTexts, BeginPrint(m) PROVE Shaped' /\ Locals'
  <2>1. /\ pc = "idle" /\ pc' = "measure" /\ pen' = "white" /\ rest' = Append(m, NewLine)
        /\ asked' = "console" /\ goal' = Printed(text_buffer, m)
        /\ UNCHANGED <<text_buffer, ink, buffer, behind, part, picture, width, staged, spliced>>
    BY <1>1 DEF BeginPrint, NoText
  <2>2. m \in Seq(Chars) /\ NewLine \in Chars
    BY Given, Widths
  <2>3. rest' \in Seq(Chars) /\ rest' # <<>> /\ Last(rest') = NewLine
    BY <2>1, <2>2, AppendProperties DEF Last
  <2>4. goal' \in Seq(Chars)
    BY <2>1, <2>2, HeldTypes, PrintedFits
  <2>5. part = 1 /\ width = 0
    BY <2>1 DEF Locals, Printing, Popping
  <2>6. Locals'
    BY <2>1, <2>3, <2>5 DEF Locals, Printing, Popping
  <2>7. Shaped'
    BY <2>1, <2>3, <2>4, HeldTypes DEF Shaped, Printing, Popping
  <2> QED  BY <2>6, <2>7
<1>2. CASE Measure
  <2>1. /\ pc = "measure" /\ pc' = "push" /\ width' = Grown(width, Head(rest))
        /\ TextBecomes(text_buffer \o Broken(width, Head(rest)))
        /\ UNCHANGED <<part, picture, rest, asked, goal, spliced>>
    BY <1>2 DEF Measure
  <2>2. pc \in Printing
    BY <2>1 DEF Printing, Popping
  <2>3. /\ Broken(width, Head(rest)) \in Seq(Chars)
        /\ Grown(width, Head(rest)) \in 0 .. WIDTH - 1
        /\ CharWidth[Head(rest)] <= Grown(width, Head(rest))
    BY <2>2, Taken
  <2>4. text_buffer \o Broken(width, Head(rest)) \in Seq(Chars)
    BY <2>3, HeldTypes, ConcatProperties
  <2>5. /\ text_buffer' \in Seq(Chars) /\ buffer' \in [All -> Contents] /\ ink' \in {"console", "old"}
        /\ UNCHANGED <<behind, pen, staged>>
    BY <2>1, <2>4, TextBecomesTyped
  <2>6. Locals'
    BY <2>1, <2>3 DEF Locals, Printing, Popping
  <2>7. Shaped'
    BY <2>1, <2>3, <2>5, HeldTypes DEF Shaped, Printing, Popping
  <2> QED  BY <2>6, <2>7
<1>3. CASE Push
  <2>1. /\ pc = "push" /\ pc' = "scroll" /\ TextBecomes(Append(text_buffer, Head(rest)))
        /\ UNCHANGED <<part, picture, rest, width, asked, goal, spliced>>
    BY <1>3 DEF Push, GoTo, Pushed, locals
  <2>2. pc \in Printing
    BY <2>1 DEF Printing, Popping
  <2>3. Append(text_buffer, Head(rest)) \in Seq(Chars)
    BY <2>2, Taken, HeldTypes, AppendProperties
  <2>4. /\ text_buffer' \in Seq(Chars) /\ buffer' \in [All -> Contents] /\ ink' \in {"console", "old"}
        /\ UNCHANGED <<behind, pen, staged>>
    BY <2>1, <2>3, TextBecomesTyped
  <2>5. Locals'
    BY <2>1 DEF Locals, Printing, Popping
  <2>6. Shaped'
    BY <2>1, <2>4, HeldTypes DEF Shaped, Printing, Popping
  <2> QED  BY <2>5, <2>6
<1>4. CASE Scroll
  <2>1. /\ pc = "scroll"
        /\ UNCHANGED <<text_buffer, ink, buffer, behind, pen, asked, goal, staged, spliced>>
    BY <1>4 DEF Scroll, NoText, NoPixels, NoHistory
  <2>2. CASE GoTo("pop")
    <3>1. pc' = "pop" /\ UNCHANGED <<part, picture, rest, width>>
      BY <2>2 DEF GoTo, locals
    <3>2. Locals'
      BY <2>1, <3>1 DEF Locals, Printing, Popping
    <3>3. Shaped'
      BY <2>1, <3>1, HeldTypes DEF Shaped, Printing, Popping
    <3> QED  BY <3>2, <3>3
  <2>3. CASE /\ rest' = Tail(rest) /\ pc' = IF rest' = <<>> THEN "copy" ELSE "measure"
             /\ UNCHANGED <<part, picture, width>>
    <3>1. Tail(rest) \in Seq(Chars) /\ (Tail(rest) # <<>> => Last(Tail(rest)) = NewLine)
      BY <2>1, Taken DEF Printing, Popping
    <3>2. part = 1
      BY <2>1 DEF Locals, Printing, Popping
    <3>3. Locals'
      BY <2>1, <2>3, <3>1, <3>2 DEF Locals, Printing, Popping
    <3>4. Shaped'
      BY <2>1, <2>3, <3>1, HeldTypes DEF Shaped, Printing, Popping, Drawing
    <3> QED  BY <3>3, <3>4
  <2> QED  BY <1>4, <2>2, <2>3 DEF Scroll
<1>5. CASE Pops
  <2>1. /\ pc \in Popping /\ pc' \in {"scroll"} \cup Popping
        /\ UNCHANGED <<part, picture, rest, width, asked, goal, spliced>>
    BY <1>5, PopsRest
  <2>2. /\ text_buffer' \in Seq(Chars) /\ buffer' \in [All -> Contents] /\ ink' \in {"console", "old"}
        /\ UNCHANGED <<behind, pen, staged>>
    BY <1>5, PopsText
  <2>4. Locals'
    BY <2>1 DEF Locals, Printing, Popping
  <2>5. Shaped'
    BY <2>1, <2>2, HeldTypes DEF Shaped, Printing, Popping
  <2> QED  BY <2>4, <2>5
<1> QED  BY <1>1, <1>2, <1>3, <1>4, <1>5

LEMMA RedrawTypes ==
  ASSUME TypeOK, Locals, Redraw \/ BlackPen \/ Clear \/ Draw
  PROVE  Shaped' /\ Locals'
<1>1. CASE Redraw
  <2>1. /\ pc = "copy" /\ pc' = "pen" /\ ink' = "console" /\ goal' = <<>> /\ width' = 0
        /\ UNCHANGED <<buffer, behind, pen, text_buffer, part, picture, rest, asked, staged, spliced>>
    BY <1>1 DEF Redraw, NoPixels
  <2>2. part = 1 /\ rest = <<>>
    BY <2>1 DEF Locals, Printing, Popping
  <2>3. Locals'
    BY <2>1, <2>2 DEF Locals, Printing, Popping
  <2>4. 0 \in 0 .. WIDTH - 1 /\ <<>> \in Seq(Chars)
    BY Widths, EmptySeq
  <2>5. Shaped'
    BY <2>1, <2>4, HeldTypes DEF Shaped, Drawing
  <2> QED  BY <2>3, <2>5
<1>2. CASE BlackPen
  <2>1. /\ pc = "pen" /\ pc' = "clear" /\ pen' = "black"
        /\ UNCHANGED <<part, picture, rest, width, text_buffer, ink, asked, goal, staged, spliced,
                       buffer, behind>>
    BY <1>2 DEF BlackPen, GoTo, NoText, NoHistory, locals
  <2>2. part = 1 /\ rest = <<>> /\ width = 0
    BY <2>1 DEF Locals, Printing, Popping
  <2>3. Locals'
    BY <2>1, <2>2 DEF Locals, Printing, Popping
  <2>4. Shaped'
    BY <2>1, HeldTypes DEF Shaped, Drawing
  <2> QED  BY <2>3, <2>4
<1>3. CASE Clear
  <2>1. /\ pc = "clear" /\ pc' = "draw" /\ pen' = "white" /\ Paint(All, Cleared)
        /\ UNCHANGED <<part, picture, rest, width, text_buffer, ink, asked, goal, staged, spliced>>
    BY <1>3 DEF Clear, GoTo, NoText, NoHistory, locals
  <2>2. part = 1 /\ rest = <<>> /\ width = 0
    BY <2>1 DEF Locals, Printing, Popping
  <2>3. Locals'
    BY <2>1, <2>2 DEF Locals, Printing, Popping
  <2>4. Cleared \in Contents /\ All \in SUBSET All
    BY DEF Cleared, Contents
  <2>5. buffer' \in [All -> Contents] /\ behind' \in SUBSET All
    BY <2>1, <2>4, PaintTyped
  <2>6. Shaped'
    BY <2>1, <2>5, HeldTypes DEF Shaped, Drawing
  <2> QED  BY <2>3, <2>6
<1>4. CASE Draw
  <2> DEFINE content == IF buffer[part] = "blank" \/ (ink = "console" /\ buffer[part] = ink)
                        THEN ink ELSE "mixed"
  <2>1. pc = "draw" /\ PaintPart(content) /\ UNCHANGED <<text_buffer, ink>>
    BY <1>4 DEF Draw, NoText
  <2>2. content \in Contents
    BY HeldTypes DEF Contents
  <2> HIDE DEF content
  <2>3. /\ buffer' \in [All -> Contents] /\ behind' \in SUBSET All /\ part' \in All
        /\ UNCHANGED <<picture, rest, width, pen, asked, goal, spliced>>
        /\ part < Parts => part' = part + 1 /\ pc' = pc /\ staged' = staged
        /\ ~(part < Parts) => part = Parts /\ part' = 1 /\ pc' = "update" /\ staged' = FALSE
    BY <2>1, <2>2, PaintPartStep
  <2>4. pc' \in {"draw", "update"} /\ staged' \in BOOLEAN
    BY <2>1, <2>3, HeldTypes
  <2>5. rest = <<>> /\ width = 0
    BY <2>1 DEF Locals, Printing, Popping
  <2>6. Locals'
    BY <2>3, <2>4, <2>5 DEF Locals, Printing, Popping
  <2>7. Shaped'
    BY <2>1, <2>3, <2>4, HeldTypes DEF Shaped, Drawing
  <2> QED  BY <2>6, <2>7
<1> QED  BY <1>1, <1>2, <1>3, <1>4

(* Everything but Scroll and Pops leaves alone what scroll keeps. *)
LEMMA OtherScrolls ==
  ASSUME Foreground
  PROVE  \/ Scroll
         \/ Pops
         \/ UNCHANGED scrolling /\ pc \notin {"scroll"} \cup Popping /\ pc' \notin Popping
<1>1. ASSUME NEW p \in Pictures, handleData(p) \/ handleZippedData(p)
      PROVE  pc \notin {"scroll"} \cup Popping /\ pc' \notin Popping
  BY <1>1 DEF handleData, handleZippedData, Receive, Popping
<1>2. ASSUME NEW m \in UsbTexts, BeginPrint(m)
      PROVE  pc \notin {"scroll"} \cup Popping /\ pc' \notin Popping
  BY <1>2 DEF BeginPrint, Popping
<1>3. ASSUME NEW next, ForEachPart(next), next => pc' \notin Popping, pc \notin Popping
      PROVE  pc' \notin Popping
  BY <1>3 DEF ForEachPart
<1>4. /\ ToUpdate => pc' \notin Popping
      /\ Rest => pc' \notin Popping
  BY DEF ToUpdate, Rest, Popping
<1>5. ASSUME FillPart \/ Draw
      PROVE  pc \notin {"scroll"} \cup Popping /\ pc' \notin Popping
  <2>1. pc \notin {"scroll"} \cup Popping /\ ForEachPart(ToUpdate)
    BY <1>5 DEF FillPart, Draw, PaintPart, Popping
  <2> QED  BY <1>3, <1>4, <2>1
<1>6. ASSUME Update
      PROVE  pc \notin {"scroll"} \cup Popping /\ pc' \notin Popping
  <2>1. pc \notin {"scroll"} \cup Popping /\ ForEachPart(Rest)
    BY <1>6 DEF Update, Popping
  <2> QED  BY <1>3, <1>4, <2>1
<1>7. ASSUME GiveUp
      PROVE  pc \notin {"scroll"} \cup Popping /\ pc' \notin Popping
  BY <1>4, <1>7 DEF GiveUp, Popping
<1>8. ASSUME Measure \/ Push \/ Redraw \/ BlackPen \/ Clear
      PROVE  pc \notin {"scroll"} \cup Popping /\ pc' \notin Popping
  BY <1>8 DEF Measure, Push, Redraw, BlackPen, Clear, GoTo, Popping
<1> QED  BY <1>1, <1>2, <1>5, <1>6, <1>7, <1>8 DEF Foreground, Pops

LEMMA PrintBySome ==
  ASSUME TypeOK, NEW t, Printable(t)
  PROVE  t # <<>>
<1>1. text_buffer \in Seq(Chars) /\ \A m \in TcpTexts : m \in Seq(Chars)
  BY HeldTypes, Given
<1>2. ASSUME NEW m \in TcpTexts, t = Printed(text_buffer, m) PROVE t # <<>>
  BY <1>1, <1>2, PrintedSome
<1>3. ASSUME NEW m \in TcpTexts, NEW r \in TcpTexts, t = Printed(Printed(text_buffer, r), m)
      PROVE  t # <<>>
  <2>1. Printed(text_buffer, r) \in Seq(Chars)
    BY <1>1, PrintedFits
  <2> QED  BY <1>1, <1>3, <2>1, PrintedSome
<1> QED  BY <1>2, <1>3 DEF Printable

LEMMA ForegroundScrolls ==
  ASSUME TypeOK, Scrolls, Foreground
  PROVE  Scrolls'
<1>0. NewLine \in Chars /\ text_buffer \in Seq(Chars)
  BY Widths, HeldTypes
<1>1. CASE UNCHANGED scrolling /\ pc \notin {"scroll"} \cup Popping /\ pc' \notin Popping
  <2>1. UNCHANGED <<front, torn, wild, cleared>>
    BY <1>1 DEF scrolling
  <2>2. ~torn /\ ~wild
    BY <1>1 DEF Scrolls, Popping
  <2> QED  BY <1>1, <2>1, <2>2 DEF Scrolls, Popping
<1>2. CASE Scroll
  <2>1. /\ pc = "scroll" /\ pc' \in {"pop", "copy", "measure"}
        /\ torn' = FALSE /\ UNCHANGED <<front, wild, cleared>>
    BY <1>2 DEF Scroll, GoTo
  <2> QED  BY <2>1 DEF Scrolls
<1>3. CASE TestEmpty
  <2>1. /\ pc = "pop" /\ pc' = (IF text_buffer = <<>> THEN "scroll" ELSE "front")
        /\ UNCHANGED <<front, torn, wild, cleared, text_buffer>>
    BY <1>3 DEF TestEmpty, GoTo, NoText, scrolling
  <2> QED  BY <2>1 DEF Scrolls
<1>4. CASE ReadFront
  <2>1. /\ pc = "front" /\ pc' = "drop" /\ UNCHANGED <<torn, wild, cleared, text_buffer>>
        /\ front' \in IF text_buffer = <<>> THEN Chars ELSE {Head(text_buffer)}
    BY <1>4 DEF ReadFront, GoTo, NoText
  <2>2. front' \in Chars
    BY <1>0, <2>1, TailShape
  <2> QED  BY <2>1, <2>2 DEF Scrolls
<1>5. CASE PopFront
  <2>1. /\ pc = "drop" /\ text_buffer # <<>> /\ pc' \in {"scroll", "pop"}
        /\ front' = NewLine /\ cleared' = FALSE /\ UNCHANGED <<torn, wild>>
    BY <1>5 DEF PopFront, GoTo
  <2>2. wild \in BOOLEAN /\ ~torn
    BY <2>1 DEF Scrolls
  <2>3. ~wild
    BY <2>1 DEF Scrolls
  <2> QED  BY <1>0, <2>1, <2>2, <2>3 DEF Scrolls
<1>6. CASE PopEmpty
  <2>1. /\ pc = "drop" /\ text_buffer = <<>> /\ wild' = TRUE
        /\ UNCHANGED <<pc, text_buffer, front, torn, cleared>>
    BY <1>6 DEF PopEmpty, NoText
  <2> QED  BY <2>1 DEF Scrolls
<1> QED  BY <1>1, <1>2, <1>3, <1>4, <1>5, <1>6, OtherScrolls DEF Pops

LEMMA CallbackScrolls ==
  ASSUME TypeOK, Locals, Scrolls, Interrupt
  PROVE  Scrolls'
<1>0. UNCHANGED pc /\ ~wild
  BY CallbackTypes DEF Interrupt
<1>1. ASSUME NEW t \in Seq(Chars), FitsPanel(t), Shown(t), cleared' \in BOOLEAN,
             t = <<>> => (pc \in {"front", "drop"} => cleared')
      PROVE  Scrolls'
  <2>1. text_buffer' = t /\ torn' = (pc = "scroll") /\ UNCHANGED <<front, wild>>
    BY <1>1 DEF Shown, Callback
  <2> QED  BY <1>0, <1>1, <2>1 DEF Scrolls
<1>2. ASSUME UNCHANGED <<text_buffer, front, torn, wild, cleared>> PROVE Scrolls'
  BY <1>0, <1>2 DEF Scrolls
<1>3. ASSUME NEW p \in Pictures, NEW n \in All, NEW shown \in BOOLEAN, process_data(p, n, shown)
      PROVE  Scrolls'
  BY <1>2, <1>3 DEF process_data, NoText, Callback
<1>4. ASSUME NEW t, Printable(t), PrintBy(t) PROVE Scrolls'
  <2>1. Shown(t) /\ cleared' = FALSE
    BY <1>4 DEF PrintBy
  <2>2. t \in Seq(Chars) /\ FitsPanel(t) /\ t # <<>>
    BY <1>4, PrintableTyped, PrintBySome
  <2> QED  BY <1>1, <2>1, <2>2
<1>5. CASE ClearScreen
  <2>1. Shown(<<>>) /\ cleared' = (pc \in {"front", "drop"})
    BY <1>5 DEF ClearScreen
  <2>2. <<>> \in Seq(Chars) /\ FitsPanel(<<>>)
    BY EmptySeq, Nothing
  <2>3. CASE pc \in {"front", "drop"}
    <3>1. cleared' = TRUE
      BY <2>1, <2>3
    <3> QED  BY <1>1, <2>1, <2>2, <3>1
  <2>4. CASE pc \notin {"front", "drop"}
    <3>1. cleared' = FALSE
      <4>1. (pc \in {"front", "drop"}) = FALSE
        BY <2>4
      <4> QED  BY <2>1, <4>1
    <3> QED  BY <1>1, <2>1, <2>2, <2>4, <3>1
  <2> QED  BY <2>3, <2>4
<1>6. CASE Sync
  BY <1>2, <1>6 DEF Sync, NoText, Callback
<1> QED  BY <1>3, <1>4, <1>5, <1>6, Callbacks

LEMMA KeepsTypes ==
  ASSUME TypeOK, Scrolls, Locals, [Next]_vars
  PROVE  TypeOK' /\ Scrolls' /\ Locals'
<1>0. Shaped /\ Scrolls => TypeOK
  BY DEF Shaped, Scrolls, TypeOK
<1>1. Shaped' /\ Locals'
  <2>1. CASE Foreground
    BY <2>1, PictureTypes, PrintTypes, RedrawTypes DEF Foreground, Pops
  <2>2. CASE Interrupt
    BY <2>2, CallbackTypes
  <2>3. CASE UNCHANGED vars
    BY <2>3, HeldTypes DEF vars, Shaped, TypeOK, Locals
  <2> QED  BY <2>1, <2>2, <2>3 DEF Next
<1>2. Scrolls'
  <2>1. CASE Foreground
    BY <2>1, ForegroundScrolls
  <2>2. CASE Interrupt
    BY <2>2, CallbackScrolls
  <2>3. CASE UNCHANGED vars
    BY <2>3 DEF vars, Scrolls
  <2> QED  BY <2>1, <2>2, <2>3 DEF Next
<1>3. TypeOK'
  BY <1>1, <1>2 DEF Shaped, Scrolls, TypeOK
<1> QED  BY <1>1, <1>2, <1>3

-----------------------------------------------------------------------------
(* Neither update nor idle, and no picture: nothing to show yet. *)
LEMMA Elsewhere ==
  ASSUME pc' \notin {"fill", "inflate", "update", "idle", "pen", "clear", "draw"},
         asked' \notin Pictures,
         asked' = "console" => pc' \in Printing \cup Drawing
  PROVE  OnItsWay'
<1>1. PictureOnItsWay'
  BY DEF PictureOnItsWay
<1>2. TextOnItsWay'
  BY DEF TextOnItsWay
<1>3. NothingForgotten'
  BY DEF NothingForgotten
<1> QED  BY <1>1, <1>2, <1>3 DEF OnItsWay

LEMMA NotAPicture ==
  ASSUME PictureOnItsWay, pc \notin {"fill", "inflate", "update", "idle"}
  PROVE  asked \notin Pictures
  BY DEF PictureOnItsWay

LEMMA UpdateShows ==
  ASSUME TypeOK, Locals, OnItsWay, Update
  PROVE  OnItsWay'
<1>1. /\ pc = "update" /\ behind' = behind \ {part} /\ ForEachPart(Rest)
      /\ UNCHANGED <<text_buffer, ink, buffer, pen, asked, goal, staged, spliced>>
  BY DEF Update, NoText, NoHistory
<1>2. Rest \in BOOLEAN
  BY DEF Rest
<1>3. behind \in SUBSET All /\ part \in All /\ Parts \in Nat /\ All = 1 .. Parts
  BY HeldTypes, Given DEF All
<1>4. BehindAhead => \/ pc' = "update" /\ BehindAhead'
                     \/ pc' = "idle" /\ behind' = {}
  <2> SUFFICES ASSUME BehindAhead
               PROVE  \/ pc' = "update" /\ BehindAhead'
                      \/ pc' = "idle" /\ behind' = {}
    OBVIOUS
  <2>1. \A n \in behind : n \in 1 .. Parts /\ n >= part
    BY <1>3 DEF BehindAhead
  <2>2. CASE part < Parts
    <3>1. part' = part + 1 /\ pc' = pc
      BY <1>1, <1>2, <2>2, NextPart
    <3>2. \A n \in behind' : n >= part'
      BY <1>1, <1>3, <2>1, <3>1
    <3> QED  BY <1>1, <3>1, <3>2 DEF BehindAhead
  <2>3. CASE ~(part < Parts)
    <3>1. part = Parts /\ Rest
      BY <1>1, <1>2, <2>3, NextPart
    <3>2. behind' = {}
      <4>1. \A n \in behind : n = part
        BY <1>3, <2>1, <3>1
      <4> QED  BY <1>1, <4>1
    <3> QED  BY <3>1, <3>2, RestTyped
  <2> QED  BY <2>2, <2>3
<1>5. pc' \in {"update", "idle"}
  <2>1. CASE part < Parts
    BY <1>1, <1>2, <2>1, NextPart
  <2>2. CASE ~(part < Parts)
    BY <1>1, <1>2, <2>2, NextPart, RestTyped
  <2> QED  BY <2>1, <2>2
<1>6. \A x : AllAre(x) => AllAre(x)'
  BY <1>1 DEF AllAre
<1>7. PictureOnItsWay'
  <2> SUFFICES ASSUME asked \in Pictures PROVE PictureOnItsWay'
    BY <1>1 DEF PictureOnItsWay
  <2>1. AllAre(asked) /\ BehindAhead
    BY <1>1 DEF OnItsWay, PictureOnItsWay
  <2>2. AllAre(asked)'
    BY <1>1, <2>1 DEF AllAre
  <2> QED  BY <1>4, <2>1, <2>2 DEF PictureOnItsWay
<1>8. TextOnItsWay'
  <2> SUFFICES ASSUME asked = "console" PROVE TextOnItsWay'
    BY <1>1 DEF TextOnItsWay
  <2>1. AllAre("console") /\ BehindAhead
    BY <1>1 DEF OnItsWay, TextOnItsWay
  <2>2. AllAre("console")'
    BY <1>1, <2>1 DEF AllAre
  <2> QED  BY <1>4, <2>1, <2>2 DEF TextOnItsWay
<1>9. NothingForgotten'
  <2> SUFFICES ASSUME ~staged PROVE NothingForgotten'
    BY <1>1 DEF NothingForgotten
  <2>1. BehindAhead
    BY <1>1 DEF OnItsWay, NothingForgotten
  <2> QED  BY <1>4, <2>1 DEF NothingForgotten
<1> QED  BY <1>7, <1>8, <1>9 DEF OnItsWay

LEMMA PictureShows ==
  ASSUME TypeOK, Locals, OnItsWay,
         \/ \E p \in Pictures : handleData(p) \/ handleZippedData(p)
         \/ FillPart \/ GiveUp
  PROVE  OnItsWay'
<1>1. ASSUME NEW p \in Pictures, NEW step \in {"fill", "inflate"}, Receive(p, step)
      PROVE  OnItsWay'
  <2>1. /\ pc = "idle" /\ pc' = step /\ picture' = p /\ asked' = p /\ part' = part /\ part = 1
    BY <1>1 DEF Receive, Locals
  <2>2. \A n \in All : ~(n < part')
    BY <2>1 DEF All
  <2>3. PictureOnItsWay'
    BY <2>1, <2>2 DEF PictureOnItsWay
  <2>4. TextOnItsWay'
    BY <2>1, Given DEF TextOnItsWay
  <2>5. NothingForgotten'
    BY <2>1 DEF NothingForgotten
  <2> QED  BY <2>3, <2>4, <2>5 DEF OnItsWay
<1>2. ASSUME NEW p \in Pictures, handleData(p) \/ handleZippedData(p) PROVE OnItsWay'
  BY <1>1, <1>2 DEF handleData, handleZippedData
<1>3. CASE FillPart
  <2>1. pc \in {"fill", "inflate"} /\ PaintPart(picture)
    BY <1>3 DEF FillPart
  <2>2. picture \in Contents /\ part \in All
    BY <2>1, HeldTypes DEF Locals, Contents
  <2>3. /\ buffer' = [n \in All |-> IF n = part THEN picture ELSE buffer[n]]
        /\ behind' \in SUBSET All
        /\ UNCHANGED <<picture, asked>>
        /\ part < Parts => part' = part + 1 /\ pc' = pc /\ staged' = staged
        /\ ~(part < Parts) => part = Parts /\ part' = 1 /\ pc' = "update" /\ staged' = FALSE
    BY <2>1, <2>2, PaintPartStep
  <2>4. asked # "console"
    BY <2>1 DEF OnItsWay, TextOnItsWay, Printing, Popping, Drawing
  <2>5. \A n \in All : n \in Nat /\ n <= Parts /\ n >= 1
    BY Given DEF All
  <2>6. pc' = "update" => BehindAhead'
    <3> SUFFICES ASSUME pc' = "update" PROVE BehindAhead'
      OBVIOUS
    <3>1. part' = 1
      BY <2>1, <2>3
    <3> QED  BY <2>3, <2>5, <3>1 DEF BehindAhead
  <2>7. PictureOnItsWay'
    <3> SUFFICES ASSUME asked \in Pictures PROVE PictureOnItsWay'
      BY <2>3 DEF PictureOnItsWay
    <3>1. picture = asked /\ \A n \in All : n < part => buffer[n] = asked
      BY <2>1 DEF OnItsWay, PictureOnItsWay
    <3>2. \A n \in All : n < part + 1 => buffer'[n] = asked
      BY <2>2, <2>3, <2>5, <3>1
    <3>3. CASE part < Parts
      BY <2>1, <2>3, <3>1, <3>2, <3>3 DEF PictureOnItsWay
    <3>4. CASE ~(part < Parts)
      <4>1. AllAre(asked)'
        <5>1. \A n \in All : n < part + 1
          BY <2>3, <2>5, <3>4, Given
        <5> QED  BY <2>3, <3>2, <5>1 DEF AllAre
      <4> QED  BY <2>3, <2>6, <3>4, <4>1 DEF PictureOnItsWay
    <3> QED  BY <3>3, <3>4
  <2>8. TextOnItsWay'
    BY <2>3, <2>4 DEF TextOnItsWay
  <2>9. NothingForgotten'
    <3>1. pc' # "idle"
      BY <2>1, <2>3
    <3> QED  BY <2>6, <3>1 DEF NothingForgotten
  <2> QED  BY <2>7, <2>8, <2>9 DEF OnItsWay
<1>4. CASE GiveUp
  <2>1. pc' = "idle" /\ asked' = "none" /\ staged' = TRUE
    BY <1>4, RestTyped DEF GiveUp
  <2> QED  BY <2>1, Given DEF OnItsWay, PictureOnItsWay, TextOnItsWay, NothingForgotten
<1> QED  BY <1>2, <1>3, <1>4

LEMMA TextShows ==
  ASSUME TypeOK, Locals, OnItsWay,
         \/ \E m \in UsbTexts : BeginPrint(m)
         \/ Measure \/ Push \/ Scroll \/ Pops
         \/ Redraw \/ BlackPen \/ Clear \/ Draw
  PROVE  OnItsWay'
<1>0. PictureOnItsWay /\ TextOnItsWay /\ NothingForgotten
  BY DEF OnItsWay
<1>1. ASSUME NEW m \in UsbTexts, BeginPrint(m) PROVE OnItsWay'
  <2>1. pc' = "measure" /\ asked' = "console"
    BY <1>1 DEF BeginPrint
  <2> QED  BY <2>1, Given, Elsewhere DEF Printing, Popping
<1>2. CASE Measure \/ Push \/ Scroll \/ Pops
  <2>1. pc \in Printing /\ pc' \in Printing \cup {"copy"} /\ asked' = asked
    <3>1. CASE Measure
      BY <3>1 DEF Measure, Printing, Popping
    <3>2. CASE Push
      BY <3>2 DEF Push, GoTo, Printing, Popping
    <3>3. CASE Scroll
      BY <3>3 DEF Scroll, GoTo, NoHistory, Printing, Popping
    <3>4. CASE Pops
      BY <3>4, PopsRest DEF Printing, Popping
    <3> QED  BY <1>2, <3>1, <3>2, <3>3, <3>4
  <2>2. asked' \notin Pictures
    BY <1>0, <2>1, NotAPicture DEF Printing, Popping
  <2> QED  BY <2>1, <2>2, Elsewhere DEF Printing, Popping, Drawing
<1>3. CASE Redraw
  <2>1. pc = "copy" /\ pc' = "pen" /\ ink' = "console" /\ asked' = asked
    BY <1>3 DEF Redraw
  <2>2. asked' \notin Pictures
    BY <1>0, <2>1, NotAPicture
  <2> QED  BY <2>1, <2>2 DEF OnItsWay, PictureOnItsWay, TextOnItsWay, NothingForgotten, Drawing
<1>4. CASE BlackPen
  <2>1. pc = "pen" /\ pc' = "clear" /\ pen' = "black" /\ ink' = ink /\ asked' = asked
    BY <1>4 DEF BlackPen, GoTo, NoText, NoHistory
  <2>2. asked' \notin Pictures
    BY <1>0, <2>1, NotAPicture
  <2>3. asked = "console" => ink = "console"
    BY <1>0, <2>1 DEF TextOnItsWay
  <2> QED  BY <2>1, <2>2, <2>3
        DEF OnItsWay, PictureOnItsWay, TextOnItsWay, NothingForgotten, Drawing
<1>5. CASE Clear
  <2>1. pc = "clear" /\ pc' = "draw" /\ part' = part /\ part = 1 /\ ink' = ink /\ asked' = asked
    BY <1>5 DEF Clear, GoTo, NoText, NoHistory, locals, Locals
  <2>2. asked' \notin Pictures
    BY <1>0, <2>1, NotAPicture
  <2>3. asked = "console" => ink = "console" /\ \A n \in All : buffer'[n] = "blank"
    BY <1>0, <1>5, <2>1 DEF TextOnItsWay, Clear, Cleared, Paint
  <2>4. \A n \in All : ~(n < part')
    BY <2>1 DEF All
  <2>5. TextOnItsWay'
    BY <2>1, <2>3, <2>4 DEF TextOnItsWay, Drawing
  <2> QED  BY <2>1, <2>2, <2>5 DEF OnItsWay, PictureOnItsWay, NothingForgotten
<1>6. CASE Draw
  <2> DEFINE content == IF buffer[part] = "blank" \/ (ink = "console" /\ buffer[part] = ink)
                        THEN ink ELSE "mixed"
  <2>1. pc = "draw" /\ PaintPart(content) /\ UNCHANGED <<text_buffer, ink>>
    BY <1>6 DEF Draw, NoText
  <2>2. content \in Contents /\ part \in All
    BY HeldTypes DEF Contents
  <2>3. asked = "console" => content = "console"
    <3> SUFFICES ASSUME asked = "console" PROVE content = "console"
      OBVIOUS
    <3>1. ink = "console" /\ buffer[part] = IF part < part THEN "console" ELSE "blank"
      BY <1>0, <2>1, <2>2 DEF TextOnItsWay
    <3>2. ~(part < part)
      BY <2>2 DEF All
    <3> QED  BY <3>1, <3>2
  <2> HIDE DEF content
  <2>4. /\ buffer' = [n \in All |-> IF n = part THEN content ELSE buffer[n]]
        /\ behind' \in SUBSET All
        /\ UNCHANGED <<picture, asked>>
        /\ part < Parts => part' = part + 1 /\ pc' = pc /\ staged' = staged
        /\ ~(part < Parts) => part = Parts /\ part' = 1 /\ pc' = "update" /\ staged' = FALSE
    BY <2>1, <2>2, PaintPartStep
  <2>5. asked' \notin Pictures
    BY <1>0, <2>1, <2>4, NotAPicture
  <2>6. \A n \in All : n \in Nat /\ n <= Parts /\ n >= 1
    BY Given DEF All
  <2>7. pc' = "update" => BehindAhead'
    <3> SUFFICES ASSUME pc' = "update" PROVE BehindAhead'
      OBVIOUS
    <3>1. part' = 1
      BY <2>1, <2>4
    <3> QED  BY <2>4, <2>6, <3>1 DEF BehindAhead
  <2>8. TextOnItsWay'
    <3> SUFFICES ASSUME asked = "console" PROVE TextOnItsWay'
      BY <2>4 DEF TextOnItsWay
    <3>1. ink = "console" /\ \A n \in All : buffer[n] = IF n < part THEN "console" ELSE "blank"
      BY <1>0, <2>1 DEF TextOnItsWay
    <3>2. \A n \in All : buffer'[n] = IF n < part + 1 THEN "console" ELSE "blank"
      <4> SUFFICES ASSUME NEW n \in All
                   PROVE  buffer'[n] = IF n < part + 1 THEN "console" ELSE "blank"
        OBVIOUS
      <4>1. CASE n = part
        <5>1. n < part + 1
          BY <2>6, <4>1
        <5> QED  BY <2>3, <2>4, <4>1, <5>1
      <4>2. CASE n # part
        <5>1. n < part + 1 <=> n < part
          BY <2>2, <2>6, <4>2
        <5> QED  BY <2>4, <3>1, <4>2, <5>1
      <4> QED  BY <4>1, <4>2
    <3>3. CASE part < Parts
      BY <2>1, <2>4, <3>1, <3>2, <3>3 DEF TextOnItsWay, Drawing
    <3>4. CASE ~(part < Parts)
      <4>1. \A n \in All : n < part + 1
        BY <2>4, <2>6, <3>4, Given
      <4>2. AllAre("console")'
        BY <3>2, <4>1 DEF AllAre
      <4> QED  BY <2>4, <2>7, <3>4, <4>2 DEF TextOnItsWay
    <3> QED  BY <3>3, <3>4
  <2>9. pc' # "idle"
    BY <2>1, <2>4
  <2> QED  BY <2>5, <2>7, <2>8, <2>9 DEF OnItsWay, PictureOnItsWay, NothingForgotten
<1> QED  BY <1>1, <1>2, <1>3, <1>4, <1>5, <1>6

LEMMA CallbackShows ==
  ASSUME TypeOK, Locals, OnItsWay, Interrupt
  PROVE  OnItsWay'
<1>0. UNCHANGED <<pc, part, picture>>
  BY CallbackTypes
<1>1. ASSUME asked' = "none", behind' = {} \/ staged' = TRUE
      PROVE  OnItsWay'
  BY <1>1, Given DEF OnItsWay, PictureOnItsWay, TextOnItsWay, NothingForgotten, BehindAhead
<1>2. ASSUME NEW p \in Pictures, NEW n \in All, NEW shown \in BOOLEAN, process_data(p, n, shown)
      PROVE  OnItsWay'
  BY <1>1, <1>2 DEF process_data
<1>3. ASSUME NEW t, PrintBy(t) PROVE OnItsWay'
  BY <1>1, <1>3 DEF PrintBy, Shown
<1>4. CASE ClearScreen
  BY <1>1, <1>4 DEF ClearScreen, Shown
<1>5. CASE Sync
  <2>1. UNCHANGED <<buffer, pen, asked, ink>> /\ behind' = {}
    BY <1>5 DEF Sync, NoText
  <2>2. PictureOnItsWay'
    BY <1>0, <2>1 DEF OnItsWay, PictureOnItsWay, AllAre, BehindAhead
  <2>3. TextOnItsWay'
    BY <1>0, <2>1 DEF OnItsWay, TextOnItsWay, AllAre, BehindAhead
  <2>4. NothingForgotten'
    BY <2>1 DEF NothingForgotten, BehindAhead
  <2> QED  BY <2>2, <2>3, <2>4 DEF OnItsWay
<1> QED  BY <1>2, <1>3, <1>4, <1>5, Callbacks

LEMMA KeepsShowing ==
  ASSUME TypeOK, Locals, OnItsWay, [Next]_vars
  PROVE  OnItsWay'
<1>1. CASE Foreground
  BY <1>1, PictureShows, UpdateShows, TextShows DEF Foreground, Pops
<1>2. CASE Interrupt
  BY <1>2, CallbackShows
<1>3. CASE UNCHANGED vars
  BY <1>3 DEF vars, OnItsWay, PictureOnItsWay, TextOnItsWay, NothingForgotten, AllAre, BehindAhead
<1> QED  BY <1>1, <1>2, <1>3 DEF Next

-----------------------------------------------------------------------------
LEMMA Bounds ==
  ASSUME TypeOK
  PROVE  /\ Bound \in Int /\ 0 + WIDTH - 1 <= Bound /\ WIDTH \in Nat
         /\ spliced => Bound = 2 * (WIDTH - 1)
         /\ ~spliced => Bound = WIDTH - 1
         /\ text_buffer \in Seq(Chars) /\ width \in 0 .. WIDTH - 1
<1>1. WIDTH \in Nat /\ WIDTH >= 2 /\ spliced \in BOOLEAN
  BY Widths DEF TypeOK
<1> QED  BY <1>1, HeldTypes DEF Bound

(* Steps that leave the text alone and are no part of print. *)
LEMMA TextAlone ==
  ASSUME Texts, pc \notin Printing, pc' \notin Printing \cup {"copy"},
         UNCHANGED <<text_buffer, spliced>>
  PROVE  Texts'
<1>1. WholeLines'
  BY DEF Texts, WholeLines, Printing, Popping
<1>2. Measured'
  BY DEF Texts, Measured, Printing, Popping, Bound
<1>3. OnCourse'
  BY DEF OnCourse, Printing, Popping
<1> QED  BY <1>1, <1>2, <1>3 DEF Texts

LEMMA OtherText ==
  ASSUME TypeOK, Locals, Texts,
         \/ \E p \in Pictures : handleData(p) \/ handleZippedData(p)
         \/ FillPart \/ GiveUp \/ Update
         \/ Redraw \/ BlackPen \/ Clear \/ Draw
  PROVE  Texts'
<1>1. ASSUME NEW p \in Pictures, NEW step \in {"fill", "inflate"}, Receive(p, step) PROVE Texts'
  BY <1>1, TextAlone DEF Receive, NoText, Printing, Popping
<1>2. CASE \E p \in Pictures : handleData(p) \/ handleZippedData(p)
  BY <1>1, <1>2 DEF handleData, handleZippedData
<1>3. ASSUME NEW content \in Contents, pc \in {"fill", "inflate", "draw"}, PaintPart(content),
             UNCHANGED <<text_buffer, ink>>
      PROVE  Texts'
  <2>1. pc' \in {"fill", "inflate", "draw", "update"} /\ UNCHANGED spliced
    BY <1>3, PaintPartStep
  <2> QED  BY <1>3, <2>1, TextAlone DEF Printing, Popping
<1>4. CASE FillPart
  <2>1. pc \in {"fill", "inflate"} /\ PaintPart(picture) /\ UNCHANGED <<text_buffer, ink>>
    BY <1>4 DEF FillPart, NoText
  <2>2. picture \in Contents
    BY <2>1 DEF Locals, Contents
  <2> QED  BY <1>3, <2>1, <2>2
<1>5. CASE Draw
  <2> DEFINE content == IF buffer[part] = "blank" \/ (ink = "console" /\ buffer[part] = ink)
                        THEN ink ELSE "mixed"
  <2>1. pc = "draw" /\ PaintPart(content) /\ UNCHANGED <<text_buffer, ink>>
    BY <1>5 DEF Draw, NoText
  <2>2. content \in Contents
    BY HeldTypes DEF Contents
  <2> HIDE DEF content
  <2> QED  BY <1>3, <2>1, <2>2
<1>6. CASE GiveUp
  BY <1>6, RestTyped, TextAlone DEF GiveUp, NoText, Printing, Popping
<1>7. CASE Update
  <2>1. pc = "update" /\ ForEachPart(Rest) /\ UNCHANGED <<text_buffer, spliced>>
    BY <1>7 DEF Update, NoText, NoHistory
  <2>2. pc' \in {"update", "idle"}
    <3>1. Rest \in BOOLEAN
      BY DEF Rest
    <3>2. CASE part < Parts
      BY <2>1, <3>1, <3>2, NextPart
    <3>3. CASE ~(part < Parts)
      BY <2>1, <3>1, <3>3, NextPart, RestTyped
    <3> QED  BY <3>2, <3>3
  <2> QED  BY <2>1, <2>2, TextAlone DEF Printing, Popping
<1>8. CASE Redraw
  BY <1>8, TextAlone DEF Redraw, Printing, Popping
<1>9. CASE BlackPen
  BY <1>9, TextAlone DEF BlackPen, GoTo, NoText, NoHistory, Printing, Popping
<1>10. CASE Clear
  BY <1>10, TextAlone DEF Clear, GoTo, NoText, NoHistory, Printing, Popping
<1> QED  BY <1>2, <1>4, <1>5, <1>6, <1>7, <1>8, <1>9, <1>10

(* print begins behind a whole line, and is to add the whole message. *)
LEMMA BeginText ==
  ASSUME TypeOK, Locals, Texts, NEW m \in UsbTexts, BeginPrint(m)
  PROVE  Texts'
<1>1. /\ pc = "idle" /\ pc' = "measure" /\ rest' = Append(m, NewLine)
      /\ asked' = "console" /\ goal' = Printed(text_buffer, m)
      /\ UNCHANGED <<text_buffer, width, spliced>>
  BY DEF BeginPrint, NoText
<1>2. m \in Seq(Chars) /\ width = 0
  BY <1>1, Given DEF Locals, Printing, Popping
<1>3. text_buffer # <<>> => Last(text_buffer) = NewLine
  BY <1>1 DEF Texts, WholeLines, Printing, Popping, FitsPanel
<1>4. WholeLines'
  BY <1>1 DEF WholeLines, Printing, Popping
<1>5. Measured'
  <2>1. NoWider(text_buffer, Bound) /\ Bound' = Bound
    BY <1>1 DEF Texts, Measured, Bound
  <2>2. Trails(text_buffer, width)
    BY <1>3, HeldTypes, TrailsNothing
  <2> QED  BY <1>1, <2>1, <2>2 DEF Measured
<1>6. OnCourse'
  <2>1. Wrapped(m) \in Seq(Chars) /\ Follows(rest', width', Wrapped(m))
    BY <1>1, <1>2, WrappedTyped, FollowsStart
  <2>2. goal' = Scrolled(text_buffer' \o Wrapped(m))
    BY <1>1 DEF Printed
  <2> QED  BY <1>1, <2>1, <2>2 DEF OnCourse, Popping
<1> QED  BY <1>4, <1>5, <1>6 DEF Texts

LEMMA MeasureText ==
  ASSUME TypeOK, Locals, Texts, Measure
  PROVE  Texts'
<1> DEFINE c == Head(rest)
           br == Broken(width, c)
           g == Grown(width, c)
<1>1. /\ pc = "measure" /\ pc' = "push" /\ width' = g
      /\ text_buffer' = text_buffer \o br
      /\ UNCHANGED <<rest, asked, goal, spliced>>
  BY DEF Measure, TextBecomes
<1>2. /\ c \in Chars /\ br \in Seq(Chars) /\ g \in 0 .. WIDTH - 1 /\ rest # <<>>
      /\ rest \in Seq(Chars) /\ CharWidth[c] \in Nat /\ WIDTH \in Nat
  <2>1. c \in Chars /\ br \in Seq(Chars) /\ g \in 0 .. WIDTH - 1 /\ rest # <<>>
    BY <1>1, Taken DEF Printing, Popping
  <2> QED  BY <2>1, HeldTypes, Widths
<1>3. WholeLines'
  BY <1>1 DEF WholeLines, Printing, Popping
<1>4. Measured'
  <2>1. NoWider(text_buffer, Bound) /\ Trails(text_buffer, width)
    BY <1>1 DEF Texts, Measured
  <2> DEFINE e == 0
  <2>2. e \in Nat /\ e + WIDTH - 1 <= Bound /\ e + width = width /\ Bound \in Int
    BY Bounds
  <2>3. /\ NoWider(text_buffer \o br, Bound)
        /\ Trails(text_buffer \o br, e + g - CharWidth[c])
    <3> HIDE DEF e
    <3>1. Trails(text_buffer, e + width)
      BY <2>1, <2>2
    <3> QED  BY <1>2, <2>1, <2>2, <3>1, Bounds, BrokenNarrow
  <2>4. e + g - CharWidth[c] = g - CharWidth[c]
    BY <1>2
  <2>5. Bound' = Bound
    BY <1>1 DEF Bound
  <2> QED  BY <1>1, <2>3, <2>4, <2>5 DEF Measured, Popping
<1>5. OnCourse'
  <2> SUFFICES ASSUME asked = "console"
               PROVE  \E d \in Seq(Chars) :
                        /\ Follows(Tail(rest), g, d)
                        /\ goal = Scrolled(Append(text_buffer \o br, c) \o d)
    BY <1>1 DEF OnCourse, Popping
  <2>1. PICK b \in Seq(Chars) : Follows(rest, width, b) /\ goal = Scrolled(text_buffer \o b)
    BY <1>1 DEF Texts, OnCourse
  <2>2. PICK d \in Seq(Chars) : b = Piece(width, c) \o d /\ Follows(Tail(rest), g, d)
    BY <1>2, <2>1, FollowsStep
  <2>3. Append(text_buffer \o br, c) \o d = text_buffer \o b
    <3> DEFINE p == Piece(width, c)
               t == text_buffer
    <3>1. p \in Seq(Chars) /\ t \in Seq(Chars)
      BY <1>2, HeldTypes, PieceTyped
    <3>2. t \o br \in Seq(Chars)
      BY <1>2, <3>1, ConcatProperties
    <3>3. Append(t \o br, c) = t \o p
      <4>1. Append(br, c) = br \o <<c>> /\ Append(t \o br, c) = (t \o br) \o <<c>>
        BY <1>2, <3>2, AppendIsConcat
      <4>2. <<c>> \in Seq(Chars)
        BY <1>2
      <4>3. (t \o br) \o <<c>> = t \o (br \o <<c>>)
        <5> DEFINE x == <<c>>
        <5>1. t \in Seq(Chars) /\ br \in Seq(Chars) /\ x \in Seq(Chars)
          BY <1>2, <3>1, <4>2
        <5> HIDE DEF t, br, x
        <5>2. (t \o br) \o x = t \o (br \o x)
          BY <5>1, Regroup, SMTT(30)
        <5> QED  BY <5>2 DEF x
      <4> QED  BY <4>1, <4>3 DEF Piece
    <3>4. (t \o p) \o d = t \o (p \o d)
      <4> HIDE DEF t, p
      <4> QED  BY <3>1, Regroup
    <3> QED  BY <2>2, <3>3, <3>4
  <2> QED  BY <2>1, <2>2, <2>3
<1> QED  BY <1>3, <1>4, <1>5 DEF Texts

LEMMA PushText ==
  ASSUME TypeOK, Scrolls, Locals, Texts, Push, UNCHANGED torn
  PROVE  Texts'
<1> DEFINE c == Head(rest)
<1>1. /\ pc = "push" /\ pc' = "scroll"
      /\ text_buffer' = Append(text_buffer, c)
      /\ UNCHANGED <<rest, width, asked, goal, spliced>>
  BY DEF Push, TextBecomes, Pushed, GoTo, locals
<1>2. /\ c \in Chars /\ CharWidth[c] <= width /\ text_buffer \in Seq(Chars)
      /\ CharWidth[c] \in Nat /\ WIDTH \in Nat /\ width \in 0 .. WIDTH - 1
  <2>1. c \in Chars
    BY <1>1, Taken DEF Printing, Popping
  <2>2. CharWidth[c] <= width
    BY <1>1 DEF Locals
  <2> QED  BY <2>1, <2>2, HeldTypes, Widths
<1>3. WholeLines'
  <2>1. Last(text_buffer') = Head(rest')
    <3>1. /\ Len(Append(text_buffer, c)) = Len(text_buffer) + 1
          /\ Append(text_buffer, c)[Len(text_buffer) + 1] = c
      BY <1>2, AppendProperties
    <3> QED  BY <1>1, <3>1 DEF Last
  <2> QED  BY <1>1, <2>1 DEF WholeLines, Printing, Popping
<1>4. Measured'
  <2>1. NoWider(text_buffer, Bound) /\ Trails(text_buffer, width - CharWidth[c])
    BY <1>1 DEF Texts, Measured
  <2> DEFINE e == 0
  <2>2. /\ e \in Nat /\ e + WIDTH - 1 <= Bound /\ e + width = width /\ Bound \in Int
        /\ e + width - CharWidth[c] = width - CharWidth[c]
    BY <1>2, Bounds
  <2>3. NoWider(Append(text_buffer, c), Bound) /\ Trails(Append(text_buffer, c), e + width)
    <3> HIDE DEF e
    <3>1. Trails(text_buffer, e + width - CharWidth[c])
      BY <2>1, <2>2
    <3> QED  BY <1>2, <2>1, <2>2, <3>1, PushNarrow
  <2>4. Bound' = Bound
    BY <1>1 DEF Bound
  <2> QED  BY <1>1, <2>2, <2>3, <2>4 DEF Measured
<1>5. OnCourse'
  <2>1. ~torn'
    BY <1>1 DEF Scrolls
  <2> QED  BY <1>1, <2>1 DEF Texts, OnCourse, Popping
<1> QED  BY <1>3, <1>4, <1>5 DEF Texts

LEMMA ScrollText ==
  ASSUME TypeOK, Scrolls, Locals, Texts, Scroll
  PROVE  Texts'
<1>1. pc = "scroll" /\ UNCHANGED <<text_buffer, asked, goal, spliced, width>>
  BY DEF Scroll, GoTo, NoText, NoHistory, locals
<1>2. /\ NoWider(text_buffer, Bound)' /\ Trails(text_buffer, width)'
  BY <1>1 DEF Texts, Measured, Bound
<1>3. CASE (TooMany \/ torn) /\ GoTo("pop")
  <2>1. pc' = "pop" /\ rest' = rest
    BY <1>3 DEF GoTo, locals
  <2>2. WholeLines'
    BY <1>1, <2>1 DEF Texts, WholeLines, Printing, Popping
  <2>3. Measured'
    BY <1>2, <2>1 DEF Measured
  <2>4. OnCourse'
    <3> SUFFICES ASSUME asked = "console" PROVE OnCourse'
      BY <1>1 DEF OnCourse
    <3>1. /\ ~torn
          /\ \E b \in Seq(Chars) : /\ Follows(Tail(rest), width, b)
                                   /\ goal = Scrolled(text_buffer \o b)
      BY <1>1 DEF Texts, OnCourse
    <3>2. line_count(text_buffer) > MAX_LINES
      BY <1>3, <3>1 DEF TooMany
    <3> QED  BY <1>1, <2>1, <3>1, <3>2 DEF OnCourse
  <2> QED  BY <2>2, <2>3, <2>4 DEF Texts
<1>4. CASE /\ ~TooMany \/ torn
           /\ rest' = Tail(rest)
           /\ pc' = IF rest' = <<>> THEN "copy" ELSE "measure"
  <2>1. line_count(text_buffer) <= MAX_LINES
    <3>1. line_count(text_buffer) \in Nat /\ MAX_LINES \in Nat
      BY HeldTypes, CountTyped, Widths
    <3>2. CASE ~TooMany
      BY <3>1, <3>2 DEF TooMany
    <3>3. CASE torn
      BY <3>3 DEF Scrolls, FitsPanel
    <3> QED  BY <1>4, <3>2, <3>3
  <2>2. WholeLines'
    <3> SUFFICES ASSUME rest' = <<>> PROVE FitsPanel(text_buffer)
      BY <1>1, <1>4 DEF WholeLines, Printing, Popping
    <3>1. Head(rest) = NewLine
      BY <1>1, <1>4, Taken DEF Printing, Popping
    <3>2. text_buffer # <<>> => Last(text_buffer) = NewLine
      BY <1>1, <3>1 DEF Texts, WholeLines
    <3> QED  BY <2>1, <3>2 DEF FitsPanel
  <2>3. Measured'
    BY <1>2, <1>4 DEF Measured
  <2>4. OnCourse'
    <3> SUFFICES ASSUME asked = "console" PROVE OnCourse'
      BY <1>1 DEF OnCourse
    <3>1. PICK b \in Seq(Chars) : /\ Follows(Tail(rest), width, b)
                                  /\ goal = Scrolled(text_buffer \o b)
      BY <1>1 DEF Texts, OnCourse
    <3>2. CASE rest' = <<>>
      <4>1. b = <<>>
        <5>1. Follows(<<>>, width, b)
          BY <1>4, <3>1, <3>2
        <5> QED  BY <5>1, FollowsEnd
      <4>2. text_buffer \o b = text_buffer
        BY <4>1, HeldTypes, ConcatEmptySeq
      <4>3. goal = text_buffer
        BY <2>1, <3>1, <4>2, HeldTypes, ScrolledShort
      <4> QED  BY <1>1, <1>4, <3>2, <4>3 DEF OnCourse, Popping
    <3>3. CASE rest' # <<>>
      BY <1>1, <1>4, <3>1, <3>3 DEF OnCourse, Popping
    <3> QED  BY <3>2, <3>3
  <2> QED  BY <2>2, <2>3, <2>4 DEF Texts
<1> QED  BY <1>3, <1>4 DEF Scroll

(* A character goes; if it was the newline, that line is gone. *)
LEMMA PopText ==
  ASSUME TypeOK, Scrolls, Locals, Texts, Pops
  PROVE  Texts'
<1>1. /\ pc \in Popping /\ pc' \in {"scroll"} \cup Popping
      /\ UNCHANGED <<rest, width, asked, goal, spliced>>
  BY PopsRest
<1>2. \/ UNCHANGED text_buffer
      \/ pc = "drop" /\ text_buffer # <<>> /\ text_buffer' = Tail(text_buffer)
  BY PopsText
<1>3. ASSUME text_buffer # <<>>
      PROVE  /\ text_buffer \in Seq(Chars) /\ 1 \in 0 .. Len(text_buffer)
             /\ Tail(text_buffer) = From(text_buffer, 1) /\ Tail(text_buffer) \in Seq(Chars)
             /\ Tail(text_buffer) # <<>> => Last(Tail(text_buffer)) = Last(text_buffer)
  BY <1>3, HeldTypes, TailShape
<1>4. WholeLines'
  <2>1. text_buffer # <<>> => Last(text_buffer) \in {Head(rest), NewLine}
    BY <1>1 DEF Texts, WholeLines
  <2>2. pc' \in Printing
    BY <1>1 DEF Printing
  <2>3. text_buffer' # <<>> => Last(text_buffer') \in {Head(rest), NewLine}
    BY <1>2, <1>3, <2>1
  <2> QED  BY <1>1, <2>2, <2>3 DEF WholeLines
<1>5. Measured'
  <2>1. NoWider(text_buffer, Bound) /\ Trails(text_buffer, width)
    BY <1>1 DEF Texts, Measured
  <2>2. NoWider(text_buffer', Bound) /\ Trails(text_buffer', width)
    <3>1. CASE UNCHANGED text_buffer
      BY <2>1, <3>1
    <3>2. CASE text_buffer # <<>> /\ text_buffer' = Tail(text_buffer)
      <4>1. NoWider(Tail(text_buffer), Bound) /\ Trails(Tail(text_buffer), width)
        BY <1>3, <2>1, <3>2, FromNarrow
      <4> QED  BY <3>2, <4>1
    <3> QED  BY <1>2, <3>1, <3>2
  <2>3. Bound' = Bound
    BY <1>1 DEF Bound
  <2>4. pc' # "push"
    BY <1>1 DEF Popping
  <2> QED  BY <1>1, <2>2, <2>3, <2>4 DEF Measured
<1>6. OnCourse'
  <2> SUFFICES ASSUME asked = "console" PROVE OnCourse'
    BY <1>1 DEF OnCourse
  <2>1. /\ line_count(text_buffer) > MAX_LINES
        /\ pc = "drop" => text_buffer # <<>> /\ front = Head(text_buffer)
    BY <1>1 DEF Texts, OnCourse
  <2>2. PICK b \in Seq(Chars) : /\ Follows(Tail(rest), width, b)
                                /\ goal = Scrolled(text_buffer \o b)
    BY <1>1 DEF Texts, OnCourse
  <2>3. text_buffer # <<>>
    <3>1. text_buffer = <<>> => line_count(text_buffer) <= MAX_LINES
      BY Nothing DEF FitsPanel
    <3>2. line_count(text_buffer) \in Nat /\ MAX_LINES \in Nat
      BY HeldTypes, CountTyped, Widths
    <3> QED  BY <2>1, <3>1, <3>2
  <2>4. ASSUME text_buffer' = Tail(text_buffer)
        PROVE  goal = Scrolled(text_buffer' \o b)
    <3> DEFINE u == text_buffer \o b
    <3>1. u \in Seq(Chars) /\ line_count(text_buffer) <= line_count(u)
      BY <1>3, <2>3, ConcatProperties, CountConcat
    <3>2. Tail(u) = Tail(text_buffer) \o b
      BY <1>3, <2>3, TailConcat
    <3> HIDE DEF u
    <3>3. /\ line_count(u) \in Nat /\ line_count(text_buffer) \in Nat /\ MAX_LINES \in Nat
      BY <1>3, <2>3, <3>1, CountTyped, Widths
    <3>4. line_count(u) > MAX_LINES
      BY <2>1, <3>1, <3>3
    <3>5. Scrolled(Tail(u)) = Scrolled(u)
      BY <3>1, <3>4, ScrolledTail
    <3>6. goal = Scrolled(u)
      BY <2>2 DEF u
    <3> QED  BY <2>4, <3>2, <3>5, <3>6
  <2>5. goal = Scrolled(text_buffer' \o b)
    BY <1>2, <2>2, <2>4
  <2>6. pc' = "scroll" => ~torn'
    BY <1>1, PopsOn DEF Scrolls, Popping
  <2>7. pc' \in Popping => line_count(text_buffer') > MAX_LINES
    <3> SUFFICES ASSUME pc' \in Popping PROVE line_count(text_buffer') > MAX_LINES
      OBVIOUS
    <3>1. CASE UNCHANGED text_buffer
      BY <2>1, <3>1
    <3>2. CASE pc = "drop" /\ text_buffer' = Tail(text_buffer)
      <4>1. front # NewLine
        BY <2>3, <3>2, PopsOn DEF Popping
      <4>2. Head(text_buffer) # NewLine
        BY <2>1, <3>2, <4>1
      <4>3. line_count(Tail(text_buffer)) = line_count(text_buffer)
        BY <1>3, <2>3, <4>2, CountTail
      <4> QED  BY <2>1, <3>2, <4>3
    <3> QED  BY <1>2, <3>1, <3>2
  <2>8. pc' = "drop" => text_buffer' # <<>> /\ front' = Head(text_buffer')
    BY <2>3, PopsOn
  <2> QED  BY <1>1, <2>2, <2>5, <2>6, <2>7, <2>8 DEF OnCourse, Popping
<1> QED  BY <1>4, <1>5, <1>6 DEF Texts

(* A line that print has begun is all that a callback can find open. *)
LEMMA OpenLine ==
  ASSUME TypeOK, Locals, Texts
  PROVE  /\ Trails(text_buffer, WIDTH - 1)
         /\ text_buffer = <<>> \/ Last(text_buffer) = NewLine => Trails(text_buffer, 0)
<1>1. text_buffer \in Seq(Chars) /\ width \in 0 .. WIDTH - 1 /\ WIDTH \in Nat
  BY Bounds
<1>2. text_buffer = <<>> \/ Last(text_buffer) = NewLine => \A w : Trails(text_buffer, w)
  BY <1>1, TrailsNothing
<1>3. CASE pc \notin Printing
  <2>1. text_buffer = <<>> \/ Last(text_buffer) = NewLine
    BY <1>3 DEF Texts, WholeLines, FitsPanel
  <2> QED  BY <1>2, <2>1
<1>4. CASE pc \in {"measure", "scroll"} \cup Popping
  <2>1. Trails(text_buffer, width)
    BY <1>4 DEF Texts, Measured
  <2>2. width \in Int /\ WIDTH - 1 \in Int /\ width <= WIDTH - 1
    BY <1>1
  <2> DEFINE b == WIDTH - 1
  <2> HIDE DEF b
  <2>3. b \in Int /\ width <= b
    BY <2>2 DEF b
  <2>4. Trails(text_buffer, b)
    BY <1>1, <2>1, <2>2, <2>3, Wider
  <2> QED  BY <1>2, <2>4 DEF b
<1>5. CASE pc = "push"
  <2> DEFINE a == width - CharWidth[Head(rest)]
             b == WIDTH - 1
  <2>1. Trails(text_buffer, a)
    BY <1>5 DEF Texts, Measured
  <2>2. CharWidth[Head(rest)] \in Nat
    BY <1>5, Taken, Widths DEF Printing, Popping
  <2>3. a \in Int /\ b \in Int /\ a <= b
    BY <1>1, <2>2
  <2> HIDE DEF a, b
  <2>4. Trails(text_buffer, b)
    BY <1>1, <2>1, <2>3, Wider
  <2> QED  BY <1>2, <2>4 DEF b
<1> QED  BY <1>3, <1>4, <1>5 DEF Printing, Popping

LEMMA ShownText ==
  ASSUME TypeOK, NEW t \in Seq(Chars), Shown(t), FitsPanel(t), NoWider(t, Bound')
  PROVE  Texts'
<1>1. text_buffer' = t /\ asked' = "none"
  BY ShownTyped
<1>2. text_buffer' # <<>> => Last(text_buffer') = NewLine
  BY <1>1 DEF FitsPanel
<1>3. WholeLines'
  BY <1>1, <1>2 DEF WholeLines
<1>4. \A w : Trails(t, w)
  BY <1>1, <1>2, TrailsNothing
<1>5. Measured'
  BY <1>1, <1>4 DEF Measured
<1>6. OnCourse'
  BY <1>1 DEF OnCourse
<1> QED  BY <1>3, <1>5, <1>6 DEF Texts

LEMMA PrintableNarrow ==
  ASSUME TypeOK, Locals, Texts, NEW t, Printable(t),
         spliced' = (spliced \/ (text_buffer # <<>> /\ Last(text_buffer) # NewLine))
  PROVE  NoWider(t, Bound')
<1> DEFINE open == text_buffer # <<>> /\ Last(text_buffer) # NewLine
           e == IF open THEN WIDTH - 1 ELSE 0
           zero == 0
           bound == Bound'
<1>1. /\ text_buffer \in Seq(Chars) /\ WIDTH \in Nat /\ WIDTH >= 2 /\ spliced \in BOOLEAN
      /\ Bound \in Int
  BY Bounds, HeldTypes, Widths
<1>2. bound = IF spliced' THEN 2 * (WIDTH - 1) ELSE WIDTH - 1
  BY DEF Bound
<1>3. /\ bound \in Int /\ Bound <= bound /\ e + WIDTH - 1 <= bound /\ e \in Nat
      /\ zero + WIDTH - 1 <= bound /\ zero \in Nat
  <2>1. WIDTH - 1 \in Nat /\ 2 * (WIDTH - 1) \in Nat /\ WIDTH - 1 <= 2 * (WIDTH - 1)
    BY <1>1
  <2>2. CASE open
    <3>1. spliced' /\ bound = 2 * (WIDTH - 1) /\ e = WIDTH - 1
      BY <1>2, <2>2
    <3>2. Bound <= bound
      BY <2>1, <3>1 DEF Bound
    <3> HIDE DEF bound, e
    <3> QED  BY <1>1, <2>1, <3>1, <3>2
  <2>3. CASE ~open
    <3>1. spliced' = spliced /\ e = 0
      BY <1>1, <2>3
    <3>2. bound = Bound
      BY <1>2, <3>1 DEF Bound
    <3>3. Bound \in {WIDTH - 1, 2 * (WIDTH - 1)}
      BY DEF Bound
    <3> HIDE DEF bound, e
    <3> QED  BY <1>1, <2>1, <3>1, <3>2, <3>3
  <2> QED  BY <2>2, <2>3
<1>4. NoWider(text_buffer, bound)
  <2>1. NoWider(text_buffer, Bound)
    BY DEF Texts, Measured
  <2> HIDE DEF bound
  <2> QED  BY <1>1, <1>3, <2>1, Wider
<1>5. Trails(text_buffer, e)
  BY OpenLine
<1> HIDE DEF bound, e, zero
<1>6. ASSUME NEW m \in TcpTexts
      PROVE  m \in Seq(Chars) /\ NoWider(Printed(text_buffer, m), bound)
  <2>1. m \in Seq(Chars)
    BY Given
  <2> QED  BY <1>1, <1>3, <1>4, <1>5, <2>1, PrintedNarrow
<1>7. ASSUME NEW m \in TcpTexts, NEW r \in TcpTexts
      PROVE  NoWider(Printed(Printed(text_buffer, r), m), bound)
  <2> DEFINE x == Printed(text_buffer, r)
  <2>1. x \in Seq(Chars) /\ FitsPanel(x)
    BY <1>1, <1>6, PrintedFits
  <2>2. NoWider(x, bound)
    BY <1>6
  <2>3. Trails(x, zero)
    <3>1. x # <<>> => Last(x) = NewLine
      BY <2>1 DEF FitsPanel
    <3> HIDE DEF x
    <3> QED  BY <2>1, <3>1, TrailsNothing
  <2> HIDE DEF x
  <2>4. m \in Seq(Chars)
    BY <1>6
  <2>5. NoWider(Printed(x, m), bound)
    BY <1>3, <2>1, <2>2, <2>3, <2>4, PrintedNarrow
  <2> QED  BY <2>5 DEF x
<1>8. NoWider(t, bound)
  BY <1>6, <1>7 DEF Printable
<1> QED  BY <1>8 DEF bound

LEMMA CallbackText ==
  ASSUME TypeOK, Locals, Texts, Interrupt
  PROVE  Texts'
<1>1. UNCHANGED <<pc, rest, width, goal>>
  BY CallbackTypes
<1>2. ASSUME UNCHANGED <<text_buffer, spliced, torn, front>>, asked' \in {asked, "none"}
      PROVE  Texts'
  <2>1. WholeLines'
    BY <1>1, <1>2 DEF Texts, WholeLines
  <2>2. Measured'
    BY <1>1, <1>2 DEF Texts, Measured, Bound
  <2>3. OnCourse'
    BY <1>1, <1>2 DEF Texts, OnCourse
  <2> QED  BY <2>1, <2>2, <2>3 DEF Texts
<1>3. ASSUME NEW p \in Pictures, NEW n \in All, NEW shown \in BOOLEAN, process_data(p, n, shown)
      PROVE  Texts'
  BY <1>2, <1>3 DEF process_data, NoText, Callback
<1>4. ASSUME NEW t, Printable(t), PrintBy(t) PROVE Texts'
  <2>1. /\ Shown(t)
        /\ spliced' = (spliced \/ (text_buffer # <<>> /\ Last(text_buffer) # NewLine))
    BY <1>4 DEF PrintBy
  <2>2. t \in Seq(Chars) /\ FitsPanel(t)
    BY <1>4, PrintableTyped
  <2>3. NoWider(t, Bound')
    BY <1>4, <2>1, PrintableNarrow
  <2> QED  BY <2>1, <2>2, <2>3, ShownText
<1>5. CASE ClearScreen
  <2>1. <<>> \in Seq(Chars) /\ Shown(<<>>)
    BY <1>5, EmptySeq DEF ClearScreen
  <2> QED  BY <2>1, Nothing, ShownText
<1>6. CASE Sync
  BY <1>2, <1>6 DEF Sync, NoText, Callback
<1> QED  BY <1>3, <1>4, <1>5, <1>6, Callbacks

LEMMA KeepsTexts ==
  ASSUME TypeOK, Scrolls, Locals, Texts, [Next]_vars
  PROVE  Texts'
<1>1. CASE Foreground
  BY <1>1, OtherText, BeginText, MeasureText, PushText, ScrollText, PopText DEF Foreground, Pops, scrolling
<1>2. CASE Interrupt
  BY <1>2, CallbackText
<1>3. CASE UNCHANGED vars
  <2>1. UNCHANGED <<text_buffer, pc, rest, width, asked, goal, spliced, torn, front>>
    BY <1>3 DEF vars
  <2>2. WholeLines'
    BY <2>1 DEF Texts, WholeLines
  <2>3. Measured'
    BY <2>1 DEF Texts, Measured, Bound
  <2>4. OnCourse'
    BY <2>1 DEF Texts, OnCourse
  <2> QED  BY <2>2, <2>3, <2>4 DEF Texts
<1> QED  BY <1>1, <1>2, <1>3 DEF Next

-----------------------------------------------------------------------------
LEMMA Begins ==
  ASSUME Init
  PROVE  IInv
<1>1. 0 \in 0 .. WIDTH - 1 /\ <<>> \in Seq(Chars)
  BY Widths, EmptySeq
<1>2. TypeOK
  BY <1>1, Given, Widths DEF Init, TypeOK, Contents
<1>3. Locals
  BY DEF Init, Locals, Printing, Popping
<1>6. Scrolls
  BY <1>2 DEF Init, TypeOK, Scrolls
<1>4. OnItsWay
  BY Given DEF Init, OnItsWay, PictureOnItsWay, TextOnItsWay, NothingForgotten
<1>5. Texts
  BY Nothing DEF Init, Texts, WholeLines, Measured, OnCourse, Printing, Popping
<1> QED  BY <1>2, <1>3, <1>4, <1>5, <1>6 DEF IInv

LEMMA Steady == Spec => []IInv
<1>1. Init => IInv
  BY Begins
<1>2. IInv /\ [Next]_vars => IInv'
  BY KeepsTypes, KeepsShowing, KeepsTexts DEF IInv
<1> QED  BY <1>1, <1>2, PTL DEF Spec

(* The state is what it was declared to be. *)
THEOREM TypeCorrect == Spec => []TypeOK
<1>1. IInv => TypeOK
  BY DEF IInv
<1> QED  BY <1>1, Steady, PTL

(* Whatever callbacks print, scroll or clear between two calls of print,   *)
(* the text that is drawn fits the panel.  Nothing is drawn any more once  *)
(* scroll has popped an empty deque.                                       *)
THEOREM TextAlwaysFits == Spec => []TextFits
<1>1. IInv => TextFits
  BY DEF IInv, Texts, WholeLines, TextFits
<1> QED  BY <1>1, Steady, PTL

(* Only a clear between test and pop makes scroll pop an empty deque.      *)
THEOREM PopsEmptyIfCleared == Spec => []EmptiedByClear
<1>1. IInv => EmptiedByClear
  BY DEF IInv, Scrolls, EmptiedByClear
<1> QED  BY <1>1, Steady, PTL

(* Lines are narrower than the panel; a callback that prints in the middle *)
(* of one makes it less than twice as wide.                                *)
THEOREM LinesAlwaysFit == Spec => []LinesFit
<1>1. IInv => LinesFit
  BY DEF IInv, Texts, Measured, LinesFit, Bound
<1> QED  BY <1>1, Steady, PTL

(* Scrolling after each character keeps what scrolling once would keep.    *)
THEOREM LastLinesAreKept == Spec => []KeepsLastLines
<1>1. IInv => KeepsLastLines
  BY DEF IInv, Texts, OnCourse, KeepsLastLines
<1> QED  BY <1>1, Steady, PTL

(* What USB asked for is on the panel when the foreground rests.           *)
THEOREM AskedIsShown == Spec => []ShowsWhatUsbAsked
<1>1. ASSUME IInv PROVE ShowsWhatUsbAsked
  <2> SUFFICES ASSUME pc = "idle", asked # "none"
               PROVE  behind = {} /\ \A n \in All : buffer[n] = asked
    BY DEF ShowsWhatUsbAsked
  <2>1. asked \in Pictures \/ asked = "console"
    BY <1>1, HeldTypes DEF IInv
  <2> QED  BY <1>1, <2>1 DEF IInv, OnItsWay, PictureOnItsWay, TextOnItsWay, AllAre
<1> QED  BY <1>1, Steady, PTL

(* So is whatever was written, unless its writer does not update.          *)
THEOREM RestIsShown == Spec => []ShownWhenIdle
<1>1. IInv => ShownWhenIdle
  BY DEF IInv, OnItsWay, NothingForgotten, ShownWhenIdle
<1> QED  BY <1>1, Steady, PTL
=============================================================================
