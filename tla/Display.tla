------------------------------- MODULE Display -------------------------------
(***************************************************************************)
(* The panel of src/matrix and everything that writes on it: the USB loop  *)
(* (the foreground) with pictures and with the text its commands print,    *)
(* and the callbacks of the TCP server and the multicast listener, which   *)
(* run to completion between any two steps of the foreground.              *)
(*                                                                         *)
(* The picture buffer has Parts parts, so that a writer can be in the      *)
(* middle of it.  A part holds a picture or text; of text the model says   *)
(* only whether it is what text_buffer says now ("console") or earlier     *)
(* ("old").  The panel shows what the buffer held when update last copied  *)
(* it: behind is where that is not what it holds now.                      *)
(*                                                                         *)
(* A call of front, push_back or pop_front on the deque of characters is a *)
(* single step, and callbacks come between the calls.  Popping an empty    *)
(* deque corrupts it: there the model stops.                               *)
(***************************************************************************)
EXTENDS TextConsole

CONSTANTS
  Parts,       \* parts of the picture buffer
  Pictures,
  UsbTexts,    \* what the USB commands print
  TcpTexts     \* what the callbacks print

ASSUME DisplayAssumption ==
  /\ Parts \in Nat \ {0}
  /\ Pictures \cap {"blank", "flood", "console", "old", "mixed", "none"} = {}
  /\ UsbTexts \cup TcpTexts \subseteq Seq(Chars)

VARIABLES
  text_buffer,
  buffer,      \* matrix::buffer
  behind,      \* the parts whose change the panel does not show
  pen,         \* the colour graphics draws with
  pc,          \* the step the foreground has reached
  part,        \* the part it is at
  picture,     \* the picture it is writing
  rest,        \* print: characters still to come
  width,       \* print: of temp_line
  front,       \* scroll: the character about to be popped, as it was read
  torn,        \* scroll: a callback changed the text while it was counted
  wild,        \* pop_front was called on an empty deque
  ink,         \* redraw: the copied text, as a part would hold it
  asked,       \* history: what USB last asked for, until a callback draws
  goal,        \* history: what the text should be when print has run
  staged,      \* history: the buffer was written and no update is to follow
  spliced,     \* history: a callback printed in the middle of a line
  cleared      \* history: the text was cleared since scroll found it not empty

vars == <<text_buffer, buffer, behind, pen, pc, part, picture, rest, width,
          front, torn, wild, ink, asked, goal, staged, spliced, cleared>>
locals == <<part, picture, rest, width>>
scrolling == <<front, torn, wild, cleared>>

All == 1 .. Parts
NoPicture == "none"
Contents == Pictures \cup {"blank", "flood", "console", "old", "mixed"}

Popping == {"pop", "front", "drop"}
Printing == {"measure", "push", "scroll"} \cup Popping
Drawing == {"copy", "pen", "clear", "draw"}

TypeOK ==
  /\ text_buffer \in Seq(Chars)
  /\ buffer \in [All -> Contents]
  /\ behind \subseteq All
  /\ pen \in {"black", "white"}
  /\ pc \in {"idle", "fill", "inflate", "update"} \cup Printing \cup Drawing
  /\ part \in All
  /\ picture \in Pictures \cup {NoPicture}
  /\ rest \in Seq(Chars)
  /\ width \in 0 .. WIDTH - 1
  /\ front \in Chars
  /\ torn \in BOOLEAN
  /\ wild \in BOOLEAN
  /\ ink \in {"console", "old"}
  /\ asked \in Pictures \cup {"console", "none"}
  /\ goal \in Seq(Chars)
  /\ staged \in BOOLEAN
  /\ spliced \in BOOLEAN
  /\ cleared \in BOOLEAN

Init ==
  /\ text_buffer = <<>>
  /\ buffer = [n \in All |-> "blank"]
  /\ behind = {}
  /\ pen = "white"
  /\ pc = "idle"
  /\ part = 1
  /\ picture = NoPicture
  /\ rest = <<>>
  /\ width = 0
  /\ front = NewLine
  /\ torn = FALSE
  /\ wild = FALSE
  /\ ink = "old"
  /\ asked = "none"
  /\ goal = <<>>
  /\ staged = FALSE
  /\ spliced = FALSE
  /\ cleared = FALSE

-----------------------------------------------------------------------------
(* Once text_buffer changes, text that was drawn from it is old. *)
Aged(content) ==
  IF content = "console" /\ text_buffer' # text_buffer THEN "old" ELSE content

TextBecomes(text) ==
  /\ text_buffer' = text
  /\ buffer' = [n \in All |-> Aged(buffer[n])]
  /\ ink' = Aged(ink)
  /\ UNCHANGED <<behind, pen, staged>>

Paint(parts, content) ==
  /\ buffer' = [n \in All |-> IF n \in parts THEN content ELSE buffer[n]]
  /\ behind' = behind \cup parts

NoPixels == UNCHANGED <<buffer, behind, pen>>
NoText == UNCHANGED <<text_buffer, ink>>
NoHistory == UNCHANGED <<asked, goal, staged, spliced>>

GoTo(step) == pc' = step /\ UNCHANGED locals

Rest ==
  /\ pc' = "idle"
  /\ part' = 1
  /\ picture' = NoPicture
  /\ rest' = <<>>
  /\ width' = 0

(* The same for each part, then go on. *)
ForEachPart(next) ==
  IF part < Parts
  THEN /\ part' = part + 1
       /\ UNCHANGED <<pc, picture, rest, width>>
  ELSE next

(* Mutant: what has been written is not copied to the panel. *)
ToUpdateNever == Rest

ToUpdate ==
  /\ pc' = "update"
  /\ part' = 1
  /\ UNCHANGED <<picture, rest, width>>

(* staged falls when an update is about to copy what has been written. *)
PaintPart(content) ==
  /\ Paint({part}, content)
  /\ ForEachPart(ToUpdate)
  /\ staged' = (staged /\ part < Parts)
  /\ UNCHANGED <<pen, asked, goal, spliced>>

-----------------------------------------------------------------------------
(* Pictures from USB.  handleData reads into the buffer, which getBytes    *)
(* has cleared; handleZippedData inflates into it.                         *)
Receive(p, step) ==
  /\ pc = "idle"
  /\ pc' = step
  /\ picture' = p
  /\ asked' = p
  /\ NoText
  /\ UNCHANGED <<pen, part, rest, width, goal, staged, spliced>>

handleData(p) ==
  /\ Receive(p, "fill")
  /\ Paint(All, "blank")

handleZippedData(p) ==
  /\ Receive(p, "inflate")
  /\ UNCHANGED <<buffer, behind>>

FillPart ==
  /\ pc \in {"fill", "inflate"}
  /\ PaintPart(picture)
  /\ NoText

(* The timer runs out, or zlib rejects the rest: nothing is updated and    *)
(* the buffer stays as it is.                                              *)
GiveUp ==
  /\ pc \in {"fill", "inflate"}
  /\ Rest
  /\ asked' = "none"
  /\ staged' = TRUE
  /\ NoText /\ NoPixels
  /\ UNCHANGED <<goal, spliced>>

(* update copies the buffer to the panel. *)
Update ==
  /\ pc = "update"
  /\ behind' = behind \ {part}
  /\ ForEachPart(Rest)
  /\ NoText /\ NoHistory
  /\ UNCHANGED <<buffer, pen>>

-----------------------------------------------------------------------------
(* print, as the foreground runs it. *)
BeginPrint(message) ==
  /\ pc = "idle"
  /\ pc' = "measure"
  /\ pen' = "white"
  /\ rest' = Append(message, NewLine)
  /\ asked' = "console"
  /\ goal' = Printed(text_buffer, message)
  /\ NoText
  /\ UNCHANGED <<buffer, behind, part, picture, width, staged, spliced>>

Measure ==
  /\ pc = "measure"
  /\ TextBecomes(text_buffer \o Broken(width, Head(rest)))
  /\ width' = Grown(width, Head(rest))
  /\ pc' = "push"
  /\ UNCHANGED <<part, picture, rest, asked, goal, spliced>>

(* Mutant: a character that fills the line is lost. *)
PushedUnlessFull ==
  IF width = WIDTH - 1 THEN text_buffer ELSE Append(text_buffer, Head(rest))

Pushed == Append(text_buffer, Head(rest))

Push ==
  /\ pc = "push"
  /\ TextBecomes(Pushed)
  /\ GoTo("scroll")
  /\ UNCHANGED <<asked, goal, spliced>>

(* Mutant: one line too many is allowed. *)
TooManyButOne == line_count(text_buffer) > MAX_LINES + 1

TooMany == line_count(text_buffer) > MAX_LINES

(* The test of the outer loop of scroll.  line_count walks over the text;  *)
(* if a callback changes it under the walk, the count may be anything.     *)
Scroll ==
  /\ pc = "scroll"
  /\ \/ (TooMany \/ torn) /\ GoTo("pop")
     \/ /\ ~TooMany \/ torn
        /\ rest' = Tail(rest)
        /\ pc' = IF rest' = <<>> THEN "copy" ELSE "measure"
        /\ UNCHANGED <<part, picture, width>>
  /\ torn' = FALSE
  /\ NoText /\ NoPixels /\ NoHistory
  /\ UNCHANGED <<front, wild, cleared>>

(* Mutant: the newline is seen but not taken. *)
PoppedToNewLine ==
  IF Head(text_buffer) = NewLine THEN text_buffer ELSE Tail(text_buffer)

Popped == Tail(text_buffer)

(* The inner loop: is there a character, which one, and off with it, as    *)
(* three calls.  front of an emptied deque reads whatever is there.        *)
TestEmpty ==
  /\ pc = "pop"
  /\ GoTo(IF text_buffer = <<>> THEN "scroll" ELSE "front")
  /\ NoText /\ NoPixels /\ NoHistory
  /\ UNCHANGED scrolling

ReadFront ==
  /\ pc = "front"
  /\ front' \in IF text_buffer = <<>> THEN Chars ELSE {Head(text_buffer)}
  /\ GoTo("drop")
  /\ NoText /\ NoPixels /\ NoHistory
  /\ UNCHANGED <<torn, wild, cleared>>

PopFront ==
  /\ pc = "drop"
  /\ text_buffer # <<>>
  /\ TextBecomes(Popped)
  /\ GoTo(IF front = NewLine THEN "scroll" ELSE "pop")
  /\ front' = NewLine
  /\ cleared' = FALSE
  /\ UNCHANGED <<torn, wild, asked, goal, spliced>>

PopEmpty ==
  /\ pc = "drop"
  /\ text_buffer = <<>>
  /\ wild' = TRUE
  /\ NoText /\ NoPixels /\ NoHistory
  /\ UNCHANGED <<pc, locals, front, torn, cleared>>

(* redraw copies the text, info clears the buffer, draws and updates.  A   *)
(* copy that a callback tears is old as well.                              *)
Redraw ==
  /\ pc = "copy"
  /\ ink' = "console"
  /\ goal' = <<>>
  /\ pc' = "pen"
  /\ width' = 0
  /\ NoPixels
  /\ UNCHANGED <<text_buffer, part, picture, rest, asked, staged, spliced>>

BlackPen ==
  /\ pc = "pen"
  /\ pen' = "black"
  /\ GoTo("clear")
  /\ NoText /\ NoHistory
  /\ UNCHANGED <<buffer, behind>>

(* Mutant: the pen is white when the buffer is cleared. *)
ClearedWhite == "flood"

Cleared == IF pen = "black" THEN "blank" ELSE "flood"

Clear ==
  /\ pc = "clear"
  /\ Paint(All, Cleared)
  /\ pen' = "white"
  /\ GoTo("draw")
  /\ NoText /\ NoHistory

(* Text over anything else than a blank, or itself, is a mixture. *)
Draw ==
  /\ pc = "draw"
  /\ PaintPart(IF buffer[part] = "blank" \/ (ink = "console" /\ buffer[part] = ink)
               THEN ink ELSE "mixed")
  /\ NoText

-----------------------------------------------------------------------------
(* The callbacks, whole calls: what they do to the text, scroll included,  *)
(* is Printed of TextConsole.                                                 *)
Callback == UNCHANGED <<pc, locals, goal, front, wild>>

(* process_data: an image may be shorter than the buffer.  data and zipd   *)
(* do not update, nor do zipd and szip when zlib rejects the body.         *)
process_data(p, parts, shown) ==
  /\ buffer' = [n \in All |-> IF n <= parts THEN p ELSE buffer[n]]
  /\ behind' = IF shown THEN {} ELSE behind \cup (1 .. parts)
  /\ staged' = ~shown
  /\ asked' = "none"
  /\ NoText /\ UNCHANGED <<pen, spliced, torn, cleared>>
  /\ Callback

(* What print and clearscreen leave behind when they are not interrupted. *)
Shown(text) ==
  /\ text_buffer' = text
  /\ buffer' = [n \in All |-> "console"]
  /\ behind' = {}
  /\ pen' = "white"
  /\ ink' = Aged(ink)
  /\ asked' = "none"
  /\ staged' = FALSE
  /\ torn' = (pc = "scroll")
  /\ Callback

PrintBy(text) ==
  /\ Shown(text)
  /\ spliced' = (spliced \/ (text_buffer # <<>> /\ Last(text_buffer) # NewLine))
  /\ cleared' = FALSE

(* The replies to kget, kset, kdel, ipv4, ipv6 and stor. *)
Reply(message) == PrintBy(Printed(text_buffer, message))

(* "dscv": one line, and a second one when the reply could be allocated. *)
Discovery(response) ==
  \E request \in TcpTexts : PrintBy(Printed(Printed(text_buffer, request), response))

ClearScreen ==
  /\ Shown(<<>>)
  /\ cleared' = (pc \in {"front", "drop"})
  /\ UNCHANGED spliced

(* "sync", by TCP or by multicast. *)
Sync ==
  /\ behind' = {}
  /\ staged' = FALSE
  /\ NoText /\ Callback
  /\ UNCHANGED <<buffer, pen, asked, spliced, torn, cleared>>

-----------------------------------------------------------------------------
Foreground ==
  \/ /\ \/ \E p \in Pictures : handleData(p) \/ handleZippedData(p)
        \/ \E m \in UsbTexts : BeginPrint(m)
        \/ FillPart \/ GiveUp \/ Update
        \/ Measure \/ Push \/ Redraw \/ BlackPen \/ Clear \/ Draw
     /\ UNCHANGED scrolling
  \/ Scroll \/ TestEmpty \/ ReadFront \/ PopFront \/ PopEmpty

Interrupt ==
  /\ ~wild
  /\ \/ \E p \in Pictures, n \in All, shown \in BOOLEAN : process_data(p, n, shown)
     \/ \E m \in TcpTexts : Reply(m) \/ Discovery(m)
     \/ ClearScreen \/ Sync

Next == Foreground \/ Interrupt

(* The USB loop never blocks: reads have timers. *)
Spec == Init /\ [][Next]_vars /\ WF_vars(Foreground)

-----------------------------------------------------------------------------
(* Text that is about to be drawn fits the panel from top to bottom, even  *)
(* if callbacks printed, scrolled or cleared while print was pushing,      *)
(* counting or popping characters, as long as pop_front found one.         *)
TextFits == pc \notin Printing => FitsPanel(text_buffer)

(* scroll pops an empty deque only if a callback cleared the screen after  *)
(* the test of matrix.cpp:102; callbacks that print and scroll leave       *)
(* something to pop.                                                       *)
EmptiedByClear == wild => cleared

(* A line is narrower than the panel, except that a callback may print in  *)
(* the middle of a line; even then it is not twice as wide.                *)
LinesFit ==
  NoWider(text_buffer, IF spliced THEN 2 * (WIDTH - 1) ELSE WIDTH - 1)

(* print, left alone, keeps the last lines of what was there and what it   *)
(* adds; scrolling after every character loses nothing.                    *)
KeepsLastLines == pc = "copy" /\ asked = "console" => text_buffer = goal

(* A picture or text that USB asked for is shown, all of it and nothing    *)
(* else, whatever mess was in the buffer before, unless a callback draws   *)
(* meanwhile.  A "sync" in the middle does not hurt.                       *)
ShowsWhatUsbAsked ==
  pc = "idle" /\ asked # "none" =>
    behind = {} /\ \A n \in All : buffer[n] = asked

(* When the foreground rests, the panel has been updated since the last    *)
(* write, unless that came from a writer that does not update.  Which      *)
(* writer's pixels those are is not said.                                  *)
ShownWhenIdle == pc = "idle" /\ ~staged => behind = {}

(* Scrolling and drawing end, however callbacks change the text meanwhile, *)
(* unless they never cease, or scroll pops an empty deque.                 *)
PrintEnds == []<>(pc = "idle") \/ []<><<Interrupt>>_vars \/ <>wild
=============================================================================
