------------------------------ MODULE UsbHandler ------------------------------
(***************************************************************************)
(* The USB side of the firmware, src/usb_handler: one loop that waits for  *)
(* a prefix on the serial line, reads a command and its arguments byte by  *)
(* byte with timeouts, executes it, and waits again.                       *)
(*                                                                         *)
(* The host writes frames, one behind the other if it likes.  It may also  *)
(* stop in the middle of one (killed, unplugged), and any timer of the     *)
(* device may run out before the next byte is there.  What a frame does    *)
(* once it is read is one effect, recorded in done.                        *)
(***************************************************************************)
EXTENDS Naturals, Sequences, SequencesExt

CONSTANTS
  Frames,           \* the frames the host may send, see Frame
  MaxFrames,        \* how many of them it sends before it lets the line rest
  Ops,              \* the commands of processCommand
  Code,             \* Ops -> the bytes that name them
  Prefix,           \* "multiverse:"
  Separator, Escape, \* ':' and '\'
  CONFIG_KEY_LEN, CONFIG_VALUE_LEN, \* buffers of getUntil, with their '\0'
  COMMAND_LEN,
  BUFFER_SIZE,      \* bytes of a picture
  Inflates          \* the compressed bodies that make a whole picture

KeyOps == {"kset", "kget", "kdel"}
RebootOps == {"RSET", "BOOT"}

(* An op, its key if it is one of KeyOps, and a value: of "kset", or the   *)
(* picture of "data" and "zipd".                                           *)
Frame == [op : Ops, key : Seq(Nat), value : Seq(Nat)]

ASSUME UsbAssumption ==
  /\ Frames \subseteq Frame
  /\ \A f \in Frames : /\ f.op \notin KeyOps => f.key = <<>>
                       /\ f.op \notin {"kset", "data", "zipd"} => f.value = <<>>
  /\ MaxFrames \in Nat \ {0}
  /\ KeyOps \subseteq Ops
  /\ COMMAND_LEN \in Nat \ {0}
  /\ Code \in [Ops -> [1 .. COMMAND_LEN -> Nat]]
  /\ \A x, y \in Ops : Code[x] = Code[y] => x = y
  /\ Prefix \in Seq(Nat) \ {<<>>}
  /\ {Separator, Escape} \subseteq Nat /\ Separator # Escape
  \* 'm' is neither in the rest of the prefix nor in the name of a command
  /\ Prefix[1] # Separator
  /\ \A n \in 2 .. Len(Prefix) : Prefix[n] # Prefix[1]
  /\ \A o \in Ops, n \in 1 .. COMMAND_LEN : Code[o][n] # Prefix[1]
  /\ {CONFIG_KEY_LEN, CONFIG_VALUE_LEN} \subseteq Nat \ {0, 1}
  /\ BUFFER_SIZE \in Nat \ {0}
  /\ Inflates \subseteq Seq(Nat)

(* How a host writes a frame. *)
Quoted(b) == IF b \in {Separator, Escape} THEN <<Escape, b>> ELSE <<b>>

(* The last n bytes of a key or a value, each of which may need an escape. *)
EscapedEnd(s) ==
  LET last[n \in 0 .. Len(s)] ==
        IF n = 0 THEN <<>> ELSE Quoted(s[Len(s) - n + 1]) \o last[n - 1]
  IN  last

Argument(s) == Append(EscapedEnd(s)[Len(s)], Separator)

Arguments(f) ==
  IF f.op = "kset" THEN Argument(f.key) \o Argument(f.value)
  ELSE IF f.op \in KeyOps THEN Argument(f.key)
  ELSE IF f.op = "zipd" THEN <<Len(f.value)>> \o f.value
  ELSE f.value

Bytes(f) == Prefix \o (Code[f.op] \o Arguments(f))

VARIABLES
  line,     \* bytes the host has written and the device has not read
  pc,       \* what the loop is reading
  matched,  \* bytes of the prefix seen by waitFor
  got,      \* the buffer of the running getBytes or getUntil
  escaped,  \* getUntil: the last byte was the escape
  op,       \* the command being read
  key,      \* the key of "kset", once read
  size,     \* compressed_size
  sent,     \* history: frames written since the line was last at rest
  done,     \* history: their effects, in order
  broken,   \* history: a frame broken off, or a picture not of the panel's size
  disturbed \* history: that, a timeout, no memory or a frame that does not fit

vars == <<line, pc, matched, got, escaped, op, key, size, sent, done, broken, disturbed>>

Reading == {"prefix", "command", "key", "value", "picture", "size", "zipped"}

(* How many bytes end the running call of getBytes or getUntil. *)
Capacity ==
  CASE pc = "command" -> COMMAND_LEN
    [] pc = "key"     -> CONFIG_KEY_LEN - 1
    [] pc = "value"   -> CONFIG_VALUE_LEN - 1
    [] pc = "picture" -> BUFFER_SIZE
    [] pc = "zipped"  -> size
    [] OTHER          -> 1

(* What an effect was made of was in these buffers. *)
Buffered(e) ==
  /\ Len(e.key) < CONFIG_KEY_LEN
  /\ e.op = "kset" => Len(e.value) < CONFIG_VALUE_LEN
  /\ e.op # "kset" => Len(e.value) <= BUFFER_SIZE

TypeOK ==
  /\ line \in Seq(Nat)
  /\ pc \in Reading \cup {"off"}
  /\ matched \in 0 .. Len(Prefix) - 1
  /\ got \in Seq(Nat) /\ Len(got) < Capacity
  /\ escaped \in BOOLEAN
  /\ op \in Ops \cup {"none"}
  /\ key \in Seq(Nat) /\ Len(key) < CONFIG_KEY_LEN
  /\ size \in 0 .. BUFFER_SIZE
  /\ sent \in Seq(Frames)
  /\ done \in Seq(Frame) /\ \A n \in DOMAIN done : Buffered(done[n])
  /\ broken \in BOOLEAN
  /\ disturbed \in BOOLEAN

Init ==
  /\ line = <<>>
  /\ pc = "prefix"
  /\ matched = 0
  /\ got = <<>>
  /\ escaped = FALSE
  /\ op = "none"
  /\ key = <<>>
  /\ size = 0
  /\ sent = <<>>
  /\ done = <<>>
  /\ broken = FALSE
  /\ disturbed = FALSE

-----------------------------------------------------------------------------
(* The host. *)

(* A picture the panel has, and a frame whose arguments the buffers hold.  *)
OfPanelSize(f) == f.op = "data" => Len(f.value) = BUFFER_SIZE

Fits(f) ==
  /\ Len(f.key) < CONFIG_KEY_LEN
  /\ f.op = "kset" => Len(f.value) < CONFIG_VALUE_LEN
  /\ f.op = "zipd" => Len(f.value) <= BUFFER_SIZE
  /\ OfPanelSize(f)

AtRest == pc = "prefix" /\ matched = 0 /\ line = <<>>

Send(f) ==
  /\ pc # "off"
  /\ AtRest \/ Len(sent) < MaxFrames
  /\ line' = line \o Bytes(f)
  /\ IF AtRest
     THEN /\ sent' = <<f>> /\ done' = <<>>
          /\ broken' = ~OfPanelSize(f)
          /\ disturbed' = ~Fits(f)
     ELSE /\ sent' = Append(sent, f)
          /\ broken' = (broken \/ ~OfPanelSize(f))
          /\ disturbed' = (disturbed \/ ~Fits(f))
          /\ UNCHANGED done
  /\ UNCHANGED <<pc, matched, got, escaped, op, key, size>>

(* The host stops: the end of what it was writing never arrives. *)
Stop ==
  /\ line # <<>>
  /\ \E n \in 0 .. Len(line) - 1 : line' = SubSeq(line, 1, n)
  /\ broken' = TRUE
  /\ disturbed' = TRUE
  /\ UNCHANGED <<pc, matched, got, escaped, op, key, size, sent, done>>

-----------------------------------------------------------------------------
Byte == Head(line)

cdc_task ==
  /\ line # <<>>
  /\ line' = Tail(line)
  /\ UNCHANGED <<sent, broken>>

Take == cdc_task /\ UNCHANGED disturbed

(* A new call of getBytes or getUntil, or of waitFor. *)
Read(what) ==
  /\ pc' = what
  /\ got' = <<>>
  /\ escaped' = FALSE

Collect(bytes) ==
  /\ got' = bytes
  /\ UNCHANGED <<pc, escaped, op, key, size, done>>

Effect(k, v) == done' = Append(done, [op |-> op, key |-> k, value |-> v])

Keep == UNCHANGED <<op, key, size, done>>

(* waitFor gives up at the first byte that is not the expected one; that   *)
(* byte is gone even if a prefix starts with it.                           *)
waitFor ==
  /\ pc = "prefix"
  /\ Take
  /\ \/ /\ Byte # Prefix[matched + 1]
        /\ matched' = 0
        /\ UNCHANGED <<pc, got, escaped>>
     \/ /\ Byte = Prefix[matched + 1]
        /\ matched + 1 < Len(Prefix)
        /\ matched' = matched + 1
        /\ UNCHANGED <<pc, got, escaped>>
     \/ /\ Byte = Prefix[matched + 1]
        /\ matched + 1 = Len(Prefix)
        /\ matched' = 0
        /\ Read("command")
  /\ Keep

(* processCommand, up to the first argument. *)
Dispatch(o) ==
  /\ op' = o
  /\ key' = <<>>
  /\ size' = 0
  /\ Read(IF o \in KeyOps THEN "key"
          ELSE IF o = "data" THEN "picture"
          ELSE IF o = "zipd" THEN "size"
          ELSE IF o \in RebootOps THEN "off"
          ELSE "prefix")
  /\ IF o \in KeyOps \cup {"data", "zipd"}
     THEN UNCHANGED done
     ELSE done' = Append(done, [op |-> o, key |-> <<>>, value |-> <<>>])

ReadCommand ==
  LET code == Append(got, Byte) IN
  /\ pc = "command"
  /\ Take
  /\ \/ Len(code) < COMMAND_LEN /\ Collect(code)
     \/ /\ Len(code) = COMMAND_LEN
        /\ \E o \in Ops : Code[o] = code /\ Dispatch(o)
     \/ /\ Len(code) = COMMAND_LEN
        /\ \A o \in Ops : Code[o] # code
        /\ Read("prefix") /\ Keep
  /\ UNCHANGED matched

(* What handleSet, handleGet and handleDelete do with a key that has been  *)
(* read, and handleSet with a value.                                       *)
KeyRead(k) ==
  \/ k = <<>> /\ Read("prefix") /\ Keep
  \/ /\ k # <<>> /\ op = "kset"
     /\ key' = k
     /\ Read("value")
     /\ UNCHANGED <<op, size, done>>
  \/ /\ k # <<>> /\ op # "kset"
     /\ Effect(k, <<>>)
     /\ Read("prefix")
     /\ UNCHANGED <<op, key, size>>

(* Mutant: more values are read for the same key. *)
ValueAgain(v) == IF v = <<>> THEN "prefix" ELSE "value"

AfterValue(v) == "prefix"

ValueRead(v) ==
  /\ IF v = <<>> THEN UNCHANGED done ELSE Effect(key, v)
  /\ Read(AfterValue(v))
  /\ UNCHANGED <<op, key, size>>

ArgumentRead(a) == IF pc = "key" THEN KeyRead(a) ELSE ValueRead(a)

(* Mutant: no byte is left for the terminator. *)
RoomToTheEnd == IF pc = "key" THEN CONFIG_KEY_LEN ELSE CONFIG_VALUE_LEN

Room == IF pc = "key" THEN CONFIG_KEY_LEN - 1 ELSE CONFIG_VALUE_LEN - 1

(* Mutant: the escape applies to every byte that follows it. *)
StaysEscaped == escaped

EscapeSpent == FALSE

(* One byte of getUntil.  The loop ends with the separator, or without it  *)
(* when the buffer is full.                                                *)
getUntil ==
  /\ pc \in {"key", "value"}
  /\ Take
  /\ UNCHANGED matched
  /\ \/ /\ ~escaped /\ Byte = Escape
        /\ escaped' = TRUE
        /\ UNCHANGED <<pc, got>> /\ Keep
     \/ /\ ~escaped /\ Byte = Separator /\ Byte # Escape
        /\ ArgumentRead(got)
     \/ /\ escaped \/ Byte \notin {Escape, Separator}
        /\ IF Len(got) + 1 = Room
           THEN ArgumentRead(Append(got, Byte))
           ELSE /\ got' = Append(got, Byte)
                /\ escaped' = EscapeSpent
                /\ UNCHANGED pc /\ Keep

(* handleData: the picture is shown when all of it is there. *)
handleData ==
  /\ pc = "picture"
  /\ Take
  /\ IF Len(got) + 1 < BUFFER_SIZE
     THEN Collect(Append(got, Byte))
     ELSE /\ Effect(<<>>, Append(got, Byte))
          /\ Read("prefix")
          /\ UNCHANGED <<op, key, size>>
  /\ UNCHANGED matched

(* Mutant: a body of the size of a picture is refused. *)
AdmittedBelow(bytes) == bytes \in 1 .. BUFFER_SIZE - 1

Admitted(bytes) == bytes \in 1 .. BUFFER_SIZE

(* handleZippedData: the size, and then that many bytes, if they are not   *)
(* more than a picture has; a picture is shown if they make a whole one.   *)
ReadSize ==
  /\ pc = "size"
  /\ Take
  /\ IF Admitted(Byte)
     THEN size' = Byte /\ Read("zipped")
     ELSE Read("prefix") /\ UNCHANGED size
  /\ UNCHANGED <<matched, op, key, done>>

(* malloc finds no room for the body, which stays on the line. *)
OutOfMemory ==
  /\ pc = "size"
  /\ cdc_task
  /\ Admitted(Byte)
  /\ Read("prefix")
  /\ disturbed' = TRUE
  /\ UNCHANGED <<matched, op, key, size, done>>

handleZippedData ==
  LET body == Append(got, Byte) IN
  /\ pc = "zipped"
  /\ Take
  /\ IF Len(body) < size
     THEN Collect(body)
     ELSE /\ IF body \in Inflates THEN Effect(<<>>, body) ELSE UNCHANGED done
          /\ Read("prefix")
          /\ UNCHANGED <<op, key, size>>
  /\ UNCHANGED matched

(* Mutant: getUntil waits for its separator as long as it takes. *)
TimedButGetUntil == Reading \ {"key", "value"}

Timed == Reading

(* A timer runs out.  getBytes then returns short and the command is       *)
(* dropped; getUntil returns what it has, as if it were complete.          *)
Timeout ==
  /\ pc \in Timed
  /\ pc = "prefix" => matched > 0
  /\ matched' = 0
  /\ disturbed' = TRUE
  /\ IF pc \in {"key", "value"}
     THEN ArgumentRead(got)
     ELSE Read("prefix") /\ Keep
  /\ UNCHANGED <<line, sent, broken>>

(* RSET, or BOOT and the flashing that follows it. *)
Boot ==
  /\ pc = "off"
  /\ line' = <<>> /\ sent' = <<>> /\ done' = <<>>
  /\ broken' = FALSE /\ disturbed' = FALSE
  /\ matched' = 0 /\ op' = "none" /\ key' = <<>> /\ size' = 0
  /\ Read("prefix")

Device ==
  \/ waitFor \/ ReadCommand \/ getUntil
  \/ handleData \/ ReadSize \/ OutOfMemory \/ handleZippedData
  \/ Timeout \/ Boot

Host == Stop \/ \E f \in Frames : Send(f)

Next == Device \/ Host

(* The loop of start() never blocks: a byte is read or a timer runs out. *)
Spec == Init /\ [][Next]_vars /\ WF_vars(Device)

-----------------------------------------------------------------------------
(* What the theorems about the properties below assume of the frames.      *)

(* The prefix occurs in a frame only at its beginning: an escape keeps it  *)
(* out of keys and values, but not out of a picture, and a value that ends *)
(* in the name of the prefix has its separator behind it.                  *)
Alone ==
  \A f \in Frames : \A o \in 1 .. Len(Bytes(f)) - Len(Prefix) :
    \E k \in 1 .. Len(Prefix) : Bytes(f)[o + k] # Prefix[k]

(* What the host may expect of the frames it sent: each does its work,     *)
(* except one without key or value, a body that is no picture, and a       *)
(* "kset" whose key fills its buffer: the separator behind the key then    *)
(* makes an empty value.                                                   *)
Works(f) ==
  /\ f.op \in KeyOps => f.key # <<>>
  /\ f.op = "kset" => Len(f.key) < CONFIG_KEY_LEN - 1
  /\ f.op \in {"kset", "data", "zipd"} => f.value # <<>>
  /\ f.op = "zipd" => f.value \in Inflates

(* What the first n of them come to. *)
Working(frames) ==
  LET among[n \in 0 .. Len(frames)] ==
        IF n = 0 THEN <<>>
        ELSE IF Works(frames[n]) THEN Append(among[n - 1], frames[n]) ELSE among[n - 1]
  IN  among

Due == Working(sent)[Len(sent)]

(* Undisturbed, the device does what the frames say, in the order they     *)
(* were written and with the keys, values and pictures they were written   *)
(* with: escapes survive, and no frame runs into the next.                 *)
DoneInOrder == ~disturbed => IsPrefix(done, Due)

(* Once the line is at rest nothing is missing.  What disturbed earlier    *)
(* frames has no effect on those sent after a rest.                        *)
DoneWhenAtRest == AtRest /\ ~disturbed => done = Due

(* The effect of a frame whose timers may have run out: getUntil has cut   *)
(* its key or value off.  What becomes of the value once the key is cut is *)
(* open: its separator may be taken for an escaped byte.                   *)
EffectOf(e, f) ==
  /\ IsPrefix(e.key, f.key)
  /\ e.key = f.key => IsPrefix(e.value, f.value)
  /\ e.op # "kset" => e.value = f.value

(* However bytes are lost and timers run out, every effect belongs to one  *)
(* frame with that command, in order, so none is done twice; and unless    *)
(* the host broke a frame off, whose reader then takes the beginning of    *)
(* the next for the rest, it is made of that frame's bytes alone: pictures *)
(* and the keys that are read or deleted are not mixed, a key that was not *)
(* cut gets no other frame's value.                                        *)
EffectsOfCommands ==
  \E frame \in [DOMAIN done -> DOMAIN sent] :
    /\ \A n \in DOMAIN done : /\ done[n].op = sent[frame[n]].op
                              /\ ~broken => EffectOf(done[n], sent[frame[n]])
    /\ \A n, k \in DOMAIN done : n < k => frame[n] < frame[k]

(* Whatever the host left unfinished, the loop waits for a prefix again.   *)
WaitsAgain == []<>(pc = "prefix")
=============================================================================
