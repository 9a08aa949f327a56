# A TLA+ project for i75w-multiverse

The firmware drives an LED matrix from a Pimoroni Interstate 75 W (RP2350). Clients talk
to it over TCP, UDP multicast and USB serial; settings live in one flash sector. This
directory holds TLA+ models of its core, the TLC configurations that check them and
proofs for TLAPS. Line numbers refer to the files under `src/` of the repository.

## Inventory

| part | state it keeps | operations | talks to |
|---|---|---|---|
| `config_storage` (`KVStore`) | `kv_store` (26 slots, count, flag, CRC), `hasChanged`, the flash sector | `loadFromFlash`, `getParam`, `setParam`, `deleteParam`, `setFactoryDefaults`, `commitToFlash` | called by `main`, TCP, USB, matrix |
| `server` (`ApiServer`), TCP | one global `recv_state` (`receiving_data`, `expected_size`, `command`, `header_buffer`, `recv_buffer`) | `on_accept`, `on_receive`, `process_header`, `process_data`, `process_key_value_command`, `reset_recv_state`, `on_error` | lwIP callbacks; `KVStore`, matrix, reboot |
| `server`, multicast | none | `setup_multicast_listener`, `on_multicast_receive` (`sync`, `dscv`) | lwIP; matrix |
| `server`, Wi-Fi | settings read at construction, `server_pcb` | `start`, `connect_wifi`, `run` | `KVStore`, cyw43, lwIP |
| `usb_handler` | the position of the loop, local buffers | `start`, `waitFor`, `getBytes`, `getUntil`, `processCommand` and its handlers | TinyUSB; `KVStore`, matrix, reboot |
| `matrix` | picture `buffer`, `text_buffer` | `init`, `print`, `scroll`, `redraw`, `info`, `update`, `clear`, `clearscreen` | TCP, USB, DMA interrupt |
| `main` | none | constructs the parts, starts server, then the USB loop | all |
| `examples/matrix.py` | none | one connection per command: header, body, close | the TCP server |
| descriptors, serial number, board and build files | constants | none | none |

Contexts. The USB loop is the foreground and never ends. The server is linked with
`pico_cyw43_arch_lwip_threadsafe_background`, so TCP and UDP callbacks run in interrupt
context: one at a time and to completion, but between any two statements of the
foreground. No part takes a lock.

What is hard, and what must hold:

* *KVStore*: power may fail inside a commit, slots shift on delete, a full table refuses
  silently, and the dirty flag decides whether a change is ever saved. A key is in one
  slot; a lowered flag means saved; a boot sees the last complete save or nothing, and
  keeps every stored setting.
* *KVStore, shared*: callbacks read, write and save a table that is being changed. An
  entry in motion must be found, a half-inserted one must not be seen, no change may be
  lost behind the flag.
* *TCP server*: segments of any size, several connections on one `recv_state`, clients
  that vanish, connection resets, pbuf chains, undecodable images. Each message is served
  at most once and with its own body; a server that met trouble must serve again.
* *USB handler*: timers that run out in the middle of a frame, hosts that stop, arguments
  that fill their buffers, escapes. Frames do what they say, in order; the loop
  resynchronises and never hangs.
* *Display*: the TCP callbacks, the USB loop and text output share `buffer`, `text_buffer`
  and the pen. What USB draws undisturbed must be shown whole, whatever was there before;
  text must fit the panel although callbacks print in the middle of a print; the scrolling
  loop must end.
* *Boot*: a stored mode, a fallback that saves the whole table by itself, power loss at any
  point, commands by TCP before `start` has returned. A boot must end, keep the other
  settings, find an access point that accepts it and begin the next time with the mode that
  worked.

## Modules

| module | models | correspondence |
|---|---|---|
| `KVTable` | the table image and its lookups and updates | `GetParam`, `SetParam`, `DeleteParam` are the functions of those names on an image; a key or value is opaque apart from being equal, empty or too long |
| `KVStore` (EXTENDS `KVTable`) | the store, one caller at a time, with power loss | `LoadFromFlash`, `ApplyDefault` (one pass of the defaults loop), `Set`, `Delete`, `BeginFactoryReset`, `FactoryDefault`, `CommitClean`, `EraseSector`, `ProgramPage` |
| `ConfigStore` | abstract: a bounded map and at most one saved copy | implemented by `KVStore` through `KVStore!Abstract` |
| `SharedStore` (EXTENDS `KVTable`) | the store used by the USB loop and TCP callbacks | one action per statement of `setParam`, `deleteParam`, `commitToFlash`; `TcpSet`, `TcpDelete`, `TcpCommit` are whole calls |
| `TcpServer` | the protocol of `server.cpp` | `on_receive` is the whole callback, `process_header` being `Verdict` with `RejectHeader`, `ExecuteHeader`, `ReceiveFirst`, `Reboot` |
| `CommandServer` | abstract: every message is served once, with its body | implemented by `TcpServer` through `TcpServer!Abstract` |
| `TextConsole` | wrapping and scrolling as functions of the text | `Wrapped` is what one `print` adds, `Scrolled` what `scroll` leaves, `Printed` both |
| `Display` (EXTENDS `TextConsole`) | the panel, drawn on by the USB loop, TCP and multicast | the foreground goes through `print`, `scroll`, `redraw`, `info`, `update`, `handleData` and `handleZippedData` statement by statement, and the deque call by call; `process_data`, `Reply`, `Discovery`, `ClearScreen`, `Sync` are whole callbacks |
| `Boot` (INSTANCE `ConfigStore`) | `main`, `ApiServer::start`, `connect_wifi`, the two listeners, over many boots | `pc` is the call `main` is in, `TryStored` and `TryMode` one attempt each, `Remember` and `Commit` the save of the mode that worked; every change of a setting is an action of `ConfigStore` |
| `UsbHandler` | the USB loop and its host | `waitFor`, `getUntil`, `handleData`, `handleZippedData`; `pc` is the call that is reading, `Timeout` what that call does when its timer runs out |
| `KVTable_proofs`, `TextConsole_proofs` | lemmas on the table and on text | see Proofs |
| `KVStore_proofs`, `SharedStore_proofs`, `Boot_proofs`, `TcpServer_proofs`, `UsbHandler_proofs`, `Display_proofs` | theorems | see Proofs |
| `MC*` | values of the constants for TLC | see Runs |

How they fit together: `KVStore` implements `ConfigStore`, and `Boot` is built on
`ConfigStore`, so what `Boot` shows of settings rests on the proved refinement. `SharedStore`
is the same table (`KVTable`) without the assumption of one caller. `TcpServer` and
`UsbHandler` say which commands are executed, and with which body; `Display` takes any
sequence of their effects on the panel, each callback at any moment.

Definitions whose comment begins with "Mutant:" are variants of the definition that
follows, with a mistake in it. They take part in no specification; substituted for the
original they make the named property fail, which shows that the property is about the
code (PROJECT.json pairs them).

## Runs

Passing:

* `kv_store` (`KVStore.cfg`): two slots, two default keys and one of the user's own (the
  empty key), three values that fit and one that is too long, a sector of two pages. Two slots suffice for a full
  table with or without a default in it, for a delete that moves an entry, and for a stale
  copy behind the count; two pages for a sector that is partly programmed. Checks
  `UniqueKeys`, `CleanMeansSaved`, `DeleteForgetsOne`, `BootKeepsSettings`,
  `DefaultsUnlessFull` and `RefinesConfigStore`. The refinement does not say which key a
  delete removes, `DeleteForgetsOne` does.
* `shared_store` (`SharedStore.cfg`): two slots, three keys, two values that differ in
  bytes and length, of which the empty key and the empty value come from TCP only
  (`handleSet` and `handleDelete` make no call for them). `OneWriter` lets TCP callbacks save
  at any time and write while the foreground is between calls. A lookup by a callback is no action: it changes nothing, and
  the invariants say at every statement what it would return. Checks `BystandersFound`,
  `ReadsAreStored`, `WholeWhenIdle` and `CleanMeansSaved`.
* `tcp_clean` (`TcpServer_clean.cfg`): seven messages: an image, a zipped image, a `clsc`, a
  `kset` and a `kget` with a ':' behind the key, a command nobody offers, an `RSET`; two
  connections that take turns, headers in one segment, bodies cut anywhere, and connections
  that send a further message when the last one is through (`Hazards = {"reuse"}`). The clients
  know more than the client on offer (`Understood`); `tcp_documented` shows what happens
  to that one. Checks `ImplementsCommandServer`, its fairness included.
* `tcp_hazards` (`TcpServer.cfg`): four messages, two connections, all six hazards:
  `overlap` of connections, a client that gives up (`abort`), a connection `reset`, a
  header `split` over segments, a `chain` of pbufs, a `damage`d image. A header has two
  tokens (so it can be split), the longest body two, the buffer three (so that a stale
  token can overfill it). Checks `AtMostOnce` under all hazards, `FaithfulUntilHazard`, and
  `ImmediateServed`: after aborts, lost bodies and damaged images a command without a body
  is still served. `FaithfulUntilHazard` speaks of the states before any hazard but reuse:
  what goes wrong after one is in the model, and only `AtMostOnce` and `ImmediateServed` are
  about it, since the code promises no more. The hazards in PROJECT.json say which.
* `usb_handler` (`UsbHandler.cfg`): eleven frames, two on the line at a time, a two-byte
  prefix and two-byte command names; keys and values that need escapes, fill a buffer exactly
  or exceed it, a `kset` without a key, a body that is no picture, a restart. Bytes may be
  lost, timers run out and `malloc` fail at any point. After a rest the histories start again, so the run covers frame
  sequences of any length. `EffectsOfCommands` compares key, value and picture of every effect
  with those of one frame as long as the host broke none off (`broken`); after it did, only
  the commands and their order, because the reader of a broken frame then takes the next one
  for the rest. Checks `DoneInOrder`, `DoneWhenAtRest`, `EffectsOfCommands` and
  the liveness property `WaitsAgain`.
* `display` (`Display.cfg`): a console of two lines of two letters, a picture buffer of two
  parts, two pictures, USB texts that wrap or bring their own newline, a TCP text that fills
  its line. Two lines are enough for a scroll that must keep one of them, two letters for a
  line that a callback makes too wide, two parts for a writer in the middle of the buffer. The
  texts of the callbacks come any number of times, between any two calls of the deque: the
  test, `front` and `pop_front` of `matrix.cpp:102-104` are steps of their own. Checks
  `TextFits`, `EmptiedByClear`, `LinesFit`, `KeepsLastLines`, `ShowsWhatUsbAsked`, `ShownWhenIdle` and the liveness property `PrintEnds`.
* `boot` (`Boot.cfg`): two authentication modes, a table of two slots that one key of the
  user's own fills, settings that are a number but no mode, or no number; access points that
  answer after 3 s or 5.5 s (in time for the stored mode, for a later round only), steady or
  not. Power may fail at every step and boots follow one another without bound. Checks
  `AbortsOnlyIfSavedSo`, `ConnectsIfPossible`, `RemembersMode`, `BootKeepsSettings` and the
  liveness property `BootEnds`.

Each run also checks its module's `TypeOK`; for the table and the buffers that includes
the array bounds.

Violated, each a disagreement of the code with a line of the repository:

* `boot_default`: "default to WPA2 AES if not found" (`server.cpp:115`), and "Apply defaults
  if missing keys" (`config_storage.cpp:37`). With a table full of other keys `setParam` refuses
  the default and its result is ignored; `std::stoi` then throws on the empty string, and the
  board does not start. `AbortsOnlyIfSavedSo` and `DefaultsUnlessFull` are what does hold.
* `shared_lost_change`: "Commit to flash only if changes are made"
  (`config_storage.cpp:45`). A set between `restore_interrupts` and `hasChanged = false` is
  marked clean and not saved.
* `shared_added_twice`: "If new, add it" (`config_storage.cpp:147`). A TCP set of the key a
  USB set has just searched for in vain puts it into the table twice (`SetDuringSet`, three
  slots so that the table is not full when it happens).
* `tcp_stale_buffer`: "Process image data only after all chunks are received"
  (`server.cpp:249`). `reset_recv_state` leaves `recv_buffer`, so chunks of an abandoned
  image complete the next one.
* `tcp_documented`: the client's help offers `text` over TCP (`matrix.py:55`), which is not in
  `SUPPORTED_COMMANDS`, and `kget <key>` and `kdel <key>` (`matrix.py:59`), whose bare key
  (`matrix.py:95-99`) has no ':' and is dropped as malformed.

## Fairness

* `TcpServer`: a connection with bytes to deliver delivers (TCP retransmits) and a client
  that has sent its message closes (`matrix.py` shuts the socket down). Weak fairness, per
  connection; nothing is assumed of aborts, resets or new connections.
* `UsbHandler`: weak fairness of the device as a whole. The loop of `start` polls without
  blocking and every wait in it has a timer, so a byte is taken or the timer runs out.
* `Display`: weak fairness of the foreground, which never blocks. Nothing is assumed of
  callbacks; `PrintEnds` therefore excepts behaviours in which they never cease, and those in
  which an empty deque was popped, where the model stops.
* `Boot`: strong fairness of `main`, since every attempt to connect has a timer and between
  two callbacks the foreground runs, even if clients keep saving (a save disables interrupts
  and holds `main` up); weak fairness of the end of such a save.
* `KVStore`, `SharedStore`: safety only, no fairness.

## Proofs

`KVTable_proofs` has lemmas on the table for every size and every set of keys and values:
`SetParam` and `DeleteParam` return tables with unique keys, what is set is read back, other
keys keep their values, a table with unique keys holds as many keys as its count, and the
map a table means (`ConfigOf`) changes as a map does.

`KVStore_proofs` proves, for every `MAX_ENTRIES`, `PAGES`, `Keys`, `Values` and
`FactoryDefaults` that satisfy `TableAssumption` and `StoreAssumption`:

* `TypeCorrect`, `KeysStayUnique`, `CleanIsSaved`: the invariants of the run;
* `DeleteForgets`, `BootKeeps`, `BootDefaults`: its action properties;
* `StoreImplementsConfig`: `KVStore` implements `ConfigStore`.

The invariants are not inductive as they stand. `IInv` adds that the *saved* image has
unique keys (a boot copies it to RAM), `Commitment` says at every control point how flag,
table and sector relate (during programming the sector is to become the table; during
loading a clean flag means that the table is what was loaded), and `DefaultsMet` that the
defaults already met by the loop of `loadFromFlash` have a value or the table is full.
Every action is one step of the proof that `IInv` is preserved. The refinement maps page
programming to stuttering until the last page, which ends the save.

`SharedStore_proofs` proves, for every table size and every set of keys and values:

* `CleanIsSaved`: under `NoWriteDuringCommit` (callbacks may write during every other call,
  even two writers at once that spoil the table) a lowered flag means that nothing is left
  to save. `shared_lost_change` is the case it excludes.
* `TypeCorrect`, `StaysWhole`: under `NoWriteDuringChange` (callbacks save at any time, and
  write between calls and during `commitToFlash`). Two writers at once, a callback that sets
  or deletes inside `setParam` or `deleteParam`, are what the hypothesis excludes: they break
  both statements, as `shared_added_twice` shows for one. What the theorems add to the run is
  that a write which meets a commit is at worst lost.
* `BystandersAreFound`, `ReadsStoredValues`: under `SingleWriter` (during a foreground call
  callbacks read and save, but do not write), which the `OneWriter` of the run satisfies.

Its `IInv` says at every statement what the loop variable and the slot behind the last one
mean (`Position`), that the entry about to be overwritten is either the deleted one or
already copied to the slot before (`Shifting`, with which no key is ever lost), that two
slots share a key only there (`NearlyDistinct`), which value may be torn (`Whole`), and what
has become of the map the call began with (`Kept`; `Untouched` for a commit, which needs
`SingleWriter`). At rest it says no more than that the
table is one of `KVTable`, so whole callbacks are covered by the lemmas of `KVTable_proofs`.

`Boot_proofs` proves all of the run's invariants for every table, list of modes, set of
access points and set of commands: `TypeCorrect`, `AbortIsSaved`, `GivesUpOnlyInVain`,
`ModeIsRemembered`, `OtherSettingsStay`. Its `IInv` says that the copy a boot began with
stands until `main` commits (`CopyStands`), that the boot only adds defaults to it (`Grown`)
and leaves the mode alone until it has found another (`ModeStands`), what the constructor of
the store has settled for the mode (`Defaulted`), where the modes held in variables come from
(`Modes`), which attempts lie behind the one that is next (`Tried`), and that nobody else uses
the store before the server listens (`Alone`).

`TcpServer_proofs` proves, under all hazards, `TypeCorrect` (the reassembly buffer keeps
within `MAX_BUFFER_SIZE`) and `NothingTwice`. `IInv` says that
what is under way on a connection is the end of its message (`InTransit`), that a message has
one client (`OwnMessages`), that one which is served or being received has left its header
behind (`BegunOnce`), and that a header in the buffer cannot be executed (`HeaderWaits`).
For clients that take turns it proves

* `ImmediateIsServed`: through aborts, lost bodies and damaged images the server returns to
  the start of a header before the next connection speaks (`Prompt`);
* `FaithfulServer`: until a hazard other than reuse is met, every body is the one that was
  sent (`Clean` says how much of it is in which buffer);
* `RefinesCommandServer`: with `Hazards \subseteq {"reuse"}` each step of the server is one
  of `CommandServer` or stutters. This is the safety part of `ImplementsCommandServer`.

The last two assume `BodiesHaveCommands`: a message of a command without a body has none.
That is how `matrix.py` (lines 86 to 87) sends them; a body behind such a command would be read
as a header.

The refinement also assumes `Understood`: no command that is offered and refused, and a ':' in
the body of every `kget`, `kset` and `kdel`. The messages of `tcp_clean` are such.

`TextConsole_proofs` has the lemmas on text: what a `print` adds is a sequence of lines
narrower than the panel and ends in a newline, scrolling returns an end of the text with at
most `MAX_LINES` lines, scrolling after each character keeps what scrolling once would keep.
`Wrapping` and `Reach` are recursive functions; their induction is done here on the set of
counterexamples (`Least`, `Induction`, `Recursion`), since the library's theorems take an
operator.

`Display_proofs` proves all of the run's invariants for every panel size, font, picture and
text: `TypeCorrect`, `TextAlwaysFits`, `PopsEmptyIfCleared`, `LinesAlwaysFit`,
`LastLinesAreKept`, `AskedIsShown`, `RestIsShown`. `TextAlwaysFits` is about every
interleaving up to a `pop_front` of an empty deque, which corrupts it; `PopsEmptyIfCleared` says
that only a `clsc` between the test and the pop leads there. `IInv` says at every statement of the
foreground what its locals hold (`Locals`), between test and pop that there is something to pop
or the screen was cleared (`Scrolls`); how far the picture or text has come that nothing
disturbed (`PictureOnItsWay`, `TextOnItsWay`) and which parts `update` has still to show
(`NothingForgotten`); that only `print` may leave an open line or one too many (`WholeLines`),
that `width` is at least what the last line takes whatever callbacks have put there
(`Measured`), and that the text in the buffer with what `print` will yet add makes the goal
(`OnCourse`).

`UsbHandler_proofs` proves all of the run's invariants for every prefix, set of commands,
frame, buffer size and number of frames on the line. It has two inductive invariants beside
the types (`TypeCorrect`: the buffer of the running `getBytes` or `getUntil` stays below what
ends it, the key kept for `kset` fits its array, and every effect was made of what the buffers
hold; `Calls` says which command the call is for):

* `InOrderAlways` and `NothingMissingAtRest` rest on `Underway`, about a line nothing has
  disturbed: it is the rest of one frame and all of the later ones (`Stream`). Either the loop
  is between two frames (`Rests`), or it is at a known place of one, with what it has read in
  `got`, `key` and `size` (`Within`); after an escape `Within` says which byte it is for.
* `EffectsAreOfFrames` rests on `Traced`, about any line. The byte that comes is the next of
  the frame being read or the first of a later one; unless a frame was broken off, a later one
  begins only where the last has ended (`ReadTo`, `Ahead`, `Comes`). `Phase` says of which frame
  the effect under way will be and, unless a frame was broken off, what of it has been read: as
  `Within` does, until a timer cuts a key. From then on it says only which bytes of the frame
  can still be taken for a key or value (`CutKey`, `LeftBehind`), so that no other frame's are.
  A command that a later frame breaks into has an `m` in it and is none.

Their hypotheses are about what the host writes, and both are needed (TLC finds a
counterexample without either).

* `KeysGiven`, of the first two: the key of a `kset` is not empty and does not fill its buffer.
  After an empty key `handleSet` returns before it reads the value, and behind a key of 15 bytes
  the separator is read as an empty value: either way the value stays on the line. The run
  includes such frames; in it their values make no prefix, and the properties hold.
* `Alone`, of the third: the prefix occurs in a frame only at its beginning. Of a picture, only
  the host can see to that. The run's frames satisfy it (`MCFramesAssumption`).

The assumptions on constants:

* store: at least one slot and one page; the empty key and value fit; the default keys and
  values fit, the values are not empty, and there is at least one of them. In `SharedStore`
  a value is a record of bytes and length, and the pair it starts with fits.
* `Boot`: the defaults are finitely many and fit the table, with a mode and a rotation among
  them; the modes `connect_wifi` lists are numbers; the empty value is none.
* `TcpServer`: a header has at least two tokens, a body fits `MAX_BUFFER_SIZE`, only bodies
  that are not empty have a delimiter, only zipped images are damaged.
* `UsbHandler`: commands differ and have one length; a command without a key or value is sent
  without; the separator is not the escape; the first byte of the prefix is no separator, and
  occurs neither later in the prefix nor in a command (`m` in "multiverse:", and no command of
  `command_config.hpp` has one).
* `Display`: every character is narrower than the panel, there is at least one line and one
  part, and pictures are none of the other things a part may show.

## Abstractions and limits

* Keys and values are opaque. The CRC is ideal: a sector that is not completely
  programmed is rejected. The 15 pages of the struct (3808 bytes) are `PAGES`.
* In `TcpServer` bytes are tokens that know their message, so that a body made of two
  messages can be told from a whole one. Reading the payload after `pbuf_free` yields the
  payload: nothing reuses the pbuf before the callback ends. After a size that wraps around
  or a refused pbuf that is already free, behaviour is undefined; the model sets `wild` and
  stops. A connection carries one message after another, each sent when the last one is
  through; several messages written at once are left out, and so is the receive window.
* The four bytes of a zipped size are one byte in `UsbHandler`, `malloc` may fail at any time,
  and the payloads of the run contain no prefix (`Alone`): a payload that does would be taken
  for a frame once the device is reading it as garbage.
* Two writers at once on the store (a TCP `kset` or `kdel` inside a USB `kset` or `kdel`)
  break the invariants of the table: slots found before the callback are stale after it.
  `shared_added_twice` shows one case; the passing run leaves two writers out (`OneWriter`)
  to say what holds without them. `entry_count++` and `--` are one step.
* In `Display` a call of the deque of characters is one step, and callbacks come between the
  calls. A `pop_front` of an empty deque is undefined: the model sets `wild` and stops. A
  `front` of one reads any character. `line_count` walks over the deque in one step, and returns
  anything if a callback changed the text since the walk began (`torn`). A character taken from
  the deque while a callback runs stays in `front`, so it may not be the one that is popped.
  The code inside one call of `std::deque` is not interrupted. Of drawn text the model knows only
  whether it is the text of now, an earlier text or a mixture. `behind` stands for what the panel
  shows: the buffer, except at the parts named. Clearing is one step, and fills the buffer with
  white when a callback has left the pen white. The pixel library and the panel driver are
  external. A reboot is not part of `Display`, which begins at every boot in the same state.
* In `Boot` the dirty flag is left to `KVStore`: a command that saves may always do so. The
  access point is chosen anew when power comes and stays the same while the board tries it.
  A listener may fail to come up at any of its calls; the model has one outcome for them.

## Observations

Of the code, met while modelling, that no line of the repository contradicts clearly enough
to be a violated run:

* `main.cpp:59` prints "TCP server started on" when `start` returns true, which it does also
  when `run` could not bind or listen (`Boot`: `started` with no `tcp` in `listening`). The
  port it prints is the stored one, not the one the server has checked and uses.
* The mode `server.cpp:115` calls the default, WPA2 AES, is not the factory default, which is
  the WPA3 SAE constant.
* The stored mode gets one attempt of 5 s, every other mode three of up to 6 s. An access
  point that needs 5.5 s is found in the third round and its mode stored, with which the next
  boot does not reach it: `ConnectsIfPossible` states the two limits apart for that reason.
* A picture staged with `data` and waiting for `sync` is overwritten by any text that is
  printed in between; a console line that a callback interrupts is wider than the panel
  (`LinesFit` states by how much).
* A USB `kset` with an empty key returns (`usb_handler.cpp:96`) with its value unread; one with a
  key of 15 bytes takes the separator for an empty value (`usb_handler.cpp:226`) and leaves the
  value unread too. If that value is `multiverse`, it makes with its separator the prefix of a
  command: `waitFor` succeeds on it, and the beginning of the next frame is read as a command and
  lost. `KeysGiven` excludes both.
* `scroll` tests, reads and pops in three calls (`matrix.cpp:102-104`); a `clsc` by TCP between
  them makes it pop an empty deque. `EmptiedByClear` says that nothing else does.
* A USB picture or text that a callback draws into stays mixed on the panel until the next
  drawing.

## What is not proved, not checked, not modelled

Every safety property of a passing run is proved for every value of the constants, under the
hypotheses named above. Only model-checked is liveness: `WaitsAgain`, `PrintEnds`, `BootEnds`,
and the fairness of `CommandServer` in `ImplementsCommandServer`. Liveness and fairness are out
of the prover's reach. The violated runs are instances; no
theorem is about them.

Not modelled: descriptors, serial number, build and board files (constants; no behaviour),
the text of replies and messages, the argument parsing of the client, the order of colours
that `matrix::init` looks up, `ApiServer::stop` and its destructor (never reached, since
`main` does not return), `setFactoryDefaults` beside a callback (no command calls it).

## Plan

Done, in this order: `KVTable`, `KVStore`, `ConfigStore` and their proofs; `SharedStore` and its proofs;
`TcpServer` with `CommandServer`; `UsbHandler`; `TextConsole` and `Display`; `Boot` on
`ConfigStore`; several messages on one connection; the theorems of `Boot`, `TcpServer`,
`Display` and `UsbHandler`.

Next:

1. A boot of `KVStore` from an image that `SharedStore` saved in the middle of a call.
2. Pipelined messages and the receive window in `TcpServer`.
