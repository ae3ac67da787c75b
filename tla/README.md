# A specification of statorange

statorange writes a status line to lemonbar: a single-threaded C++ program that
polls some *state items* (battery, network, sound, ...) at their own intervals,
follows i3 through an event socket, and prints a line whenever something changed.
This directory holds TLA+ modules that model its core, TLC runs that check them on
small instances, and proofs that TLAPS checks for instances of any size.

* `tlc -config X.cfg M` checks one run; `PROJECT.json` lists which cfg belongs to
  which module, and what each definition models (`map`).
* `tlapm EventLoopProofs.tla`, and the same for `I3Proofs`, `IpcProofs`,
  `JsonParserProofs`, `NetProofs`, `OutputsProofs`, `PulseAudioProofs` and
  `StatorangeProofs`, checks the proofs.

## 1. Inventory

Paths are relative to the repository (`src/` in it holds the sources,
`include/` the headers).

| Component | Source | State | Operations | Talks to |
|---|---|---|---|---|
| Main loop, signals | `src/statorange.cpp` | `force_update`, `dead`, the items by section, the pipe to lemonbar | `run`: `update`, `print`, `wait_for_events`, `handle_signals` | calls every item; reads a signalfd |
| State item | `src/StateItem.cpp` | per item `valid`, `changed`, `last_updated`, `cooldown`; static `min_cooldown`, `event_sockets` | `update`, `print`, `handle_stream_data`, `wait_for_events` | `select` on all event sockets; `update_raw`, `print_raw`, `handle_stream_data_raw` of the item |
| I3 item | `src/StateItems/I3.cpp`, `include/utils/i3_tree.hpp` | the tree of outputs, workspaces and windows, with raw pointers between them | `query_tree`, `workspace_event`, `window_event`, `print_raw` | two sockets to i3: queries, events |
| i3 IPC | `src/i3/ipc.cpp`, `read_all`/`write_all` in `src/utils/io.cpp` | none | `write_message`, `read_message`, `query` | I3 item; the kernel |
| Net item | `src/StateItems/Net.cpp` | static address table and its stamp; per item addresses, connection flags, stamp | `update_raw` and its three parts | `getifaddrs`, ioctls, `connect_to` |
| Connections | `connect_to` in `src/utils/io.cpp`, `src/Address.cpp` | a socket while it works | `connect_to`, `as_sockaddr_*` | resolver, kernel |
| PulseAudio item | `src/StateItems/PulseAudio.cpp` | context, `is_connected`, volume | constructor and `update_raw` iterate libpulse's mainloop until a callback is done | libpulse |
| Resources | `include/utils/resource.hpp` | `active`, a release function | moves, destructor | every descriptor and file |
| Lemonbar | `src/Lemonbar.cpp` | `current_bg`, `current_fg`: the colours it believes the bar to have | `separator`, `section_colors`, buttons | every `print_raw` writes through it; lemonbar, which it never asks |
| Output order | `include/utils/multimap.hpp`, `display_add` | a map with two keys | insert, find, erase | I3 item |
| Battery, Load, Space, Date, Weather | `src/StateItems/` | last readings, whole or in part | `update_raw`, `print_raw` | files, `statvfs`, a web service; Lemonbar |
| Start | `main`, `init_item`, `apply_config` in `src/statorange.cpp` | the configuration, until the items exist | search three paths, parse, construct the items | JSON parser; constructors |
| JSON, parsing, conversion | `include/json_parser.hpp`, `src/json_parser.cpp`, `src/utils/parse.cpp` | position in the text | `Node(string)`, `to_stream`, accessors with defaults | configuration, i3's replies, the weather |
| Logger, exceptions | `src/Logger.cpp` | none | write text | - |

The hard behaviours, each listed with its line in `PROJECT.json` under `hazards`:

* **Flags across phases.** `changed` is set in two places, collected in a local of a
  third, and cleared in a fourth. A flag lost on the way leaves an old line on the
  bar; nothing else would ever repaint it.
* **Time.** One `select` timeout, the least cooldown, serves all items, and the
  stamp of an item only moves when its update succeeds.
* **The world between two steps.** Signals, socket data and hang-ups arrive while
  items are polled, between `select` and the handlers, between i3's two queries.
* **A mirror kept by increments.** Between full updates the I3 tree follows i3 by
  events only, through raw pointers that erasing leaves dangling.
* **Byte streams.** The kernel takes and gives any part of a packet, and the peer
  may go away in the middle of one.
* **Shared, stamped data.** One Net item reads the address table for all.
* **One failure among many.** No exception of an item is caught; a descriptor that
  `read_all` closed stays in the table `select` is called with.
* **A loop inside the loop.** The PulseAudio item turns libpulse's mainloop by hand until
  a flag or an operation says it is done. Callbacks overwrite each other's results, and
  a context that fails at the wrong moment leaves the whole program in that inner loop.
* **Exceptions that nobody catches.** Printing divides, looks keys up and follows pointers.
  What protects it is that an item is printed only after an update that reported success;
  several report success with nothing to print.
* **A belief about another program.** `Lemonbar` writes directives that swap and set the
  real colours, and keeps its own idea of them through every item and line.
* **Text cut anywhere.** A configuration may be read while it is written, by a recursive
  parser with three kinds of exception of which `main` passes over one.

What makes each component correct is stated by the properties of section 4.

## 2. Modules

| Module | Models | Composition |
|---|---|---|
| `StatusBar` | what the program promises: asleep, the bar shows what is known | abstract; `EventLoop` implements it |
| `EventLoop` | the loop, the item bookkeeping, `select`, the stream handler's shape, signals, time | takes an item's own code as `UpdateRaw` and an event as a new value |
| `WindowManager` | i3: outputs, workspaces, windows, focus, urgency, and the events of every change | external; from what `I3.cpp` reads |
| `I3Tree` | `i3_tree.hpp`: the structs, pointers and the methods the events call | used by `I3`; takes the maps from `Outputs` |
| `I3` | the I3 item beside i3: two queries, events, the pointers printing follows | composes `WindowManager` and `I3Tree` |
| `PacketChannel` | whole packets in order, and an end that means the end | abstract; `Ipc` implements it |
| `Ipc` | `write_message` and `read_message` on `write_all` and `read_all`, the kernel's buffer between them | one direction of a socket |
| `Outputs` | `display_add`, the two-key `Multimap` it fills and the list `query_tree` feeds it, as functions | the order in which `I3`'s outputs are printed |
| `Net` | the Net items, their shared table, the connection checks, `connect_to`'s socket | keeps the contract `EventLoop` assumes |
| `PulseAudio` | the item's constructor, `update_raw` and callbacks beside a sound server that may end | keeps the same contract |
| `Lemonbar` | the colour pairs, `section_colors`, `separator`, and what lemonbar makes of the directives | used by `StatusLine` |
| `StatusLine` | `update_raw` of Battery, Load, Space, Date and Weather, `print_raw` of all eight items, and the loops over them in `Statorange` and `StateItem` | what Net, PulseAudio and I3 hold is any data within `EventLoop!UpdateRaw`'s contract |
| `JsonParser` | `Node::parse` and everything below it, as a recursive function of the positions in a text, and the accessors | used by `Startup` |
| `JsonPrinter` | `to_stream` of the values | what the parser makes of it is checked |
| `JsonGrammar` | what a text denotes, as a function of its parts: the reference for the parser | abstract; from the parser's accepted language, without its control |
| `Startup` | `main`'s search for a configuration and `apply_config` | uses `JsonParser`; its property `ReadsTheGrammar`, `JsonGrammar` |
| `Statorange` | the program: search, construct, then update and print | composes `Startup` and `StatusLine` |
| `MC*` | the instances TLC checks | |
| `EventLoopProofs`, `I3Proofs`, `IpcProofs`, `JsonParserProofs`, `NetProofs`, `OutputsProofs`, `PulseAudioProofs`, `StatorangeProofs` | the theorems of section 6 | `StatorangeProofs` rests on `JsonParserProofs` |

The modules meet in four places. `EventLoop!UpdateRaw` says what an item's update
may return (a failure counts as a change; changed data is reported): `Net` checks
that the Net item keeps to this, and `PulseAudio` that the sound item does
(`ChangesReported` in both). `EventLoop!ReadMessage` and
`ReadEndOfStream` take whole packets, an invalid one, or the end of the stream from
the socket: `Ipc` shows that this is what `read_message` makes of a byte stream.
`I3` and `Net` assume that the loop comes back to an item again and again, in `Net`
at least every `Gap` seconds: `BoundedStaleness` of `EventLoop` is where the bound
comes from (`Gap[i]` stands for the item's cooldown, the least cooldown, and one
iteration's work). `Statorange` runs `StatusLine` on the items `Startup` constructs: a
step of the search leaves the line alone, `StartRunning` is `Construct(l)` with the items
`l` of the configuration, which are among `Layouts` (part of `TypeOK` in `program`), and
afterwards only `Round` is taken. So every behaviour of `Program` is one of
`StatusLine!Spec` as far as the line goes (`ProgramDrivesLine`), and what is proved of the
one holds for the other (`ProgramsLine`).

### How state and actions correspond to the code

**EventLoop.** `pc` is where `Statorange::run` is: `update` (with `cursor` in the
loop over the items), `print`, `wait` (in `select`), `dispatch` (the loop over
`event_sockets`), `drain` (in a stream handler), `signals`. `PollItem` is
`StateItem::update` with the item's own code as any result of `UpdateRaw`,
`SkipItem` the same function when nothing is due; `FinishUpdate` resets
`force_update`; `PrintBar` prints and clears the flags. `SelectError`,
`SelectTimeout` and `SelectReady` are the three ways `select` returns; `Notify` and
`FinishDispatch` are the short-circuited loop behind it; `ReadMessage`,
`ReadEndOfStream` and `FinishHandler` are the recursive `handle_stream_data_raw`;
`ReadSignal` and `FinishSignals` are `handle_signals` and the loop condition;
`Abort` is an exception of an item. `age` is `now - last_updated`, and `screen` the
line last handed to lemonbar, which is taken to read it. The outside world
(`Arrive`, `HangUp`, `RaiseSignal`, `Tick`) may move between any two steps.

**I3.** A pointer of the tree is the key of the struct it points to, `Null`, or
`Dangling` once the struct is erased; `fate` turns `thrown` when a lookup fails and
`wild` when a null or dangling pointer is followed. `QueryTree` and `QueryOutputs`
are the two queries, and i3 may change between them; `HandleMessage` applies one
event. `torn` is a history variable: the last update overlapped with changes.

**Ipc.** A byte is its position in the stream. `done` and `got` are `bytes_written`
and `bytes_read`; `Write(n)` and `ReadPart`, `ReadHeader`, `ReadPayload` are one
`write` or `read` of `n` bytes with what the loop around it does next, down to the
return of `write_message` or `read_message`. Interrupted calls are repeated and
change nothing, so they are stutters. The uninitialised `header_t` starts as any
header.

**Net.** `pc` walks through `update_raw` of one item: `table`, `find`, `wireless`,
`check`, then `socket`, `bind`, `connect` for each address family. `tableAge`,
`checkAge` are `now` minus the stamps of the code; `entryAge`, `ipAge` and `before`
are history. What the interfaces and the remote host do is in the choice of what
the calls return.

**Outputs.** A `Multimap` is its sequence of values and two partial functions into it;
`TryEmplace` keeps, as `std::map` does, what is under a key already. `DisplayAdd`
computes the index halfway between the neighbours' from the scan the code does, and
`MeetOutput` is one turn of `query_tree`'s loop, which skips a name it knows. `Arrivals`
are the lists the reply may hold: the replies themselves, not what `I3` makes of its
numbered outputs, so the order is checked for more outputs than `I3` runs with.

**PulseAudio.** `ConstructFails`, `ConnectFails`, `ConnectBegins` are the outcomes of the
constructor's calls; `ConnectAdvances` and `ConnectEnds` its loop. `AskNobody`,
`AskInVain` and `Ask` are the start of `update_raw` for the three kinds of context,
`ReadAnswer` the turn of its loop in which the list is delivered: `TellSink` and
`TellEnd` are the calls of the callback, for each sink and for the null pointer behind
them; `told` counts them. `ContextFails` is the turn in which the context fails, because the
server is gone (`NoticeLoss`, the case that cannot be put off for ever), refuses the client
or takes too long. `before` and `answered` are history.

**Lemonbar, StatusLine.** A colour is its three bytes. `Fore`, `Back`, `Swap` are `%{F}`,
`%{B}`, `%{R}`, `Glyph` draws a powerline arrow in the colours of that moment.
`update_raw(item, d)` is the set of results the item may have for what it holds, one
per content of its files or reply; `Prints(item, d)` says that `print_raw` comes to its
end, and `print_raw(item, d)` the separators it writes, in parts that each end in the
colours of the empty bar. `PollItem` and `SkipItem` are `StateItem::update`, `PrintItem`
is `StateItem::print` up to its first separator, `PrintPart` and `Separate` the rest,
`PrintDies` and `WeatherThrows` an exception, `SIGFPE` or a loop without an end. `unshown`,
`complete` and `before` are history: what the line does not show, whether the last battery
file had all its lines and no 0 in them, and the background the last separator came from.
`print_used_memory` works on totals above `Cutoff` (1200 bytes) and up to `Largest`
(1200 PiB): below it divides by 0, above it looks for a larger unit for ever, as the product
it compares with is 0 modulo 2^64. A window is known by how its title begins; whether the
focused and the urgent one are the same, which the code decides by their pointers, is the
field `urgent_is_focused`, so that two windows may look alike.

**JsonParser, Startup.** A text is a sequence of characters as far as the parser tells them
apart: `d` is any digit, `ws` any blank, `true`, `false` and `null` count as one character,
and `t`, `f` and `n` begin such a word without finishing it; behind a backslash `n`, `t`, `r`
and `u` are the letters of escapes. The parsers are operators
with a parameter `f` for what is read further on: `Object`, at a key, asks `f` for the value
behind the colon and for the members behind that. `Parser(text)` is the function they
describe together, over the kinds of what is read (`"value"`, `"members"`, `"elements"`,
`"characters"`) and the positions. `Node(text)` is the value, the position behind it, and the exception if there
is one: `ParseException` and `std::string`, which `main` does not catch, the `char const*`
it does, and `undefined` where the parser leaves the text: behind a `\u` that is cut, and
where the error of a word that is none quotes more characters than there are (`Misspelt`).
`Type` writes the first
configuration file character by character, as long as the parser's answer may still
change, so that every text up to `MaxText` is tried, and every document cut anywhere;
`LoadFile` is a turn of `main`'s loop over the paths, `Launch` is `apply_config`. For an entry
without an item string `init_item` compares the names with a string that is gone already
(`Nameless`): either no item is made of it, or anything may happen.

## 3. Runs

| Run | Instance | Shows |
|---|---|---|
| `loop` | 2 items with an event socket each (cooldowns 2 and 1), 1 and 2 values, 2 pending messages, 1 second of work and 1 outside event per iteration; 981 610 states | the safety properties of the loop, `StatusBar`, and that signals and socket data are served |
| `loop_quiet` | 2 items, the second with an event socket, cooldowns 1, 2 outside events per iteration | finding 1 |
| `i3_layout` | 2 outputs, 3 workspaces, 2 windows, urgency, 4 unread events (symmetric windows); 2 442 910 states. The outputs: 8 in a row in any order, 4 stacked or mirrored, 10 in a row, one listed twice | the mirror is exact between updates, and the displays are the monitors from left to right |
| `i3_heal` | 1 output, 2 workspaces, 2 windows, moves to hidden workspaces | updates repair what events cannot |
| `i3_notice` | 1 output, 2 workspaces | finding 2 |
| `ipc_stream` | headers of 3 bytes, payloads of 0 to 2, a buffer of 2, 2 types, 3 packets | packets arrive whole, and `PacketChannel` |
| `ipc_sigpipe` | headers of 2 bytes, a buffer of 3 | finding 3 |
| `net` | a wired and a wireless interface, cooldowns 2 and 3, check cooldowns 3 and 2, one address family | shared table, flags and sockets |
| `pulse` | up to 2 sinks, 1 port name, 3 volumes of which two look alike; 14 080 states | what the callbacks leave behind, and that the inner loops end |
| `pulse_shown` | the same | finding 4 |
| `program` | every text of 7 characters and 12 documents cut anywhere as configuration, with 6 later files; 9 layouts of the 8 items, 2 mount points, 2 temperature files, sizes that wrap at 64; 504 867 states | the parser against the grammar, what a bad configuration leads to, the colours of the line, what is shown, and which items printing never ends the process with |
| `config_ignored` | the same | finding 5 |

Why the bounds are enough. *loop*: a slow item before a fast one is the least in
which the least cooldown belongs to another item, and two values the least in which
a lost change shows; the item with one value changes by failing and recovering. Both have an
event socket, so that the first can keep the second from being served, with one message for
each iteration; `MaxBurst` and `MaxWork` start again with every iteration, so
runs of any length are explored. `Never` is beyond every age that is compared with
anything. *i3*: three workspaces are needed for one that is neither shown nor
focused to be created and to vanish, two windows for a workspace whose focus
passes on; four unread events hold every burst of one action but one: a workspace
moved to another output where it replaces an empty one while a new one takes its
place sends five. With `MaxEvents = 5` the run passes too, in three times the time
(8 097 622 states), and the proofs cover any. *ipc*: no header fits the buffer, so every packet is written and
read in parts, and payloads are absent, shorter than the buffer, or fill it; the proofs
cover the rest. *net*: cooldowns and check cooldowns are ordered in opposite ways, so
either item may read the table for the other, and a check may be due when the
addresses are not. With one address family the loop of the check runs once; the
second family goes through the same steps. *pulse*: a list of none, of one and of more
sinks, with and without an active port, two volumes that round to the same percentage
and one that does not. *outputs*: eight is the largest number of which every order
fits between the indices 0 and 255, so the row runs the bisection to its end; of ten the
last find their index taken.

*program*: seven characters are enough for a list in an object and every way of breaking
it, or for two members with one key; longer texts come from the documents, each cut at
every place and followed by any character. No property of an item depends on the items
beside it except through the colours, which every part gives back; so each of the large
items has a layout of its own, and the others stand in one line. With `Wide` at 64 and
blocks of 1 and 2 bytes a file system with more available blocks than blocks wraps, as
2^64 does, and the sizes lie below, between and above `Cutoff` and `Largest`. The proofs cover the line for any layout and any readings.

Deadlock checking is off where the program may stop: the loop ends with a signal or
an exception, an I3 item with a failed lookup, an end of a socket when its process
leaves, the PulseAudio item when libpulse aborts it or its context has failed, the program when
it finds no configuration or an exception ends it. It is on in
`net`.

## 4. Properties

*EventLoop.* `AsleepShowsModel`: the process goes to sleep only with the bar showing
what the items hold. `BoundedStaleness`: nothing valid on the bar of a sleeping
process is older than its cooldown, any item's cooldown, and one iteration's work.
`ForcedRoundReadsAll`: a forced round leaves no item behind. `ImplementsStatusBar`.
`TerminationServed`, `ForceServed`: signals are served. `SocketServed`: data on an event
socket reaches its item's handler, unless the handlers of earlier descriptors report a change
at every wake-up. Without that exception the property is false for the second of two sockets,
as the loop over them stops at the first change and always begins with the least descriptor;
the first is always served.

*I3.* `InStepWhenDrained`: after an update that crossed no change, the tree is i3's
layout whenever all events are handled, however many there were. `PointersLive`: no
pointer outlives its target, in the middle of a burst too. `FreshEventsApply`: no
event ends the process. These hold as long as windows are not sent to hidden
workspaces. With such moves the mirror goes wrong. `UpdateRepairs`: an update that i3 does
not change under leaves the mirror at i3's layout and titles, whatever it had become.
`HealsWhenQuiet`: so it is repaired once i3 is left alone.

*Ipc.* `PacketsArriveWhole`, `InvalidMeansEnd`, `ImplementsChannel`, and
`SentArrives` for liveness.

*Net.* `ChangesReported` (the contract with the loop), `NothingOutdated` (what is
shown was read within the item's gap and the cooldown of its source, whichever item
read it), `FlagsSetSocketsClosed` (the flags the constructor leaves uninitialised
are never shown, and every path of `connect_to` gives its socket back).

*Outputs.* `OutputsLeftToRight`: whatever the order in which `GET_TREE` lists them, no
output is displayed to the left of one that lies before it, and of up to eight every one
is on display, once. With nine the second half is false.

*PulseAudio.* `ChangesReported` as in `Net`; `HoldsLastSink`: the item holds port,
volume and mute of one sink, the last one listed that has an active port; `LoopsEnd`:
the inner loops end unless the context fails while one of them turns. Without that
exception the property is false: `update_raw` waits for the operation to be done, and a
cancelled one never is; the constructor waits for `ready`. The whole status line hangs
with it, which `EventLoop` leaves out (see Fairness).

*JsonParser, Startup.* `ReadsTheGrammar`: the parser accepts the texts the grammar has a value
for, and makes just that value of them; a text that is read behind its end is not among
them. `CutIsRefused`: what is accepted of a part of a file is
what the whole file says, unless it is a number or nothing. `PrintedReadsBack`: `to_stream`
and the parser agree, for strings without escapes. `ReportedMeansCut`: the exception that
`main` passes over is raised just for texts that stop too early.

*StatusLine.* `ColoursTracked`: Lemonbar is right about the bar's colours after every
separator. `ArrowsJoin`: every arrow has the backgrounds of the two sections it lies
between. `ShownIsHeld`: the process sleeps with a line that shows what the items hold;
`AsleepShowsModel` says so of the loop for items that report their changes, this one that
the items do. `NeverDividesByLeftovers`: no item but Space, Weather and I3 ends the process
in print, unless a battery file lacks a line or has a 0 in it; so the zeros of the
constructors, and what is left of a battery that was taken out, are never divided by. Of the
three others no property is stated: they report success for what they cannot print
(section 5), and nothing in the repository says otherwise. `CountdownIsRight`: the
countdown leads to the next sunrise or sunset, except for hours called 12.

### Fairness

`loop` and `loop_quiet` assume that the scheduler runs the process (weak
fairness of `Step`) and that time passes while it sleeps (weak fairness of `Tick`);
nothing obliges a peer to send, a user to raise a signal, or an item to throw. This
includes that a step of the process completes: an item's update returns, a packet
that has begun arrives, and lemonbar reads its pipe. `i3_heal` adds strong fairness
of `QueryTree`: the loop updates the item again and again, as its cooldown passes
again and again. In `ipc_stream` the reader calls `read_message` repeatedly, and a
writer that has begun a packet goes on; it need not begin another. In `pulse` the item's
thread runs while it is in one of its loops, and a sound server that runs answers what
it was asked; it may end at any time, and the context may fail for another reason, but need
not.

## 5. Findings

1. **`loop_quiet`.** When i3 goes away `read_all` closes the event socket, and nobody
   takes it out of `event_sockets`: every `select` fails with `EBADF`, and the process
   never sleeps again.
2. **`i3_notice`.** A workspace that appears between the two queries makes the update
   throw, and the program ends instead of displaying a notice
   (`include/StateItem.hpp:37`).
3. **`ipc_sigpipe`.** `write_all` handles `EPIPE` (`include/utils/io.hpp:30`), but the signal
   that comes with it ends the process before: only the tests ignore it.
4. **`pulse_shown`.** The list callback stores a result at every call, and the call with the
   null pointer that ends the list (`src/StateItems/PulseAudio.cpp:117`) makes it
   `{false, true}`. So every update of the item counts as failed, and the volume that
   `README.md:118` speaks of is never printed.
5. **`config_ignored`.** `src/statorange.cpp:96` says that errors of an item's configuration
   are ignored, and catches a `std::string`. The constructors throw a `char const*`: an
   item without what its constructor asks for ends the program.

Noticed while modelling, without a statement in the repository that the code
contradicts:

* `print_raw` of I3 may follow a null `last_urgent_window`, since a full update
  forgets urgent windows and is followed by urgent events. Events sent before a query
  and read after it are applied to the newer tree. Closing an unfocused window clears
  the title of the focused one until the next focus event. A window sent to a hidden
  workspace is filed under the one its output shows, and stays there when it is focused.
* A null reply of `query` ends the program with an exception of the parser.
* An item that fails in a forced update within its cooldown waits for the rest of it
  (`src/StateItem.cpp:55` retries an invalid item by leaving its stamp alone).
* A failing `getifaddrs` hides every Net item until the table is due.
* Of two event sockets that have data only the first to report a change is served in a
  wake-up, and the loop begins with the least descriptor each time: a socket before it that
  brings a change at every wake-up keeps an item from ever being notified, which
  `README.md:132` does not expect. Only I3 registers a socket, so it takes two I3 items.
* A missing battery capacity, a file system that `statvfs` cannot read or
  that claims more than 1200 PiB, a weather reply that is JSON but no forecast: each is
  reported as success, and the next print divides by zero, throws or does not end.
* A PulseAudio context that fails while the item turns the loop, because the server is gone,
  refuses the client or is too slow, leaves the whole program in that loop.
* An error about a word that is none quotes five characters, or four, of the text even if it
  is shorter; and an item entry without a name is compared through a reference to a default
  argument that is gone (`src/statorange.cpp:87`).
* Sunrises and sunsets at 12 AM or 12 PM are twelve hours off; the used space of a file system
  counts `f_bavail` in `f_bsize`, its size in `f_frsize`.
* A configuration file that is blank or holds `null` undoes one that was found before it;
  a second member with the same key is dropped. `README.md:93` calls the Net item's option
  `show`, the code reads `display` (`src/StateItems/Net.cpp:203`).

## 6. Proofs

The theorems hold for every value of the constants that satisfies the named
assumptions (`ConstantsAssumption`, `ViewsAssumption`, `IpcAssumption`, `NetAssumption`,
`PulseAssumption`, `LineAssumption`, `ManagerAssumption`, `PointerAssumption`,
`ArrivalsAssumption`, `StartupAssumption`); these only say that sizes and cooldowns are
numbers, that `Never` is out of reach, that what the items read is of the right kind,
that `None`, `Null` and `Dangling` are no workspace and no window, and that brackets, blanks
and digits are among the characters that may be typed. Three theorems of `I3Proofs` and
two of `StatorangeProofs` have a hypothesis beside them, given there.

*EventLoopProofs.* `TypeCorrect`. `SleepsOnlyWhenShown` is not inductive by itself:
what makes it so is `UnshownIsFlagged` (whatever the screen does not show is flagged
by its item, by the handler still at work, or is still to be polled for the first time
in the forced round) and `FlagsCollected` (`updated` holds the flags the round has
passed; asleep there are none). `StalenessBounded` rests on `PassedIsFresh`, which
bounds the age of an item by its cooldown plus the seconds since the round passed it.
`ForcedRoundComplete` is proved along with them. `LoopImplementsStatusBar` maps
`PrintBar` and a quiet `FinishUpdate` to falling asleep, and every step that changes an
item to learning; that no step changes an item asleep, and that falling asleep shows
everything, is the invariant.

*IpcProofs.* The invariant `StreamInv` locates the ends in the stream: the packets lie
one after the other (`LaidOut`), the writer is `done` bytes into the object it writes
in the last (`WriterPlaced`), and the reader `got` bytes into the object it reads in the
first it has not returned (`ReaderPlaced`). The header the reader completes is then
that packet's and no other's (`HeaderFound`: the magic string is never missed), the
payload after it the one that belongs to it (`PayloadCompleted`), and at the end of the
stream everything that was sent has been returned (`EndHasEverything`). From it follow
`StreamTypeCorrect`, `PacketsWhole`, `InvalidIsEnd` and `StreamImplementsChannel`.

*NetProofs.* The invariant `IInv` has a part for each of what the four theorems say.
`TableStamped`: an entry of the shared table is no older than the stamp, and within the
cooldown when an item is looked up; with it `AgesWithPolls`, that what an item shows and
its connection have aged no more than the seconds since it was polled, give
`NetIsUpToDate`, which the items owe each other through one static table. `FlagsSet`
(a check under way has set the flags of the families before, one that is over those of
all; a first check is never skipped, because `Never` is above every cooldown) and
`OneSocket` give `NetFlagsAndSockets`, and `ReportKept` (until the addresses are looked
up nothing shown has changed; at the return a change is flagged or there is none) gives
`NetReportsChanges`. `NetTyped` is the type invariant.

*OutputsProofs.* `DisplayAddArranges`: `display_add` keeps `Arranged`, the invariant of
the map that every index leads to an output that carries it and that the order of the
indices is the order of the places. So an output is never put on the wrong side of
another, for any number of outputs anywhere. Its core is `IndexBounds`: nothing at or
before the new place lies above the lower index, nothing after it below the upper one.
That needs least and greatest elements of sets of numbers, which `LeastExists` takes
from the well-foundedness of `<`. `DisplayAddDisplays`: no displayed output is lost, and
the new one is displayed if its neighbours' indices are two apart. `EightFit` is about the
whole list: `Spread` says how far apart the indices are, and from 0 and `MaxIndex`; one more
output halves that at worst (`DisplayAddSpreads`), so 256 lasts for eight of them (`Room`),
and the ninth may be missing from the bar. As long as there is room the indices and the
names met so far correspond (`Holds`), and counting along the indices (`Positions`) visits
each once. The fold over the list is opened by `AddSteps`: a function on the sets of its
first indices exists, by the least length for which it would not.

*I3Proofs, the desktop.* `Ordered` is what i3 keeps in order about its own desktop. `Follows`
is what each event tells a reader: the layout it knew, the event, and a layout that differs in
just that. `Leads` chains these over a sequence, and each action of i3 is shown to be `Told`:
the events it sends lead from the desktop before to the desktop after it (`SwitchStep` to
`MoveWorkspaceStep`, `ManagerStep`).

*I3Proofs, the item.* `I3Typed` is unconditional, also for an item that has lost track: no method of the
tree leaves a pointer that looks alive to a struct that is gone. For what the mirror shows the
invariant is `Following`: until the next update the tree is the layout some reader knew, and
the unread events lead from it to the desktop. Every event handled takes both one
event further (`HandledMirrors`, with a lemma for each method, `WorkspaceInitMirrors` to
`WindowCloseMirrors`), every action of i3 prolongs the chain by `Told`, and an update that
crossed no change starts it anew (`QueryMirrors`: the two replies together give i3's layout,
output by output of the second). `EventsKeepInStep`, `EventsKeepPointersLive` and `EventsApply`
read the three properties off it. They are proved under `~HiddenMoves`, and TLC finds each of them false
without it: a window that is sent to a hidden workspace is announced with its output alone, from
which the code takes the wrong workspace. `UpdateAlwaysRepairs` needs no such
hypothesis: what was parsed does not depend on what the tree had become (`Read`).

*PulseAudioProofs.* The callbacks are steps of their own, so that no fold over a list is in
the way: `HeldFollows` says that the fields hold the last sink with a port among those
the callback was told of, and `HeldAfterOneMore` what one more does to it. With
`AnsweredOnce` (nothing is held yet of an answer that was not read) and `DoneReported` (an
operation is done only behind the end of the list) follow `PulseTyped`,
`PulseReportsChanges` and `PulseHoldsLastSink`, for any number of sinks.

*StatorangeProofs, the line.* One invariant, `IInv`, carries all: the type invariant, the properties
themselves, `BackToEmpty` (between parts the class is at the colours of the empty bar, and
what is left of a part leads back there), `UnshownIsFlagged` (the same argument as in
`EventLoop`, here down to the items' own comparisons), and `GuardedPrints` (what a valid item
holds can be printed, but for the three items and the battery files excepted above). It rests on three lemmas. `PartsTyped`: whatever an item holds,
it writes closed parts in colours that can be told from their background; below it
`SectionColours`, that the computed colours stay within a byte. `SeparatorWorks`: from a bar
in the colours the class believes in, a separator leads to a bar in the next ones with the
right arrow. `UpdateKeeps`: every update reports what it changes, and what it
reports as read can be printed, with the same exceptions. The theorems are `LineTyped`, `ColoursAreTracked`,
`ArrowsAreJoined`, `NothingStaysUnshown`, `LeftoversAreNeverDividedBy` and
`CountdownIsAlwaysRight`; the last needs no invariant, only the arithmetic of a day.

*JsonParserProofs.* The induction goes from the end of a text to its beginning: what holds of a
position when it holds of all behind it, holds of all (`FromTheEnd`, from the
well-foundedness of `<`). For each parser there is a lemma on what it does, case by case
(`CharactersCases` to `ValueCases`), and one that it depends only on what is read further
on (`CharactersAt` to `ValueStep`). So the function they describe exists, and stays within
the text: `ParserReads`, which all the rest needs, since nothing else says that a
`CHOOSE` or a recursion has a solution. `ParserAgrees` compares a text with a part of it: where
the part was decided (`Decides`: no exception, no blank end, no number at the end) the text
is read in the same way, because a list that is still open where the part ends throws
(`CutEnds`); `BeginningStays` is that for `Node`. `NodeMade`: whatever is read has sequences
for its lists.

*JsonParserProofs, the grammar.* `Grammar` is a function of the parts of a text, from one position to
another, defined by the smaller parts of that part; that it exists is `GrammarIs`, by what is
known of parts up to a size (`FitsBelow`). `NodeReadAsDenoted` says that the parser and the grammar
agree on every text, and has two halves. What is read is in the grammar (`ReadsSoundly`): from the
end of the text, like the above, each part that a parser has taken is one the grammar has for what
it made of it (`CharactersSound`, `NumberSound`, `ArraySound`, `ObjectSound`, `ValueSound`). What is
in the grammar is read (`ReadsCompletely`): from the smaller parts to the larger ones, whatever a
part denotes is what a parser makes of it wherever it is enclosed by what the parser expects around
it (`CharactersComplete`, `SoleComplete`, `ElementsComplete`, `MembersComplete`). The hypothesis on
the enclosure is needed because the grammar splits a list at any comma, also at one inside a string
or an inner list: that such a split denotes nothing is a consequence, not an assumption. Numbers are
the exception to "wherever": a part that ends within the digits of one is a number too, and the
parser reads on (`ReadTo`). From both together the grammar is unambiguous: a text that is accepted
denotes one value. `FileReadAsDenoted` states it of every file of every behaviour of the program.

*StatorangeProofs, the configuration.* `Completable`: the text, from a position on, can be
completed by a value or none and some closing brackets, no more than are opened from
there on (`Opened`, counted by `Cardinality`). Going backwards, whoever stops with the
`char const*` does so because the text ends where a delimiter, a key or a value is awaited, or
because what it read ahead was cut in this way; then one more bracket completes it too
(`ObjectCompletes`, `ArrayCompletes`, `ValueCompletes`). What was read before the cut
stays as it is by `ParserAgrees`. The invariant of the program is `Configured`: the file holds a
text and `config_json` a value whose lists are sequences. `CutFileIsRefused` and
`ReportedFileIsCut` need its first half, `ProgramDrivesLine` the second: `Items` is a
sequence of items then (`ItemsAre`), so `Launch` constructs a layout. That theorem and
`ProgramsLine` are stated for `EveryLayout`, that `Layouts` is every sequence of items: with
fewer layouts a configuration may ask for one that is not among them.

Only model-checked: `PrintedReadsBack`, whose printer is recursive over the values themselves, and
no function of positions; and all liveness (`SentArrives`, `LoopsEnd`, `HealsWhenQuiet`, and that
signals and data are served), which needs fairness and ENABLED, out of the prover's reach.

## 7. Not modelled

* Text: what items print between separators, icons, buttons, log lines; the characters of
  numbers and strings in JSON, beyond what tells texts apart.
* Starting lemonbar as a child process, and the pipe to it.
* `query`, which is one `write_message` and one `read_message`; the local domain of
  `connect_to`; conversions of addresses.
* The reuse of a descriptor's number after `read_all` closed it, and the second close
  by its owner.
* An endless flood of events or signals: the handler recurses once per event and
  would starve everything else. `MaxBurst` bounds what happens in one iteration.
* A clock that is set back; a lemonbar that stops reading; a Weather line that is not
  reprinted when the sun rises.
* `UniqueResource` by itself: moving and releasing are value semantics of C++ without
  interleavings; the descriptors it holds are in `Net` and `EventLoop`.
* The logger and the exception classes, which only carry text.
* In i3: floating windows, titles, binding modes, outputs that come and go, windows
  that are urgent when they are moved.
* `oldsrc/`, which is not part of the build.

## 8. Plan

Modules, the most valuable first:

1. The reuse of a descriptor's number after `read_all` closed it, composed with
   `EventLoop`'s `sock`. Property: a descriptor is closed by its owner, once.
2. `query` over `Ipc`, with the null reply, composed with `I3`.
3. The conversions of `Address.cpp` that `connect_to` takes, on bytes.

Proofs: the deaths of the constructors in `Startup`.
