------------------------------ MODULE StatusLine ------------------------------
(***************************************************************************)
(* The items that read a value and print it, and the line they print on:   *)
(* update_raw of Battery, Load, Space, Date and Weather, print_raw of every *)
(* item, StateItem::print around it, and the separators that reach          *)
(* lemonbar.  What Net, PulseAudio and I3 hold is any data within the       *)
(* contract of EventLoop!UpdateRaw; their own modules say where it comes    *)
(* from.                                                                   *)
(*                                                                         *)
(* Printing divides, looks keys up and follows pointers, and nothing       *)
(* catches an exception or SIGFPE there: an item is safe because it is      *)
(* printed only after an update that reported success, as far as success    *)
(* means that there is something to print.                                 *)
(***************************************************************************)
EXTENDS Lemonbar, Sequences

CONSTANTS
  Layouts,       \* what may be configured: sequences of items
  ShowFailed,    \* the items that print a notice while they are invalid
  Charges,       \* numbers the battery file may hold
  Loads,         \* load averages, in hundredths
  Memories,      \* bytes of memory, and of disk space in blocks
  Temps,         \* degrees, of a processor and outside
  MaxTemps,      \* bound: temperature files of the Load item
  Mounts,        \* mount points of the Space item
  Units,         \* block sizes a file system may report
  Wide,          \* 2^64, where the sizes of the Space item wrap
  Cutoff,        \* print_used_memory: the largest number printed in bytes,
  Largest,       \* ... and in the last unit; cutoff * unit_factor wraps to 0 behind it
  Tight, Roomy,  \* free bytes at which a file system turns red, and green
  KnownCodes,    \* weather codes that have an icon
  SunTimes,      \* sunrises and sunsets as wttr.in writes them
  Clock,         \* minutes since midnight at which a line may be printed
  Minutes,       \* what the Date item may print
  Volumes,       \* per cent
  I3Bars         \* what the I3 item may find on its display: sequences of workspaces

Absent     == "absent"    \* a weather code, or a time of it, that is not in the reply
NoDegrees  == -1000       \* a temperature that is not in the reply
Unreadable == 999         \* what Load holds for a file it could not read
NoMinute   == 0 - 1

Windows == {"plain", "icon", "untitled"}   \* by how their title begins
Null    == "null"

\* Two windows may look alike: urgent_is_focused compares the pointers.
Workspace ==
  {ws \in [focused : BOOLEAN, urgent : BOOLEAN, urgent_is_focused : BOOLEAN,
           focused_window : Windows \cup {Null}, last_urgent_window : Windows \cup {Null}] :
     /\ ws.urgent_is_focused => ws.focused_window = ws.last_urgent_window
     /\ ws.focused_window = Null /\ ws.last_urgent_window = Null => ws.urgent_is_focused}

LineItems ==
  {"Battery", "Load", "Space", "Date", "Weather", "Net", "PulseAudio", "I3"}

ASSUME LineAssumption ==
  /\ Layouts # {} /\ Layouts \subseteq Seq(LineItems)
  /\ Charges \subseteq Nat /\ Loads \subseteq Nat /\ Memories \subseteq Nat
  /\ Temps \subseteq Nat /\ Volumes \subseteq Nat /\ Units \subseteq Nat
  /\ Volumes # {} /\ I3Bars # {}
  /\ MaxTemps \in Nat /\ Mounts \in Nat /\ Wide \in Nat \ {0}
  /\ Cutoff \in Nat /\ Largest \in Nat /\ Cutoff < Largest
  /\ Tight \in Nat /\ Roomy \in Nat /\ Tight < Roomy
  /\ Absent \notin KnownCodes /\ NoDegrees \notin Temps
  /\ SunTimes \subseteq [hour : 1 .. 12, minute : 0 .. 59, pm : BOOLEAN]
  /\ Clock \subseteq 0 .. 1439 /\ NoMinute \notin Minutes
  /\ I3Bars \subseteq Seq(Workspace)

VARIABLES
  items,         \* the configured items, in the order they are printed in
  pc,            \* start, update, print, wait, or dead: an exception, a signal, or a
                 \* loop that does not end
  cursor,        \* the next item to update or to print
  updated,       \* Statorange::update's local
  \* -- per item
  held,          \* what it will print
  valid, changed,
  unshown,       \* history: the line last printed shows something else
  complete,      \* history: nothing was missing in what the last update read
  \* -- the line
  parts,         \* what the item being printed has still to print ...
  todo,          \* ... and the separators of the part it is in
  current,       \* Lemonbar::current_bg and current_fg
  bar,           \* the real colours, and the glyph just drawn
  before         \* history: the real background the last separator came from

loopVars == <<items, pc, cursor, updated>>
itemVars == <<held, valid, changed, unshown, complete>>
lineVars == <<parts, todo, current, bar, before>>
vars     == <<loopVars, itemVars, lineVars>>

Here == 1 .. Len(items)

------------------------------------------------------------------------------
(* What the items hold *)

Battery == [status : {"not_found", "charging", "full", "discharging"},
            discharge_rate : Charges \cup {0}, max_capacity : Charges \cup {0},
            current_level : Charges \cup {0}]
Readings == UNION {[1 .. n -> Temps \cup {Unreadable}] : n \in 0 .. MaxTemps}
Load    == [cpu_load : Loads \cup {0}, total_ram : Memories \cup {0},
            free_ram : Memories \cup {0}, cpu_temps : Readings]
Space   == [1 .. Mounts -> [size : 0 .. Wide - 1, used : 0 .. Wide - 1]]
Date    == Minutes \cup {NoMinute}
Weather == [temperature : Temps \cup {NoDegrees}, condition_code : KnownCodes \cup {Absent, "unknown"},
            midnight_to_sunrise : 0 .. 1499, midnight_to_sunset : 0 .. 1499]
Net     == [up : BOOLEAN, display : {"IPv4", "IPv6", "Both", "None"},
            ipv4 : BOOLEAN, ipv6 : BOOLEAN,
            ipv4_connected : BOOLEAN, ipv6_connected : BOOLEAN]
I3      == I3Bars

Data(item) ==
  CASE item = "Battery"    -> Battery
    [] item = "Load"       -> Load
    [] item = "Space"      -> Space
    [] item = "Date"       -> Date
    [] item = "Weather"    -> Weather
    [] item = "Net"        -> Net
    [] item = "PulseAudio" -> Volumes
    [] item = "I3"         -> I3

\* What an update stores and returns.
Result(ok, changed_, data) == [ok |-> ok, changed |-> changed_, data |-> data, complete |-> TRUE]

------------------------------------------------------------------------------
(* update_raw *)

\* The lines of the battery file; any of them may be missing, and leaves its
\* field as it was.
BatteryFile ==
  [status : {"charging", "full", "discharging", Absent},
   discharge_rate : Charges, max_capacity : Charges, current_level : Charges,
   lines : SUBSET {"POWER_NOW", "ENERGY_FULL_DESIGN", "ENERGY_NOW"}]

\* A battery that says how it is, of a size, and discharging at some rate.
WholeBattery(f) ==
  /\ f.lines = {"POWER_NOW", "ENERGY_FULL_DESIGN", "ENERGY_NOW"} /\ f.status # Absent
  /\ 0 < f.max_capacity /\ f.current_level <= f.max_capacity
  /\ f.status = "discharging" => 0 < f.discharge_rate

\* What is read of the file replaces the field; without a file only the status changes.
ReadBattery(d, f) ==
  [status         |-> IF f.status = Absent THEN d.status ELSE f.status,
   discharge_rate |-> IF "POWER_NOW" \in f.lines THEN f.discharge_rate ELSE d.discharge_rate,
   max_capacity   |-> IF "ENERGY_FULL_DESIGN" \in f.lines THEN f.max_capacity
                      ELSE d.max_capacity,
   current_level  |-> IF "ENERGY_NOW" \in f.lines THEN f.current_level ELSE d.current_level]

Battery_update_raw_KeepsStatus(d) ==   \* mutant
  {Result(TRUE, TRUE, [d EXCEPT !.max_capacity = 0])} \cup
  {[Result(TRUE, TRUE, ReadBattery(d, f)) EXCEPT !.complete = WholeBattery(f)] : f \in BatteryFile}
Battery_update_raw(d) ==
  {Result(TRUE, TRUE, [d EXCEPT !.status = "not_found"])} \cup
  {[Result(TRUE, TRUE, ReadBattery(d, f)) EXCEPT !.complete = WholeBattery(f)] : f \in BatteryFile}

\* The file with the memory is always there, and tells of an amount that has a unit;
\* temperature files may not be.
Load_update_raw(d) ==
  {Result(\A i \in DOMAIN r.cpu_temps : r.cpu_temps[i] # Unreadable, TRUE, r) :
     r \in {l \in Load : /\ Cutoff < l.total_ram /\ l.total_ram <= Largest
                       /\ l.free_ram <= l.total_ram}}

\* statvfs; when it fails the numbers are those it was called with, all 0.
FileSystem == [f_blocks : Memories, f_bavail : Memories, f_frsize : Units, f_bsize : Units]
Failed     == [f_blocks |-> 0, f_bavail |-> 0, f_frsize |-> 0, f_bsize |-> 0]

get_space_usage(s) ==
  LET size == (s.f_frsize * s.f_blocks) % Wide
  IN  [size |-> size, used |-> (size - s.f_bavail * s.f_bsize) % Wide]

Space_update_raw_LastOnly(d) ==   \* mutant
  {LET new == [m \in 1 .. Mounts |-> get_space_usage(r[m])]
   IN  Result(TRUE, Mounts > 0 /\ new[Mounts] # d[Mounts], new) :
     r \in [1 .. Mounts -> FileSystem \cup {Failed}]}
Space_update_raw(d) ==
  {LET new == [m \in 1 .. Mounts |-> get_space_usage(r[m])]
   IN  Result(TRUE, \E m \in 1 .. Mounts : new[m] # d[m], new) :
     r \in [1 .. Mounts -> FileSystem \cup {Failed}]}

Date_update_raw(d) == {Result(TRUE, t # d, t) : t \in Minutes}

\* am_pm_to_duration_since_midnight, "08:30 PM"
am_pm_to_duration_since_midnight_Ignores(t) == t.hour * 60 + t.minute   \* mutant
am_pm_to_duration_since_midnight(t) ==
  (IF t.pm THEN t.hour + 12 ELSE t.hour) * 60 + t.minute

\* A reply that is JSON but not the expected document leaves every string empty;
\* what the characters behind an empty string's end make of the times is not
\* determined, and stands for itself as 0.
EmptyReply == [temperature |-> NoDegrees, condition_code |-> Absent,
               midnight_to_sunrise |-> 0, midnight_to_sunset |-> 0]

\* The four strings that are taken from the expected document.
Report == [temperature : Temps, code : KnownCodes \cup {"unknown"},
           sunrise : SunTimes, sunset : SunTimes]

\* A request that fails, a reply that is no JSON from its first character on (both
\* are caught), an empty or foreign document, and the expected one.
Weather_update_raw(d) ==
  {Result(FALSE, TRUE, d), Result(TRUE, TRUE, EmptyReply)} \cup
  {Result(TRUE, TRUE,
     [temperature |-> w.temperature, condition_code |-> w.code,
      midnight_to_sunrise |-> am_pm_to_duration_since_midnight(w.sunrise),
      midnight_to_sunset  |-> am_pm_to_duration_since_midnight(w.sunset)]) :
     w \in Report}

\* Items with a module of their own: EventLoop's contract.
OtherItem(item, d) ==
  {Result(ok, ~ok \/ new # d, new) : ok \in BOOLEAN, new \in Data(item)}

update_raw(item, d) ==
  CASE item = "Battery" -> Battery_update_raw(d)
    [] item = "Load"    -> Load_update_raw(d)
    [] item = "Space"   -> Space_update_raw(d)
    [] item = "Date"    -> Date_update_raw(d)
    [] item = "Weather" -> Weather_update_raw(d)
    [] OTHER            -> OtherItem(item, d)

------------------------------------------------------------------------------
(* print_raw: the separators an item writes, part by part; text follows each *)

Call == [sep : Separators, style : {"common", "fire", "round", "none"},
         same : BOOLEAN, next : Pair]

\* separator with the next colours, and without: the current ones again.
To(sep, style, pair) == [sep |-> sep, style |-> style, same |-> FALSE, next |-> pair]
Again(sep, style)    == [sep |-> sep, style |-> style, same |-> TRUE, next |-> white_on_black]
Left(pair)           == To("left", "common", pair)

\* Every part goes back to the empty bar.
Part == {p \in Seq(Call) : p # << >> /\ ~p[Len(p)].same /\ p[Len(p)].next = white_on_black}
Closed(sections, sep, style) == Append(sections, To(sep, style, white_on_black))

\* print_used_memory divides by a tenth of the unit, which is 0 for single bytes, and
\* looks for a larger unit for ever when the last one is too small.
print_used_memory_Works(total) == Cutoff < total /\ total <= Largest

level(d) == (100 * d.current_level) \div d.max_capacity
rem_minutes(d) == (60 * d.current_level) \div d.discharge_rate

Battery_parts(d) ==
  CASE d.status = "charging" -> <<Closed(<<Left(neutral)>>, "left", "common")>>
    [] d.status = "full"     -> <<Closed(<<Left(info)>>, "left", "common")>>
    [] d.status = "discharging" ->
         <<Closed(<<Left(section_colors(0 - rem_minutes(d), -60, -10)),
                    Again("left", "common")>>, "left", "common")>>
    [] d.status = "not_found" -> << >>

Load_parts(d) ==
  LET temps == [i \in DOMAIN d.cpu_temps |->
                 To("left", IF i = 1 THEN "fire" ELSE "none",
                    section_colors(d.cpu_temps[i], 50, 90))]
  IN  <<Closed(<<To("left", "fire", section_colors(d.cpu_load, 400, 1200)),
                 To("left", "fire", section_colors(0 - d.free_ram, 0 - (d.total_ram \div 2), 0))>>
                 \o temps, "left", "fire")>>

Space_parts(d) ==
  IF Mounts = 0 THEN << >>
  ELSE <<Closed([m \in 1 .. Mounts |->
                  Left(section_colors(0 - ((d[m].size - d[m].used) % Wide), 0 - Roomy, 0 - Tight))],
                "left", "common")>>

Date_parts(d) == <<Closed(<<Left(active)>>, "left", "common")>>

abs(n) == IF n < 0 THEN 0 - n ELSE n
Weather_parts(d) ==
  <<Closed(<<Left(section_colors(abs(d.temperature - 15), 10, 15)), Again("left", "common")>>,
           "left", "common")>>

Net_parts(d) ==
  LET Shown(connected) == Left(IF connected THEN neutral ELSE info)
      v4 == IF d.ipv4 THEN <<Shown(d.ipv4_connected)>> ELSE << >>
      v6 == IF d.ipv6 THEN <<Shown(d.ipv6_connected)>> ELSE << >>
      addresses == CASE d.display = "None" -> <<Shown(d.ipv4_connected \/ d.ipv6_connected)>>
                     [] d.display = "IPv6" -> v6 \o v4
                     [] OTHER              -> v4 \o v6
  IN  IF d.up THEN <<Closed(<<Left(neutral)>> \o addresses, "left", "common")>> ELSE << >>

PulseAudio_parts(d) == <<Closed(<<Left(section_colors(d, 101, 150))>>, "left", "common")>>

\* A title that begins with an icon needs no separator before it.
Title(window) == IF window = "plain" THEN <<Again("right", "round")>> ELSE << >>

Workspace_part(ws) ==
  LET colors == IF ws.urgent /\ ws.urgent_is_focused THEN urgent
                ELSE IF ws.focused THEN active ELSE inactive
      focused == IF ws.focused_window = Null THEN << >> ELSE Title(ws.focused_window)
      other == IF ws.urgent /\ ~ws.urgent_is_focused
               THEN <<To("right", "round", urgent)>> \o Title(ws.last_urgent_window)
               ELSE << >>
  IN  Closed(<<To("right", "round", colors)>> \o focused \o other, "right", "round")

I3_parts(d) == [n \in DOMAIN d |-> Workspace_part(d[n])]

print_raw(item, d) ==
  CASE item = "Battery"    -> Battery_parts(d)
    [] item = "Load"       -> Load_parts(d)
    [] item = "Space"      -> Space_parts(d)
    [] item = "Date"       -> Date_parts(d)
    [] item = "Weather"    -> Weather_parts(d)
    [] item = "Net"        -> Net_parts(d)
    [] item = "PulseAudio" -> PulseAudio_parts(d)
    [] item = "I3"         -> I3_parts(d)

\* is_unicode looks at the first character of a title.
WorkspacePrints(ws) ==
  /\ ws.focused_window # "untitled"
  /\ ws.urgent /\ ~ws.urgent_is_focused =>
       ws.last_urgent_window \notin {Null, "untitled"}

\* Weather::icons
HasIcon(code) == code \in KnownCodes

\* Printing comes to its end: no division by zero, no icon looked for in vain, no
\* string that is no number, no null pointer, no unit that is not there.
Prints(item, d) ==
  CASE item = "Battery" ->
         /\ d.status \in {"charging", "discharging"} => d.max_capacity # 0 /\ level(d) < 255
         /\ d.status = "discharging" => d.discharge_rate # 0
    [] item = "Load"    -> print_used_memory_Works(d.total_ram)
    [] item = "Space"   -> \A m \in 1 .. Mounts : print_used_memory_Works(d[m].size)
    [] item = "Weather" -> d.temperature # NoDegrees /\ HasIcon(d.condition_code)
    [] item = "I3"      -> \A n \in DOMAIN d : WorkspacePrints(d[n])
    [] OTHER            -> TRUE

\* The icon's day or night, and the countdown behind it.
Sky(d, since_midnight) ==
  [day  |-> d.midnight_to_sunrise <= since_midnight /\ since_midnight < d.midnight_to_sunset,
   left |-> IF since_midnight < d.midnight_to_sunrise
            THEN d.midnight_to_sunrise - since_midnight
            ELSE IF since_midnight < d.midnight_to_sunset
            THEN d.midnight_to_sunset - since_midnight
            ELSE d.midnight_to_sunrise + 1440 - since_midnight]

------------------------------------------------------------------------------
(* The loop: Statorange::update and print, StateItem::update and print *)

PollItem ==
  /\ pc = "update" /\ cursor \in Here
  /\ \E r \in update_raw(items[cursor], held[cursor]) :
       /\ held' = [held EXCEPT ![cursor] = r.data]
       /\ changed' = [changed EXCEPT ![cursor] = @ \/ r.ok # valid[cursor] \/ r.changed]
       /\ valid' = [valid EXCEPT ![cursor] = r.ok]
       /\ unshown' = [unshown EXCEPT ![cursor] =
                       @ \/ r.ok # valid[cursor] \/ r.data # held[cursor]]
       /\ complete' = [complete EXCEPT ![cursor] = r.complete]
  /\ updated' = (changed'[cursor] \/ updated)
  /\ cursor' = cursor + 1
  /\ UNCHANGED <<items, pc, lineVars>>

\* The cooldown of the item is not over (time is EventLoop's).
SkipItem ==
  /\ pc = "update" /\ cursor \in Here
  /\ updated' = (changed[cursor] \/ updated)
  /\ cursor' = cursor + 1
  /\ UNCHANGED <<items, pc, itemVars, lineVars>>

\* A reply that ends in the middle of a string or a list: the parser throws what
\* Weather::update_raw does not catch.
WeatherThrows ==
  /\ pc = "update" /\ cursor \in Here /\ items[cursor] = "Weather"
  /\ pc' = "dead"
  /\ UNCHANGED <<items, cursor, updated, itemVars, lineVars>>

FinishUpdate ==
  /\ pc = "update" /\ cursor = Len(items) + 1
  /\ IF updated THEN pc' = "print" /\ cursor' = 1 ELSE pc' = "wait" /\ UNCHANGED cursor
  /\ UNCHANGED <<items, updated, itemVars, lineVars>>

Notice == <<To("vertical", "common", warn), To("vertical", "common", white_on_black)>>

\* StateItem::print, up to the first separator.
PrintItem ==
  /\ pc = "print" /\ cursor \in Here /\ parts = << >> /\ todo = << >>
  /\ \/ /\ valid[cursor] /\ Prints(items[cursor], held[cursor])
        /\ parts' = print_raw(items[cursor], held[cursor])
     \/ /\ ~valid[cursor]
        /\ parts' = IF items[cursor] \in ShowFailed THEN <<Notice>> ELSE << >>
  /\ changed' = [changed EXCEPT ![cursor] = FALSE]
  /\ unshown' = [unshown EXCEPT ![cursor] = FALSE]
  /\ cursor' = cursor + 1
  /\ UNCHANGED <<items, pc, updated, held, valid, complete, todo, current, bar, before>>

\* An exception or a signal, somewhere in print_raw, or no end of it: the line is
\* never finished.
PrintDies ==
  /\ pc = "print" /\ cursor \in Here /\ parts = << >> /\ todo = << >>
  /\ valid[cursor] /\ ~Prints(items[cursor], held[cursor])
  /\ pc' = "dead"
  /\ UNCHANGED <<items, cursor, updated, itemVars, lineVars>>

PrintPart ==
  /\ todo = << >> /\ parts # << >>
  /\ todo' = Head(parts) /\ parts' = Tail(parts)
  /\ UNCHANGED <<loopVars, itemVars, current, bar, before>>

Separate ==
  /\ todo # << >>
  /\ LET call == Head(todo)
         next == IF call.same THEN current ELSE call.next
     IN  /\ bar' = separator(bar, current, call.sep, call.style, next)
         /\ current' = next
  /\ before' = bar.bg
  /\ todo' = Tail(todo)
  /\ UNCHANGED <<loopVars, itemVars, parts>>

\* The end of the line, and sleep.
FinishPrint ==
  /\ pc = "print" /\ cursor = Len(items) + 1 /\ parts = << >> /\ todo = << >>
  /\ bar' = NewLine(bar) /\ before' = Black
  /\ pc' = "wait"
  /\ UNCHANGED <<items, cursor, updated, itemVars, parts, todo, current>>

Wake ==
  /\ pc = "wait"
  /\ pc' = "update" /\ cursor' = 1 /\ updated' = FALSE
  /\ UNCHANGED <<items, itemVars, lineVars>>

\* What the constructors leave.  The line is the empty one until the first print.
Initially(item) ==
  CASE item = "Battery" -> [status |-> "not_found", discharge_rate |-> 0,
                            max_capacity |-> 0, current_level |-> 0]
    [] item = "Load"    -> [cpu_load |-> 0, total_ram |-> 0, free_ram |-> 0,
                            cpu_temps |-> << >>]
    [] item = "Space"   -> [m \in 1 .. Mounts |-> [size |-> 0, used |-> 0]]
    [] item = "Date"    -> NoMinute
    [] item = "Weather" -> EmptyReply
    [] OTHER            -> CHOOSE d \in Data(item) : TRUE

Init ==
  /\ items = << >> /\ pc = "start" /\ cursor = 1 /\ updated = FALSE
  /\ held = << >> /\ valid = << >> /\ changed = << >>
  /\ unshown = << >> /\ complete = << >>
  /\ parts = << >> /\ todo = << >>
  /\ current = white_on_black
  /\ bar = [bg |-> Black, fg |-> White, glyph |-> NoGlyph] /\ before = Black

\* The constructors of the items of layout l: they do not initialise `changed`.
Construct(l) ==
  /\ pc = "start" /\ pc' = "update"
  /\ items' = l
  /\ held' = [i \in DOMAIN l |-> Initially(l[i])]
  /\ valid' = [i \in DOMAIN l |-> FALSE] /\ changed' \in [DOMAIN l -> BOOLEAN]
  /\ unshown' = [i \in DOMAIN l |-> FALSE] /\ complete' = [i \in DOMAIN l |-> TRUE]
  /\ UNCHANGED <<cursor, updated, lineVars>>

Round ==
  \/ PollItem \/ SkipItem \/ WeatherThrows \/ FinishUpdate
  \/ PrintItem \/ PrintDies \/ PrintPart \/ Separate \/ FinishPrint
  \/ Wake

Next == (\E l \in Layouts : Construct(l)) \/ Round

Spec == Init /\ [][Next]_vars

------------------------------------------------------------------------------
(* Properties *)

\* Every variable has its type.
TypeOK ==
  /\ items \in Layouts \cup {<< >>}
  /\ pc \in {"start", "update", "print", "wait", "dead"}
  /\ cursor \in 1 .. Len(items) + 1 /\ updated \in BOOLEAN
  /\ held = [i \in Here |-> held[i]]
  /\ \A i \in Here : held[i] \in Data(items[i])
  /\ valid \in [Here -> BOOLEAN] /\ changed \in [Here -> BOOLEAN]
  /\ unshown \in [Here -> BOOLEAN] /\ complete \in [Here -> BOOLEAN]
  /\ parts \in Seq(Part) /\ todo \in Seq(Call)
  /\ current \in Pair
  /\ bar \in [bg : Colour, fg : Colour, glyph : [bg : Colour, fg : Colour]]
  /\ before \in Colour

\* The class is right about the colours of the bar after every separator, on every
\* line: whatever is printed in a section is printed in the colours the item chose,
\* and none of it in the colour of its background (Lemonbar::separator).
ColoursTracked ==
  /\ bar.bg = current.bg /\ bar.fg = current.fg
  /\ bar.bg # bar.fg

\* A powerline arrow between two sections is drawn in just their two backgrounds,
\* and one inside a section in a colour of its own on it.
ArrowsJoin ==
  bar.glyph # NoGlyph =>
    IF bar.bg = before THEN bar.glyph = [fg |-> Black, bg |-> before]
    ELSE \/ bar.glyph = [fg |-> bar.bg, bg |-> before]
         \/ bar.glyph = [fg |-> before, bg |-> bar.bg]

\* The process goes to sleep with a line that shows what every item holds: the
\* items report what they read as changed whenever it is (update_raw of Space and
\* Date compare it themselves).
ShownIsHeld == pc = "wait" => \A i \in Here : ~unshown[i]

\* Why: what is not shown is flagged, and the flags are collected.
UnshownIsFlagged ==
  /\ pc # "dead" => \A i \in Here : unshown[i] => changed[i]
  /\ pc = "update" => \A i \in Here : i < cursor /\ changed[i] => updated
  /\ pc = "print" => \A i \in Here : i < cursor => ~changed[i]
  /\ pc = "wait" => \A i \in Here : ~changed[i]

\* Items that call a reading a success which they cannot print.
Unguarded == {"Space", "Weather", "I3"}

\* The other items never end the process, whatever they read, lost and read again: the
\* zeros of the constructors, and what is left of earlier readings, are never divided
\* by (Battery and Load), unless a battery file lacks a line, or has a size or a rate
\* of 0 in it.
NeverDividesByLeftovers ==
  pc = "dead" => \E i \in Here : /\ i = cursor
                                /\ items[i] \in Unguarded \cup {"Battery"}
                                /\ items[i] = "Battery" => ~complete[i]

\* What `date` would make of such a time, and what the item prints for a day.
Minute(t) == (t.hour % 12) * 60 + t.minute + (IF t.pm THEN 720 ELSE 0)
SkyOf(rise, set, now) ==
  Sky([EmptyReply EXCEPT !.midnight_to_sunrise = am_pm_to_duration_since_midnight(rise),
                         !.midnight_to_sunset  = am_pm_to_duration_since_midnight(set)], now)
LeadsToNext(rise, set, now) ==
  LET s == SkyOf(rise, set, now)
  IN  /\ s.left > 0
      /\ (now + s.left) % 1440 = Minute(IF s.day THEN set ELSE rise)
      /\ \A t \in {rise, set} : now < Minute(t) => now + s.left <= Minute(t)

\* The countdown of the Weather item leads to the next sunrise or sunset, and the
\* icon is that of the day when it is a sunset, unless one of them falls into an
\* hour that is called 12.
CountdownIsRight ==
  pc = "print" =>
    \A rise, set \in {t \in SunTimes : t.hour # 12}, now \in Clock :
      Minute(rise) < Minute(set) => LeadsToNext(rise, set, now)
==============================================================================
