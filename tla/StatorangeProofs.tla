--------------------------- MODULE StatorangeProofs ---------------------------
(***************************************************************************)
(* Proofs about Statorange: about the line, for any layout of items and any *)
(* readings; about the configuration, for any text a file may hold; and that *)
(* the program, from its configuration on, drives such a line.             *)
(***************************************************************************)
EXTENDS Statorange, JsonParserProofs, FiniteSetTheorems

------------------------------------------------------------------------------
(* Colours *)

\* Lemonbar::section_colors stays within a byte between its bounds.
LEMMA ByteOf ==
  ASSUME NEW a \in Nat, NEW b \in Nat, a < b
  PROVE  (a * 256) \div b \in Byte
<1> DEFINE q == (a * 256) \div b
<1>1. q \in Int /\ q * b <= a * 256 /\ a * 256 < (q + 1) * b
  BY SMTT(30)
<1>2. 0 <= q
  BY <1>1, SMTT(30)
<1>3. q <= 255
  BY <1>1, SMTT(30)
<1> QED  BY <1>1, <1>2, <1>3 DEF Byte

LEMMA SectionColours ==
  ASSUME NEW value \in Int, NEW least \in Int, NEW most \in Int, least < most
  PROVE  section_colors(value, least, most) \in Pair
<1>1. neutral \in Pair /\ warn \in Pair
  BY DEF neutral, warn, Pair, Colour, Byte, Grey
<1>2. CASE least < value /\ value < most
  <2> DEFINE byte == ((value - least) * 256) \div (most - least)
  <2> HIDE DEF byte
  <2>1. byte \in Byte
    <3>1. value - least \in Nat /\ most - least \in Nat /\ value - least < most - least
      BY <1>2
    <3> QED  BY <3>1, ByteOf DEF byte
  <2>2. 127 - byte \div 2 \in Byte
    BY <2>1 DEF Byte
  <2>3. <<byte, 127 - byte \div 2, 0>> \in Colour /\ Grey \in Colour
    BY <2>1, <2>2 DEF Colour, Byte, Grey
  <2>4. <<byte, 127 - byte \div 2, 0>> # Grey
    BY DEF Grey
  <2> QED  BY <1>2, <2>3, <2>4 DEF section_colors, Pair, byte
<1> QED  BY <1>1, <1>2 DEF section_colors

\* The fixed colours are pairs, and the separators' arguments are calls.
LEMMA Coloring ==
  {white_on_black, inactive, active, urgent, neutral, info, warn} \subseteq Pair
BY DEF white_on_black, inactive, active, urgent, neutral, info, warn, Pair, Colour, Byte,
       Black, White, Grey

LEMMA Calls ==
  ASSUME NEW sep \in Separators, NEW style \in {"common", "fire", "round", "none"},
         NEW pair \in Pair
  PROVE  To(sep, style, pair) \in Call /\ Again(sep, style) \in Call
BY Coloring DEF To, Again, Call

\* What is closed is a part.
LEMMA ClosedIsPart ==
  ASSUME NEW sections \in Seq(Call), NEW sep \in Separators,
         NEW style \in {"common", "fire", "round", "none"}
  PROVE  /\ Closed(sections, sep, style) \in Part
         /\ <<Closed(sections, sep, style)>> \in Seq(Part)
<1> DEFINE last == To(sep, style, white_on_black)
<1>1. last \in Call /\ ~last.same /\ last.next = white_on_black
  BY Calls, Coloring DEF To
<1> HIDE DEF last
<1> DEFINE s == Append(sections, last)
<1>2. s \in Seq(Call) /\ Len(s) = Len(sections) + 1 /\ s[Len(s)] = last
  BY <1>1
<1> HIDE DEF s
<1>3. s # << >>
  BY <1>2
<1>4. Closed(sections, sep, style) \in Part
  BY <1>1, <1>2, <1>3 DEF Closed, Part, s, last
<1> QED  BY <1>4

------------------------------------------------------------------------------
(* What the items write is made of parts *)

LEMMA Numbers ==
  /\ \A x \in Loads \cup {0} : x \in Nat
  /\ \A x \in Memories \cup {0} : x \in Nat
  /\ \A x \in Charges : x \in Nat
  /\ \A x \in Units : x \in Nat
  /\ \A x \in Temps \cup {Unreadable} : x \in Int
  /\ \A x \in Temps \cup {NoDegrees} : x \in Int
<1>1. /\ Loads \subseteq Nat /\ Memories \subseteq Nat /\ Temps \subseteq Nat
      /\ Charges \subseteq Nat /\ Units \subseteq Nat
  BY LineAssumption
<1>2. \A x \in Loads : x \in Nat
  BY <1>1
<1>3. \A x \in Memories : x \in Nat
  BY <1>1
<1>4. \A x \in Temps : x \in Int
  BY <1>1
<1>5. Unreadable \in Int /\ NoDegrees \in Int
  BY DEF Unreadable, NoDegrees
<1>6. (\A x \in Charges : x \in Nat) /\ \A x \in Units : x \in Nat
  BY <1>1
<1> QED  BY <1>2, <1>3, <1>4, <1>5, <1>6

LEMMA BatteryParts ==
  ASSUME NEW d \in Battery, Prints("Battery", d)
  PROVE  Battery_parts(d) \in Seq(Part)
<1> DEFINE Line(sections) == <<Closed(sections, "left", "common")>>
<1>0. \A sections \in Seq(Call) : Line(sections) \in Seq(Part)
  BY ClosedIsPart DEF Separators
<1>1. CASE d.status = "charging"
  <2>1. <<Left(neutral)>> \in Seq(Call)
    BY Calls, Coloring DEF Left, Separators
  <2>2. Battery_parts(d) = Line(<<Left(neutral)>>)
    BY <1>1 DEF Battery_parts
  <2> QED  BY <1>0, <2>1, <2>2
<1>2. CASE d.status = "full"
  <2>1. <<Left(info)>> \in Seq(Call)
    BY Calls, Coloring DEF Left, Separators
  <2>2. Battery_parts(d) = Line(<<Left(info)>>)
    BY <1>2 DEF Battery_parts
  <2> QED  BY <1>0, <2>1, <2>2
<1>3. CASE d.status = "discharging"
  <2> DEFINE colors == section_colors(0 - rem_minutes(d), -60, -10)
  <2>1. rem_minutes(d) \in Int
    BY <1>3, LineAssumption DEF Prints, Battery, rem_minutes
  <2>2. colors \in Pair
    BY <2>1, SectionColours
  <2>3. Battery_parts(d) = Line(<<Left(colors), Again("left", "common")>>)
    BY <1>3 DEF Battery_parts
  <2> HIDE DEF colors
  <2>4. <<Left(colors), Again("left", "common")>> \in Seq(Call)
    BY <2>2, Calls DEF Left, Separators
  <2> QED  BY <1>0, <2>3, <2>4
<1>4. CASE d.status = "not_found"
  BY <1>4 DEF Battery_parts
<1> QED  BY <1>1, <1>2, <1>3, <1>4 DEF Battery

LEMMA LoadParts ==
  ASSUME NEW d \in Load
  PROVE  Load_parts(d) \in Seq(Part)
<1> DEFINE load == section_colors(d.cpu_load, 400, 1200)
           memory == section_colors(0 - d.free_ram, 0 - (d.total_ram \div 2), 0)
           first == <<To("left", "fire", load), To("left", "fire", memory)>>
           temps == [i \in DOMAIN d.cpu_temps |->
                      To("left", IF i = 1 THEN "fire" ELSE "none",
                         section_colors(d.cpu_temps[i], 50, 90))]
<1>0. /\ d.cpu_load \in Loads \cup {0} /\ d.cpu_temps \in Readings
      /\ d.free_ram \in Memories \cup {0} /\ d.total_ram \in Memories \cup {0}
  BY DEF Load
<1>1. load \in Pair
  <2>1. d.cpu_load \in Int
    BY <1>0, Numbers
  <2> QED  BY <2>1, SectionColours
<1>2. memory \in Pair
  <2>1. d.free_ram \in Nat /\ d.total_ram \in Nat
    BY <1>0, Numbers
  <2>2. d.total_ram \div 2 \in Nat
    BY <2>1
  <2>3. CASE d.total_ram \div 2 > 0
    BY <2>1, <2>2, <2>3, SectionColours
  <2>4. CASE d.total_ram \div 2 = 0
    BY <2>1, <2>4, Coloring DEF section_colors
  <2> QED  BY <2>2, <2>3, <2>4
<1>3. temps \in Seq(Call)
  <2>1. PICK n \in 0 .. MaxTemps : d.cpu_temps \in [1 .. n -> Temps \cup {Unreadable}]
    BY <1>0 DEF Readings
  <2>2. \A i \in 1 .. n : d.cpu_temps[i] \in Int
    BY <2>1, Numbers
  <2>3. \A i \in 1 .. n : section_colors(d.cpu_temps[i], 50, 90) \in Pair
    BY <2>2, SectionColours
  <2> DEFINE Temp(i) == To("left", IF i = 1 THEN "fire" ELSE "none",
                           section_colors(d.cpu_temps[i], 50, 90))
  <2>4. \A i \in 1 .. n : Temp(i) \in Call
    BY <2>3, Calls DEF Separators
  <2>5. temps = [i \in 1 .. n |-> Temp(i)]
    BY <2>1
  <2> HIDE DEF Temp, temps
  <2> QED  BY <2>4, <2>5
<1> HIDE DEF load, memory, temps
<1>4. first \in Seq(Call)
  BY <1>1, <1>2, Calls DEF Separators
<1> HIDE DEF first
<1>5. first \o temps \in Seq(Call)
  BY <1>3, <1>4
<1>6. Load_parts(d) = <<Closed(first \o temps, "left", "fire")>>
  BY DEF Load_parts, load, memory, temps, first
<1> QED  BY <1>5, <1>6, ClosedIsPart DEF Separators

LEMMA SpaceParts ==
  ASSUME NEW d \in Space
  PROVE  Space_parts(d) \in Seq(Part)
<1> DEFINE Usage(m) ==
             Left(section_colors(0 - ((d[m].size - d[m].used) % Wide), 0 - Roomy, 0 - Tight))
           sections == [m \in 1 .. Mounts |-> Usage(m)]
<1>1. \A m \in 1 .. Mounts : Usage(m) \in Call
  <2> TAKE m \in 1 .. Mounts
  <2>1. (d[m].size - d[m].used) % Wide \in Int
    BY LineAssumption DEF Space
  <2>2. section_colors(0 - ((d[m].size - d[m].used) % Wide), 0 - Roomy, 0 - Tight) \in Pair
    <3>1. 0 - Roomy \in Int /\ 0 - Tight \in Int /\ 0 - Roomy < 0 - Tight
      BY LineAssumption
    <3> QED  BY <2>1, <3>1, SectionColours
  <2> QED  BY <2>2, Calls DEF Left, Separators
<1> HIDE DEF Usage
<1>2. sections \in Seq(Call)
  BY <1>1, LineAssumption
<1>3. Space_parts(d) = IF Mounts = 0 THEN << >> ELSE <<Closed(sections, "left", "common")>>
  BY DEF Space_parts, Usage
<1> HIDE DEF sections
<1> QED  BY <1>2, <1>3, ClosedIsPart DEF Separators

LEMMA DateParts ==
  ASSUME NEW d
  PROVE  Date_parts(d) \in Seq(Part)
<1>1. <<Left(active)>> \in Seq(Call)
  BY Calls, Coloring DEF Left, Separators
<1> QED  BY <1>1, ClosedIsPart DEF Date_parts, Separators

LEMMA WeatherParts ==
  ASSUME NEW d \in Weather
  PROVE  Weather_parts(d) \in Seq(Part)
<1> DEFINE colors == section_colors(abs(d.temperature - 15), 10, 15)
<1>1. abs(d.temperature - 15) \in Int
  <2>1. d.temperature \in Temps \cup {NoDegrees}
    BY DEF Weather
  <2>2. d.temperature \in Int
    BY <2>1, Numbers
  <2> QED  BY <2>2 DEF abs
<1>2. colors \in Pair
  BY <1>1, SectionColours
<1>3. Weather_parts(d) = <<Closed(<<Left(colors), Again("left", "common")>>, "left", "common")>>
  BY DEF Weather_parts
<1> HIDE DEF colors
<1>4. <<Left(colors), Again("left", "common")>> \in Seq(Call)
  BY <1>2, Calls DEF Left, Separators
<1> QED  BY <1>3, <1>4, ClosedIsPart DEF Separators

LEMMA PulseAudioParts ==
  ASSUME NEW d \in Volumes
  PROVE  PulseAudio_parts(d) \in Seq(Part)
<1> DEFINE colors == section_colors(d, 101, 150)
<1>1. colors \in Pair
  BY SectionColours, LineAssumption
<1>2. PulseAudio_parts(d) = <<Closed(<<Left(colors)>>, "left", "common")>>
  BY DEF PulseAudio_parts
<1> HIDE DEF colors
<1>3. <<Left(colors)>> \in Seq(Call)
  BY <1>1, Calls DEF Left, Separators
<1> QED  BY <1>2, <1>3, ClosedIsPart DEF Separators

LEMMA NetParts ==
  ASSUME NEW d \in Net
  PROVE  Net_parts(d) \in Seq(Part)
<1> DEFINE Shown(connected) == Left(IF connected THEN neutral ELSE info)
           v4 == IF d.ipv4 THEN <<Shown(d.ipv4_connected)>> ELSE << >>
           v6 == IF d.ipv6 THEN <<Shown(d.ipv6_connected)>> ELSE << >>
           addresses == CASE d.display = "None" ->
                               <<Shown(d.ipv4_connected \/ d.ipv6_connected)>>
                          [] d.display = "IPv6" -> v6 \o v4
                          [] OTHER              -> v4 \o v6
           sections == <<Left(neutral)>> \o addresses
<1>1. \A connected : Shown(connected) \in Call
  BY Calls, Coloring DEF Left, Separators
<1>2. v4 \in Seq(Call) /\ v6 \in Seq(Call)
  BY <1>1
<1>3. addresses \in Seq(Call)
  <2>1. <<Shown(d.ipv4_connected \/ d.ipv6_connected)>> \in Seq(Call)
    BY <1>1
  <2>2. v6 \o v4 \in Seq(Call) /\ v4 \o v6 \in Seq(Call)
    BY <1>2
  <2> QED  BY <2>1, <2>2
<1>4. sections \in Seq(Call)
  <2>1. <<Left(neutral)>> \in Seq(Call)
    BY Calls, Coloring DEF Left, Separators
  <2> HIDE DEF addresses
  <2> QED  BY <1>3, <2>1
<1>5. Net_parts(d) = IF d.up THEN <<Closed(sections, "left", "common")>> ELSE << >>
  BY DEF Net_parts
<1> HIDE DEF sections
<1> QED  BY <1>4, <1>5, ClosedIsPart DEF Separators

LEMMA WorkspacePart ==
  ASSUME NEW ws
  PROVE  Workspace_part(ws) \in Part
<1> DEFINE colors == IF ws.urgent /\ ws.urgent_is_focused THEN urgent
                     ELSE IF ws.focused THEN active ELSE inactive
           focused == IF ws.focused_window = Null THEN << >> ELSE Title(ws.focused_window)
           other == IF ws.urgent /\ ~ws.urgent_is_focused
                    THEN <<To("right", "round", urgent)>> \o Title(ws.last_urgent_window)
                    ELSE << >>
           sections == <<To("right", "round", colors)>> \o focused \o other
<1>1. \A window : Title(window) \in Seq(Call)
  BY Calls, Coloring DEF Title, Separators
<1>2. <<To("right", "round", colors)>> \in Seq(Call)
  <2>1. colors \in Pair
    BY Coloring
  <2> QED  BY <2>1, Calls DEF Separators
<1>3. focused \in Seq(Call)
  BY <1>1
<1>4. other \in Seq(Call)
  <2>1. <<To("right", "round", urgent)>> \in Seq(Call)
    BY Calls, Coloring DEF Separators
  <2>2. <<To("right", "round", urgent)>> \o Title(ws.last_urgent_window) \in Seq(Call)
    BY <1>1, <2>1
  <2> QED  BY <2>2
<1>5. Workspace_part(ws) = Closed(sections, "right", "round")
  BY DEF Workspace_part
<1> HIDE DEF colors, focused, other
<1>6. sections \in Seq(Call)
  BY <1>2, <1>3, <1>4
<1> HIDE DEF sections
<1> QED  BY <1>5, <1>6, ClosedIsPart DEF Separators

LEMMA I3Parts ==
  ASSUME NEW d \in I3
  PROVE  I3_parts(d) \in Seq(Part)
<1>1. DOMAIN d = 1 .. Len(d) /\ Len(d) \in Nat
  BY LineAssumption DEF I3
<1>2. \A n \in 1 .. Len(d) : Workspace_part(d[n]) \in Part
  BY WorkspacePart
<1> QED  BY <1>1, <1>2 DEF I3_parts

\* print_raw of every item.
LEMMA PartsTyped ==
  ASSUME NEW item \in LineItems, NEW d \in Data(item), Prints(item, d)
  PROVE  print_raw(item, d) \in Seq(Part)
<1>1. CASE item = "Battery"
  BY <1>1, BatteryParts DEF Data, print_raw
<1>2. CASE item = "Load"
  BY <1>2, LoadParts DEF Data, print_raw
<1>3. CASE item = "Space"
  BY <1>3, SpaceParts DEF Data, print_raw
<1>4. CASE item = "Date"
  BY <1>4, DateParts DEF Data, print_raw
<1>5. CASE item = "Weather"
  BY <1>5, WeatherParts DEF Data, print_raw
<1>6. CASE item = "Net"
  BY <1>6, NetParts DEF Data, print_raw
<1>7. CASE item = "PulseAudio"
  BY <1>7, PulseAudioParts DEF Data, print_raw
<1>8. CASE item = "I3"
  BY <1>8, I3Parts DEF Data, print_raw
<1> QED  BY <1>1, <1>2, <1>3, <1>4, <1>5, <1>6, <1>7, <1>8 DEF LineItems

------------------------------------------------------------------------------
(* What an update may do *)

\* What update_raw owes the loop: data of its kind, a report of every change, and
\* data that can be printed, unless the item reports success without looking.
Kept(item, d, r) ==
  /\ r.ok \in BOOLEAN /\ r.changed \in BOOLEAN /\ r.complete \in BOOLEAN
  /\ r.data \in Data(item)
  /\ r.data # d => r.changed
  /\ item \in Unguarded \/ (item = "Battery" /\ ~r.complete) \/ ~r.ok \/ Prints(item, r.data)

LEMMA Level ==
  ASSUME NEW m \in Nat, NEW c \in Nat, 0 < m, c <= m
  PROVE  (100 * c) \div m < 255
<1> DEFINE q == (100 * c) \div m
<1>1. q \in Int /\ q * m <= 100 * c
  BY SMTT(30)
<1>2. q * m <= 100 * m
  BY <1>1
<1>3. q <= 100
  BY <1>1, <1>2, SMTT(30)
<1> QED  BY <1>1, <1>3

LEMMA BatteryKeeps ==
  ASSUME NEW d \in Battery, NEW r \in Battery_update_raw(d)
  PROVE  Kept("Battery", d, r)
<1>1. CASE r = Result(TRUE, TRUE, [d EXCEPT !.status = "not_found"])
  <2>1. [d EXCEPT !.status = "not_found"] \in Battery
    BY DEF Battery
  <2> QED  BY <1>1, <2>1 DEF Kept, Data, Prints, Result, Battery
<1>2. ASSUME NEW f \in BatteryFile,
             r = [Result(TRUE, TRUE, ReadBattery(d, f)) EXCEPT !.complete = WholeBattery(f)]
      PROVE  Kept("Battery", d, r)
  <2>0. r = [ok |-> TRUE, changed |-> TRUE, data |-> ReadBattery(d, f), complete |-> WholeBattery(f)]
    BY <1>2 DEF Result
  <2>1. r.data \in Battery
    BY <2>0 DEF Battery, BatteryFile, Absent, ReadBattery
  <2>2. r.ok = TRUE /\ r.changed = TRUE /\ r.complete = WholeBattery(f)
    BY <2>0
  <2>3. WholeBattery(f) \in BOOLEAN
    BY DEF WholeBattery
  <2>4. ASSUME WholeBattery(f)  PROVE Prints("Battery", r.data)
    <3>1. /\ r.data.max_capacity = f.max_capacity
          /\ r.data.current_level = f.current_level
          /\ r.data.discharge_rate = f.discharge_rate
          /\ r.data.status = f.status
      BY <2>0, <2>4 DEF WholeBattery, ReadBattery
    <3>2. f.max_capacity \in Nat /\ f.current_level \in Nat /\ f.discharge_rate \in Nat
      BY Numbers DEF BatteryFile
    <3>3. 0 < f.max_capacity /\ f.current_level <= f.max_capacity
      BY <2>4 DEF WholeBattery
    <3>4. level(r.data) < 255
      BY <3>1, <3>2, <3>3, Level DEF level
    <3>5. f.status = "discharging" => f.discharge_rate # 0
      BY <2>4, <3>2 DEF WholeBattery
    <3> QED  BY <3>1, <3>2, <3>3, <3>4, <3>5 DEF Prints
  <2> QED  BY <2>1, <2>2, <2>3, <2>4 DEF Kept, Data
<1> QED  BY <1>1, <1>2 DEF Battery_update_raw

LEMMA LoadKeeps ==
  ASSUME NEW d \in Load, NEW r \in Load_update_raw(d)
  PROVE  Kept("Load", d, r)
<1>1. PICK l \in Load :
        /\ Cutoff < l.total_ram /\ l.total_ram <= Largest
        /\ r = Result(\A i \in DOMAIN l.cpu_temps : l.cpu_temps[i] # Unreadable, TRUE, l)
  BY DEF Load_update_raw
<1>2. Prints("Load", l)
  BY <1>1 DEF Prints, print_used_memory_Works
<1> QED  BY <1>1, <1>2 DEF Kept, Data, Result

LEMMA Remainder ==
  ASSUME NEW a \in Int, NEW w \in Nat \ {0}
  PROVE  a % w \in 0 .. w - 1
BY SMTT(30)

LEMMA SpaceUsage ==
  ASSUME NEW s \in FileSystem \cup {Failed}
  PROVE  get_space_usage(s) \in [size : 0 .. Wide - 1, used : 0 .. Wide - 1]
<1>1. /\ s.f_blocks \in Nat /\ s.f_bavail \in Nat
      /\ s.f_frsize \in Nat /\ s.f_bsize \in Nat
  <2>1. CASE s \in FileSystem
    <3>1. /\ s.f_blocks \in Memories /\ s.f_bavail \in Memories
          /\ s.f_frsize \in Units /\ s.f_bsize \in Units
      BY <2>1 DEF FileSystem
    <3> QED  BY <3>1, Numbers
  <2>2. CASE s = Failed
    BY <2>2 DEF Failed
  <2> QED  BY <2>1, <2>2
<1>2. s.f_frsize * s.f_blocks \in Int /\ s.f_bavail * s.f_bsize \in Int
  BY <1>1
<1> DEFINE all == s.f_frsize * s.f_blocks
           available == s.f_bavail * s.f_bsize
           size == all % Wide
<1>3. Wide \in Nat \ {0}
  BY LineAssumption
<1> HIDE DEF all, available
<1>4. size \in 0 .. Wide - 1
  BY <1>2, <1>3, Remainder DEF all
<1>5. (size - available) % Wide \in 0 .. Wide - 1
  <2>1. size - available \in Int
    BY <1>2, <1>3, <1>4 DEF available
  <2> QED  BY <1>3, <2>1, Remainder
<1>6. get_space_usage(s) = [size |-> size, used |-> (size - available) % Wide]
  BY DEF get_space_usage, all, available
<1> QED  BY <1>4, <1>5, <1>6

LEMMA SpaceKeeps ==
  ASSUME NEW d \in Space, NEW r \in Space_update_raw(d)
  PROVE  Kept("Space", d, r)
<1>1. PICK s \in [1 .. Mounts -> FileSystem \cup {Failed}] :
        LET new == [m \in 1 .. Mounts |-> get_space_usage(s[m])]
        IN  r = Result(TRUE, \E m \in 1 .. Mounts : new[m] # d[m], new)
  BY DEF Space_update_raw
<1> DEFINE new == [m \in 1 .. Mounts |-> get_space_usage(s[m])]
<1>2. new \in Space
  BY SpaceUsage DEF Space
<1> HIDE DEF new
<1>3. r = Result(TRUE, \E m \in 1 .. Mounts : new[m] # d[m], new)
  BY <1>1 DEF new
<1>4. new # d => \E m \in 1 .. Mounts : new[m] # d[m]
  <2> DEFINE Usage == [size : 0 .. Wide - 1, used : 0 .. Wide - 1]
  <2> HIDE DEF Usage
  <2>1. new \in [1 .. Mounts -> Usage] /\ d \in [1 .. Mounts -> Usage]
    BY <1>2 DEF Space, Usage
  <2>2. ASSUME \A m \in 1 .. Mounts : new[m] = d[m]  PROVE new = d
    <3>1. new = [m \in 1 .. Mounts |-> new[m]] /\ d = [m \in 1 .. Mounts |-> d[m]]
      BY <2>1
    <3>2. [m \in 1 .. Mounts |-> new[m]] = [m \in 1 .. Mounts |-> d[m]]
      BY <2>2
    <3> QED  BY <3>1, <3>2, Zenon
  <2> QED  BY <2>2
<1> QED  BY <1>2, <1>3, <1>4 DEF Kept, Data, Result, Unguarded

LEMMA DateKeeps ==
  ASSUME NEW d \in Date, NEW r \in Date_update_raw(d)
  PROVE  Kept("Date", d, r)
<1>1. PICK t \in Minutes : r = Result(TRUE, t # d, t)
  BY DEF Date_update_raw
<1>2. /\ r.ok = TRUE /\ r.changed = (t # d) /\ r.data = t /\ r.complete = TRUE
  BY <1>1 DEF Result
<1>3. (t # d) \in BOOLEAN
  OBVIOUS
<1>4. Prints("Date", t) /\ t \in Data("Date")
  BY DEF Prints, Data, Date
<1> QED  BY <1>2, <1>3, <1>4 DEF Kept

LEMMA SinceMidnight ==
  ASSUME NEW t \in SunTimes
  PROVE  am_pm_to_duration_since_midnight(t) \in 0 .. 1499
<1>1. t.hour \in 1 .. 12 /\ t.minute \in 0 .. 59
  BY LineAssumption
<1> QED  BY <1>1 DEF am_pm_to_duration_since_midnight

LEMMA WeatherKeeps ==
  ASSUME NEW d \in Weather, NEW r \in Weather_update_raw(d)
  PROVE  Kept("Weather", d, r)
<1>1. CASE r = Result(FALSE, TRUE, d)
  BY <1>1 DEF Kept, Data, Result
<1>2. CASE r = Result(TRUE, TRUE, EmptyReply)
  <2>1. EmptyReply \in Weather
    BY DEF EmptyReply, Weather
  <2> QED  BY <1>2, <2>1 DEF Kept, Data, Result, Unguarded
<1>3. ASSUME NEW w \in Report,
             r = Result(TRUE, TRUE,
                   [temperature |-> w.temperature, condition_code |-> w.code,
                    midnight_to_sunrise |-> am_pm_to_duration_since_midnight(w.sunrise),
                    midnight_to_sunset  |-> am_pm_to_duration_since_midnight(w.sunset)])
      PROVE  Kept("Weather", d, r)
  <2> DEFINE new == [temperature |-> w.temperature, condition_code |-> w.code,
                     midnight_to_sunrise |-> am_pm_to_duration_since_midnight(w.sunrise),
                     midnight_to_sunset  |-> am_pm_to_duration_since_midnight(w.sunset)]
  <2>1. /\ w.temperature \in Temps /\ w.code \in KnownCodes \cup {"unknown"}
        /\ w.sunrise \in SunTimes /\ w.sunset \in SunTimes
    BY DEF Report
  <2>2. new \in Weather
    BY <2>1, SinceMidnight DEF Weather
  <2> HIDE DEF new
  <2>3. r = Result(TRUE, TRUE, new)
    BY <1>3 DEF new
  <2> QED  BY <2>2, <2>3 DEF Kept, Data, Result, Unguarded
<1> QED  BY <1>1, <1>2, <1>3 DEF Weather_update_raw

LEMMA OthersKeep ==
  ASSUME NEW item \in {"Net", "PulseAudio", "I3"}, NEW d \in Data(item),
         NEW r \in OtherItem(item, d)
  PROVE  Kept(item, d, r)
<1>1. PICK ok \in BOOLEAN, new \in Data(item) :
        r = Result(ok, ~ok \/ new # d, new)
  BY DEF OtherItem
<1>2. item \in Unguarded \/ Prints(item, new)
  BY DEF Prints, Unguarded
<1> QED  BY <1>1, <1>2 DEF Kept, Result

\* update_raw of every item.
LEMMA UpdateKeeps ==
  ASSUME NEW item \in LineItems, NEW d \in Data(item), NEW r \in update_raw(item, d)
  PROVE  Kept(item, d, r)
<1>1. CASE item = "Battery"
  BY <1>1, BatteryKeeps DEF Data, update_raw
<1>2. CASE item = "Load"
  BY <1>2, LoadKeeps DEF Data, update_raw
<1>3. CASE item = "Space"
  BY <1>3, SpaceKeeps DEF Data, update_raw
<1>4. CASE item = "Date"
  BY <1>4, DateKeeps DEF Data, update_raw
<1>5. CASE item = "Weather"
  BY <1>5, WeatherKeeps DEF Data, update_raw
<1>6. CASE item \in {"Net", "PulseAudio", "I3"}
  <2>1. r \in OtherItem(item, d)
    BY <1>6 DEF update_raw
  <2> QED  BY <1>6, <2>1, OthersKeep
<1> QED  BY <1>1, <1>2, <1>3, <1>4, <1>5, <1>6 DEF LineItems

------------------------------------------------------------------------------
(* The separators *)

Bar == [bg : Colour, fg : Colour, glyph : [bg : Colour, fg : Colour]]

\* The arrow a separator drew, if it drew one, between a section with background
\* `from` and the section the bar is in.
Joins(b, from) ==
  b.glyph # NoGlyph =>
    IF b.bg = from THEN b.glyph = [fg |-> Black, bg |-> from]
    ELSE \/ b.glyph = [fg |-> b.bg, bg |-> from]
         \/ b.glyph = [fg |-> from, bg |-> b.bg]

\* Lemonbar::separator: from a bar in the colours the class believes in to one in
\* the next colours, with the right arrow in between.
LEMMA SeparatorWorks ==
  ASSUME NEW b \in Bar, NEW now \in Pair, b.bg = now.bg, b.fg = now.fg,
         NEW sep \in Separators, NEW style, NEW next \in Pair
  PROVE  LET after == separator(b, now, sep, style, next)
         IN  /\ after \in Bar
             /\ after.bg = next.bg /\ after.fg = next.fg
             /\ Joins(after, b.bg)
<1> DEFINE clean == [b EXCEPT !.glyph = NoGlyph]
           crossed == Transition(clean, now, sep, style, next)
           after == separator(b, now, sep, style, next)
<1>1. NoGlyph \in [bg : Colour, fg : Colour] /\ Black \in Colour
  BY DEF NoGlyph, Colour, Byte, White, Black
<1>2. clean \in Bar /\ clean.bg = b.bg /\ clean.fg = b.fg /\ clean.glyph = NoGlyph
  BY <1>1 DEF Bar
<1>3. next.bg \in Colour /\ next.fg \in Colour
  BY DEF Pair
<1>4. /\ crossed \in Bar /\ crossed.bg = next.bg
      /\ Joins(crossed, b.bg)
  <2> HIDE DEF clean
  <2>1. CASE next.bg = now.bg
    BY <1>1, <1>2, <2>1 DEF Transition, Fore, Icon, Glyph, Joins, Bar
  <2>2. CASE next.bg # now.bg /\ sep = "none"
    <3>1. crossed = Back(clean, next.bg)
      BY <2>2 DEF Transition
    <3> QED  BY <1>2, <1>3, <3>1 DEF Back, Joins, Bar
  <2>3. CASE next.bg # now.bg /\ sep = "left"
    <3>1. crossed = Swap(Icon(style, Fore(clean, next.bg)))
      BY <2>3 DEF Transition
    <3>2. Icon(style, Fore(clean, next.bg))
            \in {Fore(clean, next.bg), Glyph(Fore(clean, next.bg))}
      BY DEF Icon
    <3>3. CASE crossed = Swap(Fore(clean, next.bg))
      BY <1>2, <1>3, <3>3 DEF Fore, Swap, Joins, Bar
    <3>4. CASE crossed = Swap(Glyph(Fore(clean, next.bg)))
      <4> DEFINE painted == Fore(clean, next.bg)
                 drawn == Glyph(painted)
      <4>1. painted \in Bar /\ painted.fg = next.bg /\ painted.bg = b.bg
        BY <1>2, <1>3 DEF Fore, Bar
      <4> HIDE DEF painted
      <4>2. /\ drawn \in Bar /\ drawn.fg = next.bg /\ drawn.bg = b.bg
            /\ drawn.glyph = [fg |-> next.bg, bg |-> b.bg]
        BY <4>1 DEF Glyph, Bar
      <4> HIDE DEF drawn
      <4>3. /\ Swap(drawn) \in Bar /\ Swap(drawn).bg = next.bg
            /\ Swap(drawn).glyph = [fg |-> next.bg, bg |-> b.bg]
        BY <4>2 DEF Swap, Bar
      <4>4. crossed = Swap(drawn)
        BY <3>4 DEF drawn, painted
      <4> QED  BY <2>3, <4>3, <4>4 DEF Joins
    <3> QED  BY <3>1, <3>2, <3>3, <3>4
  <2>4. CASE next.bg # now.bg /\ sep = "vertical"
    <3>1. crossed = Swap(Fore(clean, next.bg))
      BY <2>4 DEF Transition
    <3> QED  BY <1>2, <1>3, <3>1 DEF Fore, Swap, Joins, Bar
  <2>5. CASE next.bg # now.bg /\ sep = "right"
    <3>1. crossed = Icon(style, Back(Swap(clean), next.bg))
      BY <2>5 DEF Transition
    <3>2. crossed \in {Back(Swap(clean), next.bg), Glyph(Back(Swap(clean), next.bg))}
      BY <3>1 DEF Icon
    <3> DEFINE turned == Swap(clean)
               painted == Back(turned, next.bg)
               drawn == Glyph(painted)
    <3>3. turned \in Bar /\ turned.fg = b.bg /\ turned.glyph = NoGlyph
      BY <1>2 DEF Swap, Bar
    <3> HIDE DEF turned
    <3>4. /\ painted \in Bar /\ painted.fg = b.bg /\ painted.bg = next.bg
          /\ painted.glyph = NoGlyph
      BY <1>3, <3>3 DEF Back, Bar
    <3> HIDE DEF painted
    <3>5. /\ drawn \in Bar /\ drawn.bg = next.bg
          /\ drawn.glyph = [fg |-> b.bg, bg |-> next.bg]
      BY <3>4 DEF Glyph, Bar
    <3> HIDE DEF drawn
    <3>6. crossed = painted \/ crossed = drawn
      BY <3>2 DEF turned, painted, drawn
    <3> QED  BY <1>2, <2>5, <3>4, <3>5, <3>6 DEF Joins
  <2> QED  BY <2>1, <2>2, <2>3, <2>4, <2>5 DEF Separators
<1>5. after = Fore(crossed, next.fg)
  BY DEF separator
<1> HIDE DEF crossed
<1> QED  BY <1>3, <1>4, <1>5 DEF Fore, Joins, Bar

------------------------------------------------------------------------------
(* The invariant *)

\* While a part is printed it is still to be closed; between parts the class is
\* back at the colours of the empty bar.
BackToEmpty == IF todo = << >> THEN current = white_on_black ELSE todo \in Part

\* What such an item holds can be printed as long as it is valid.
GuardedPrints ==
  \A i \in Here : \/ items[i] \in Unguarded
                 \/ (items[i] = "Battery" /\ ~complete[i])
                 \/ ~valid[i]
                 \/ Prints(items[i], held[i])

\* Before the constructors there is no item.
Empty == pc = "start" => items = << >> /\ cursor = 1

IInv ==
  /\ TypeOK /\ ColoursTracked /\ ArrowsJoin /\ BackToEmpty
  /\ UnshownIsFlagged /\ GuardedPrints /\ NeverDividesByLeftovers /\ Empty

LEMMA LayoutTyped ==
  /\ \A l \in Layouts \cup {<< >>} :
       l \in Seq(LineItems) /\ DOMAIN l = 1 .. Len(l) /\ Len(l) \in Nat
  /\ TypeOK => Len(items) \in Nat /\ \A i \in Here : items[i] \in LineItems
<1>1. \A l \in Layouts \cup {<< >>} : l \in Seq(LineItems)
  <2>1. Layouts \subseteq Seq(LineItems)
    BY LineAssumption
  <2>2. << >> \in Seq(LineItems)
    OBVIOUS
  <2> QED  BY <2>1, <2>2
<1>2. \A l \in Seq(LineItems) : DOMAIN l = 1 .. Len(l) /\ Len(l) \in Nat
  OBVIOUS
<1>3. TypeOK => Len(items) \in Nat /\ \A i \in Here : items[i] \in LineItems
  <2> SUFFICES ASSUME TypeOK
               PROVE  Len(items) \in Nat /\ \A i \in Here : items[i] \in LineItems
    OBVIOUS
  <2>1. items \in Seq(LineItems)
    BY <1>1 DEF TypeOK
  <2> QED  BY <2>1 DEF Here
<1> QED  BY <1>1, <1>2, <1>3

LEMMA InitiallyTyped ==
  ASSUME NEW item \in LineItems
  PROVE  Initially(item) \in Data(item)
<1>1. CASE item = "Battery"
  BY <1>1 DEF Initially, Data, Battery
<1>2. CASE item = "Load"
  <2>1. << >> \in Readings
    <3>1. << >> \in [1 .. 0 -> Temps \cup {Unreadable}] /\ 0 \in 0 .. MaxTemps
      BY LineAssumption
    <3> QED  BY <3>1 DEF Readings
  <2> QED  BY <1>2, <2>1 DEF Initially, Data, Load
<1>3. CASE item = "Space"
  <2>1. 0 \in 0 .. Wide - 1
    BY LineAssumption
  <2> QED  BY <1>3, <2>1 DEF Initially, Data, Space
<1>4. CASE item = "Date"
  BY <1>4 DEF Initially, Data, Date
<1>5. CASE item = "Weather"
  <2>1. EmptyReply \in Weather
    BY DEF EmptyReply, Weather
  <2> QED  BY <1>5, <2>1 DEF Initially, Data
<1>6. CASE item \in {"Net", "PulseAudio", "I3"}
  <2>1. Data(item) # {}
    <3>1. Net # {}
      <4>1. [up |-> TRUE, display |-> "Both", ipv4 |-> TRUE, ipv6 |-> TRUE,
             ipv4_connected |-> TRUE, ipv6_connected |-> TRUE] \in Net
        BY DEF Net
      <4> QED  BY <4>1
    <3> QED  BY <1>6, <3>1, LineAssumption DEF Data, I3
  <2>2. Initially(item) = CHOOSE d \in Data(item) : TRUE
    BY <1>6 DEF Initially
  <2> QED  BY <2>1, <2>2
<1> QED  BY <1>1, <1>2, <1>3, <1>4, <1>5, <1>6 DEF LineItems

LEMMA InitLine == Init => IInv
<1> SUFFICES ASSUME Init PROVE IInv
  OBVIOUS
<1>1. items = << >> /\ Len(items) = 0 /\ Here = {}
  BY DEF Init, Here
<1>2. bar \in Bar /\ Black \in Colour /\ current \in Pair
  BY Coloring DEF Init, Bar, Colour, Byte, Black, White, NoGlyph
<1>3. TypeOK
  <2>1. /\ items \in Layouts \cup {<< >>} /\ pc = "start" /\ cursor = 1
        /\ updated \in BOOLEAN
    BY DEF Init
  <2>2. << >> \in [{} -> BOOLEAN] /\ << >> = [i \in {} |-> held[i]]
    OBVIOUS
  <2>3. /\ valid \in [Here -> BOOLEAN] /\ changed \in [Here -> BOOLEAN]
        /\ unshown \in [Here -> BOOLEAN] /\ complete \in [Here -> BOOLEAN]
    BY <1>1, <2>2 DEF Init
  <2>4. held = [i \in Here |-> held[i]] /\ \A i \in Here : held[i] \in Data(items[i])
    BY <1>1, <2>2 DEF Init
  <2>5. parts \in Seq(Part) /\ todo \in Seq(Call) /\ before \in Colour
    BY <1>2 DEF Init
  <2>6. cursor \in 1 .. Len(items) + 1
    BY <1>1, <2>1
  <2> QED  BY <1>2, <2>1, <2>3, <2>4, <2>5, <2>6 DEF TypeOK, Bar
<1>4. ColoursTracked /\ ArrowsJoin
  BY DEF Init, ColoursTracked, ArrowsJoin, white_on_black, Black, White
<1>5. BackToEmpty /\ Empty
  BY <1>1 DEF Init, BackToEmpty, Empty
<1>6. UnshownIsFlagged /\ GuardedPrints /\ NeverDividesByLeftovers
  BY <1>1 DEF Init, UnshownIsFlagged, GuardedPrints, NeverDividesByLeftovers
<1> QED  BY <1>3, <1>4, <1>5, <1>6 DEF IInv

\* The actions that leave the line alone.
LEMMA LineUntouched ==
  ASSUME IInv, UNCHANGED lineVars
  PROVE  ColoursTracked' /\ ArrowsJoin' /\ BackToEmpty'
BY DEF IInv, lineVars, ColoursTracked, ArrowsJoin, BackToEmpty

\* ... and those that leave the loop and the items alone.
LEMMA LoopUntouched ==
  ASSUME IInv, UNCHANGED <<loopVars, itemVars>>
  PROVE  UnshownIsFlagged' /\ GuardedPrints' /\ NeverDividesByLeftovers' /\ Empty'
BY DEF IInv, loopVars, itemVars, UnshownIsFlagged, GuardedPrints, NeverDividesByLeftovers,
       Empty, Here

LEMMA ConstructStep ==
  ASSUME IInv, NEW l \in Layouts, Construct(l)
  PROVE  IInv'
<1>1. DOMAIN l = 1 .. Len(l) /\ Len(l) \in Nat /\ l \in Seq(LineItems)
  BY LayoutTyped
<1>2. /\ items' = l /\ pc' = "update" /\ cursor' = cursor /\ updated' = updated
      /\ cursor = 1 /\ Here' = DOMAIN l /\ UNCHANGED lineVars
  BY <1>1 DEF Construct, IInv, Empty, Here
<1>3. TypeOK'
  <2>1. \A i \in DOMAIN l : Initially(l[i]) \in Data(l[i])
    BY <1>1, InitiallyTyped
  <2>2. held' = [i \in DOMAIN l |-> Initially(l[i])]
    BY DEF Construct
  <2>3. held' = [i \in DOMAIN l |-> held'[i]] /\ \A i \in DOMAIN l : held'[i] \in Data(l[i])
    BY <2>1, <2>2
  <2>4. /\ valid' \in [DOMAIN l -> BOOLEAN] /\ changed' \in [DOMAIN l -> BOOLEAN]
        /\ unshown' \in [DOMAIN l -> BOOLEAN] /\ complete' \in [DOMAIN l -> BOOLEAN]
    BY DEF Construct
  <2>5. cursor' \in 1 .. Len(l) + 1 /\ updated' \in BOOLEAN
    BY <1>1, <1>2 DEF IInv, TypeOK
  <2>6. /\ parts' \in Seq(Part) /\ todo' \in Seq(Call) /\ current' \in Pair
        /\ bar' \in Bar /\ before' \in Colour
    BY <1>2 DEF IInv, TypeOK, lineVars, Bar
  <2> QED  BY <1>2, <2>3, <2>4, <2>5, <2>6 DEF TypeOK, Bar
<1>4. UnshownIsFlagged' /\ GuardedPrints' /\ NeverDividesByLeftovers' /\ Empty'
  BY <1>1, <1>2 DEF Construct, UnshownIsFlagged, GuardedPrints, NeverDividesByLeftovers, Empty
<1> QED  BY <1>2, <1>3, <1>4, LineUntouched DEF IInv

LEMMA PollStep ==
  ASSUME IInv, PollItem
  PROVE  IInv'
<1>0. TypeOK /\ cursor \in Here /\ pc = "update" /\ pc' = pc /\ items' = items
  BY DEF IInv, PollItem
<1>1. Len(items) \in Nat /\ items[cursor] \in LineItems /\ Here' = Here
  BY <1>0, LayoutTyped DEF Here
<1>2. PICK r \in update_raw(items[cursor], held[cursor]) :
        /\ held' = [held EXCEPT ![cursor] = r.data]
        /\ changed' = [changed EXCEPT ![cursor] = @ \/ r.ok # valid[cursor] \/ r.changed]
        /\ valid' = [valid EXCEPT ![cursor] = r.ok]
        /\ unshown' = [unshown EXCEPT ![cursor] =
                        @ \/ r.ok # valid[cursor] \/ r.data # held[cursor]]
        /\ complete' = [complete EXCEPT ![cursor] = r.complete]
  BY DEF PollItem
<1>3. Kept(items[cursor], held[cursor], r)
  BY <1>0, <1>1, UpdateKeeps DEF TypeOK
<1>4. /\ held = [i \in Here |-> held[i]] /\ changed \in [Here -> BOOLEAN]
      /\ valid \in [Here -> BOOLEAN] /\ unshown \in [Here -> BOOLEAN]
      /\ complete \in [Here -> BOOLEAN]
  BY <1>0 DEF TypeOK
<1>5. /\ held' = [i \in Here |-> IF i = cursor THEN r.data ELSE held[i]]
      /\ held' = [i \in Here |-> held'[i]]
  BY <1>2, <1>4
<1>6. /\ \A i \in Here : changed'[i] = IF i = cursor
                          THEN changed[i] \/ r.ok # valid[cursor] \/ r.changed
                          ELSE changed[i]
      /\ \A i \in Here : unshown'[i] = IF i = cursor
                          THEN unshown[i] \/ r.ok # valid[cursor] \/ r.data # held[cursor]
                          ELSE unshown[i]
      /\ \A i \in Here : valid'[i] = IF i = cursor THEN r.ok ELSE valid[i]
      /\ \A i \in Here : complete'[i] = IF i = cursor THEN r.complete ELSE complete[i]
  BY <1>2, <1>4
<1>7. /\ valid' \in [Here -> BOOLEAN] /\ changed' \in [Here -> BOOLEAN]
      /\ unshown' \in [Here -> BOOLEAN] /\ complete' \in [Here -> BOOLEAN]
  BY <1>2, <1>3, <1>4 DEF Kept
<1>8. /\ updated' = (changed'[cursor] \/ updated) /\ cursor' = cursor + 1
      /\ UNCHANGED lineVars
  BY DEF PollItem
<1>9. TypeOK'
  <2>1. \A i \in Here : held'[i] \in Data(items[i])
    BY <1>0, <1>3, <1>5 DEF TypeOK, Kept
  <2>2. cursor' \in 1 .. Len(items') + 1
    BY <1>0, <1>1, <1>8 DEF Here
  <2>3. updated' \in BOOLEAN
    BY <1>0, <1>7, <1>8 DEF TypeOK
  <2>4. /\ parts' \in Seq(Part) /\ todo' \in Seq(Call) /\ current' \in Pair
        /\ bar' \in Bar /\ before' \in Colour
    BY <1>0, <1>8 DEF TypeOK, lineVars, Bar
  <2>5. items' \in Layouts \cup {<< >>} /\ pc' \in {"start", "update", "print", "wait", "dead"}
    BY <1>0 DEF TypeOK
  <2> QED  BY <1>0, <1>1, <1>5, <1>7, <2>1, <2>2, <2>3, <2>4, <2>5 DEF TypeOK, Bar
<1>10. UnshownIsFlagged'
  <2>1. \A i \in Here : unshown'[i] => changed'[i]
    BY <1>0, <1>3, <1>6 DEF IInv, UnshownIsFlagged, Kept
  <2>2. \A i \in Here : i < cursor' /\ changed'[i] => updated'
    <3> SUFFICES ASSUME NEW i \in Here, i < cursor', changed'[i]  PROVE updated'
      OBVIOUS
    <3>1. i = cursor \/ i < cursor
      BY <1>0, <1>1, <1>8 DEF Here
    <3>2. CASE i = cursor
      BY <1>8, <3>2
    <3>3. CASE i # cursor
      BY <1>0, <1>6, <1>8, <3>1, <3>3 DEF IInv, UnshownIsFlagged
    <3> QED  BY <3>2, <3>3
  <2> QED  BY <1>0, <1>1, <2>1, <2>2 DEF UnshownIsFlagged
<1>11. GuardedPrints'
  <2>1. \A i \in Here : \/ items[i] \in Unguarded
                       \/ (items[i] = "Battery" /\ ~complete'[i])
                       \/ ~valid'[i]
                       \/ Prints(items[i], held'[i])
    <3> SUFFICES ASSUME NEW i \in Here
                 PROVE  \/ items[i] \in Unguarded
                        \/ (items[i] = "Battery" /\ ~complete'[i])
                        \/ ~valid'[i]
                        \/ Prints(items[i], held'[i])
      OBVIOUS
    <3>1. CASE i = cursor
      <4>1. held'[i] = r.data /\ valid'[i] = r.ok /\ complete'[i] = r.complete
        BY <1>5, <1>6, <3>1
      <4> QED  BY <1>3, <3>1, <4>1 DEF Kept
    <3>2. CASE i # cursor
      <4>1. held'[i] = held[i] /\ valid'[i] = valid[i] /\ complete'[i] = complete[i]
        BY <1>5, <1>6, <3>2
      <4> QED  BY <4>1 DEF IInv, GuardedPrints
    <3> QED  BY <3>1, <3>2
  <2> QED  BY <1>0, <1>1, <2>1 DEF GuardedPrints
<1>12. NeverDividesByLeftovers' /\ Empty'
  BY <1>0 DEF NeverDividesByLeftovers, Empty
<1> QED  BY <1>8, <1>9, <1>10, <1>11, <1>12, LineUntouched DEF IInv

\* The actions of the loop that change only its own variables.
LEMMA LoopStep ==
  ASSUME IInv, SkipItem \/ FinishUpdate \/ Wake
  PROVE  IInv'
<1>0. TypeOK /\ UNCHANGED <<items, itemVars, lineVars>> /\ Here' = Here
  BY DEF IInv, SkipItem, FinishUpdate, Wake, Here
<1>1. Len(items) \in Nat
  BY <1>0, LayoutTyped
<1>2. /\ cursor' \in 1 .. Len(items) + 1 /\ updated' \in BOOLEAN
      /\ pc' \in {"update", "print", "wait"}
  <2>1. CASE SkipItem
    BY <1>0, <1>1, <2>1 DEF SkipItem, TypeOK, Here
  <2>2. CASE FinishUpdate
    <3>1. /\ cursor = Len(items) + 1 /\ updated' = updated /\ updated \in BOOLEAN
          /\ (cursor' = 1 \/ cursor' = cursor) /\ pc' \in {"print", "wait"}
      BY <1>0, <2>2 DEF FinishUpdate, TypeOK
    <3> QED  BY <1>1, <3>1
  <2>3. CASE Wake
    <3>1. pc' = "update" /\ cursor' = 1 /\ updated' = FALSE
      BY <2>3 DEF Wake
    <3>2. updated' \in BOOLEAN
      BY <3>1, Zenon
    <3>3. cursor' \in 1 .. Len(items) + 1
      BY <1>1, <3>1
    <3> QED  BY <3>1, <3>2, <3>3
  <2> QED  BY <2>1, <2>2, <2>3
<1>3. TypeOK'
  BY <1>0, <1>2 DEF TypeOK, itemVars, lineVars
<1>4. UnshownIsFlagged'
  <2> USE <1>0, <1>1 DEF IInv, UnshownIsFlagged, Here, itemVars
  <2>1. CASE SkipItem
    <3>1. \A i \in Here : i < cursor' => i = cursor \/ i < cursor
      BY <2>1 DEF SkipItem
    <3> QED  BY <2>1, <3>1 DEF SkipItem
  <2>2. CASE FinishUpdate
    <3>1. \A i \in Here : i < cursor
      BY <2>2 DEF FinishUpdate
    <3> QED  BY <2>2, <3>1 DEF FinishUpdate
  <2>3. CASE Wake
    BY <2>3 DEF Wake
  <2> QED  BY <2>1, <2>2, <2>3
<1>5. GuardedPrints'
  BY <1>0 DEF IInv, GuardedPrints, itemVars
<1>6. NeverDividesByLeftovers' /\ Empty'
  BY <1>2 DEF NeverDividesByLeftovers, Empty
<1> QED  BY <1>0, <1>3, <1>4, <1>5, <1>6, LineUntouched DEF IInv

LEMMA DeathStep ==
  ASSUME IInv, WeatherThrows \/ PrintDies
  PROVE  IInv'
<1>0. /\ TypeOK /\ UNCHANGED <<items, cursor, updated, itemVars, lineVars>>
      /\ pc' = "dead" /\ cursor \in Here /\ Here' = Here
  BY DEF IInv, WeatherThrows, PrintDies, Here
<1>1. items[cursor] \in Unguarded \/ (items[cursor] = "Battery" /\ ~complete[cursor])
  <2>1. CASE WeatherThrows
    BY <2>1 DEF WeatherThrows, Unguarded
  <2>2. CASE PrintDies
    BY <1>0, <2>2 DEF PrintDies, IInv, GuardedPrints
  <2> QED  BY <2>1, <2>2
<1>2. TypeOK'
  BY <1>0 DEF TypeOK, itemVars, lineVars
<1>3. UnshownIsFlagged' /\ Empty'
  BY <1>0 DEF IInv, UnshownIsFlagged, Empty, itemVars
<1>4. GuardedPrints'
  BY <1>0 DEF IInv, GuardedPrints, itemVars
<1>5. NeverDividesByLeftovers'
  <2>1. "Battery" \notin Unguarded
    BY DEF Unguarded
  <2> QED  BY <1>0, <1>1, <2>1 DEF NeverDividesByLeftovers, itemVars
<1> QED  BY <1>0, <1>2, <1>3, <1>4, <1>5, LineUntouched DEF IInv

LEMMA NoticeIsPart == <<Notice>> \in Seq(Part)
<1>1. Notice = Closed(<<To("vertical", "common", warn)>>, "vertical", "common")
  BY DEF Notice, Closed
<1>2. <<To("vertical", "common", warn)>> \in Seq(Call)
  BY Calls, Coloring DEF Separators
<1> QED  BY <1>1, <1>2, ClosedIsPart DEF Separators

LEMMA PrintStep ==
  ASSUME IInv, PrintItem
  PROVE  IInv'
<1>0. /\ TypeOK /\ cursor \in Here /\ pc = "print" /\ cursor' = cursor + 1 /\ Here' = Here
      /\ UNCHANGED <<items, pc, updated, held, valid, complete, todo, current, bar, before>>
      /\ changed' = [changed EXCEPT ![cursor] = FALSE]
      /\ unshown' = [unshown EXCEPT ![cursor] = FALSE]
  BY DEF IInv, PrintItem, Here
<1>1. Len(items) \in Nat /\ items[cursor] \in LineItems
  BY <1>0, LayoutTyped
<1>2. parts' \in Seq(Part)
  <2>1. CASE valid[cursor]
    <3>1. Prints(items[cursor], held[cursor]) /\ held[cursor] \in Data(items[cursor])
      BY <1>0, <2>1 DEF PrintItem, TypeOK
    <3> QED  BY <1>1, <2>1, <3>1, PartsTyped DEF PrintItem
  <2>2. CASE ~valid[cursor]
    <3>1. parts' = IF items[cursor] \in ShowFailed THEN <<Notice>> ELSE << >>
      BY <2>2 DEF PrintItem
    <3>2. << >> \in Seq(Part)
      OBVIOUS
    <3> QED  BY <3>1, <3>2, NoticeIsPart
  <2> QED  BY <2>1, <2>2
<1>3. /\ changed' \in [Here -> BOOLEAN] /\ unshown' \in [Here -> BOOLEAN]
      /\ \A i \in Here : changed'[i] = IF i = cursor THEN FALSE ELSE changed[i]
      /\ \A i \in Here : unshown'[i] = IF i = cursor THEN FALSE ELSE unshown[i]
  BY <1>0 DEF TypeOK
<1>4. cursor' \in 1 .. Len(items) + 1
  BY <1>0, <1>1 DEF Here
<1>5. TypeOK'
  BY <1>0, <1>2, <1>3, <1>4 DEF TypeOK
<1>6. ColoursTracked' /\ ArrowsJoin' /\ BackToEmpty'
  BY <1>0 DEF IInv, ColoursTracked, ArrowsJoin, BackToEmpty
<1>7. UnshownIsFlagged'
  <2>1. \A i \in Here : i < cursor' => i = cursor \/ i < cursor
    BY <1>0, <1>1 DEF Here
  <2> QED  BY <1>0, <1>3, <2>1 DEF IInv, UnshownIsFlagged
<1>8. GuardedPrints'
  BY <1>0 DEF IInv, GuardedPrints
<1>9. NeverDividesByLeftovers' /\ Empty'
  BY <1>0 DEF NeverDividesByLeftovers, Empty
<1> QED  BY <1>5, <1>6, <1>7, <1>8, <1>9 DEF IInv

LEMMA PartStep ==
  ASSUME IInv, PrintPart
  PROVE  IInv'
<1>1. /\ TypeOK /\ parts \in Seq(Part) /\ parts # << >>
      /\ todo' = Head(parts) /\ parts' = Tail(parts)
      /\ UNCHANGED <<loopVars, itemVars, current, bar, before>> /\ Here' = Here
  BY DEF IInv, TypeOK, PrintPart, Here, loopVars
<1>2. todo' \in Part /\ parts' \in Seq(Part)
  BY <1>1
<1>3. todo' \in Seq(Call) /\ todo' # << >>
  BY <1>2 DEF Part
<1>4. TypeOK'
  BY <1>1, <1>2, <1>3 DEF TypeOK, loopVars, itemVars
<1>5. ColoursTracked' /\ ArrowsJoin' /\ BackToEmpty'
  BY <1>1, <1>2, <1>3 DEF IInv, ColoursTracked, ArrowsJoin, BackToEmpty
<1> QED  BY <1>1, <1>4, <1>5, LoopUntouched DEF IInv

LEMMA SeparateStep ==
  ASSUME IInv, Separate
  PROVE  IInv'
<1> DEFINE call == Head(todo)
           next == IF call.same THEN current ELSE call.next
<1>1. /\ TypeOK /\ todo # << >> /\ todo \in Part /\ todo \in Seq(Call)
      /\ current \in Pair /\ bar \in Bar
      /\ bar.bg = current.bg /\ bar.fg = current.fg
      /\ todo' = Tail(todo) /\ current' = next /\ before' = bar.bg
      /\ bar' = separator(bar, current, call.sep, call.style, next)
      /\ UNCHANGED <<loopVars, itemVars, parts>> /\ Here' = Here
  BY DEF IInv, TypeOK, BackToEmpty, ColoursTracked, Separate, Here, loopVars, Bar
<1>2. call \in Call
  BY <1>1
<1>3. next \in Pair /\ call.sep \in Separators
  BY <1>1, <1>2 DEF Call
<1>4. bar' \in Bar /\ bar'.bg = next.bg /\ bar'.fg = next.fg /\ Joins(bar', bar.bg)
  BY <1>1, <1>3, SeparatorWorks
<1>5. todo' \in Seq(Call)
  BY <1>1
<1>6. BackToEmpty'
  <2>1. ~todo[Len(todo)].same /\ todo[Len(todo)].next = white_on_black
    BY <1>1 DEF Part
  <2>2. CASE Len(todo) = 1
    <3>1. call = todo[Len(todo)] /\ todo' = << >>
      BY <1>1, <2>2
    <3> QED  BY <1>1, <2>1, <3>1 DEF BackToEmpty
  <2>3. CASE Len(todo) # 1
    <3>1. todo' # << >> /\ todo'[Len(todo')] = todo[Len(todo)]
      <4>1. Len(todo) \in Nat /\ Len(todo) > 1
        <5>1. Len(todo) \in Nat /\ Len(todo) # 0
          BY <1>1, EmptySeq
        <5> DEFINE n == Len(todo)
        <5>2. n \in Nat /\ n # 0 /\ n # 1
          BY <2>3, <5>1
        <5> HIDE DEF n
        <5>3. n > 1
          BY <5>2
        <5> QED  BY <5>1, <5>3 DEF n
      <4>2. /\ Tail(todo) \in Seq(Call) /\ Len(Tail(todo)) = Len(todo) - 1
            /\ \A i \in 1 .. Len(Tail(todo)) : Tail(todo)[i] = todo[i + 1]
        BY <1>1, HeadTailProperties
      <4>3. Len(Tail(todo)) \in 1 .. Len(Tail(todo)) /\ Len(Tail(todo)) + 1 = Len(todo)
        BY <4>1, <4>2
      <4>4. Tail(todo)[Len(Tail(todo))] = todo[Len(todo)]
        BY <4>2, <4>3
      <4>5. Tail(todo) # << >>
        BY <4>3, EmptySeq
      <4> QED  BY <1>1, <4>4, <4>5
    <3>2. todo' \in Part
      BY <1>5, <2>1, <3>1 DEF Part
    <3> QED  BY <3>1, <3>2 DEF BackToEmpty
  <2> QED  BY <2>2, <2>3
<1> HIDE DEF next, call
<1>7. before' \in Colour
  BY <1>1 DEF Bar
<1>8. TypeOK'
  BY <1>1, <1>3, <1>4, <1>5, <1>7 DEF TypeOK, loopVars, itemVars, Bar
<1>9. ColoursTracked'
  BY <1>1, <1>3, <1>4 DEF ColoursTracked, Pair
<1>10. ArrowsJoin'
  BY <1>1, <1>4 DEF ArrowsJoin, Joins
<1> QED  BY <1>1, <1>6, <1>8, <1>9, <1>10, LoopUntouched DEF IInv

LEMMA FinishStep ==
  ASSUME IInv, FinishPrint
  PROVE  IInv'
<1>1. /\ TypeOK /\ pc = "print" /\ cursor = Len(items) + 1 /\ todo = << >>
      /\ current = white_on_black /\ bar \in Bar
      /\ bar' = NewLine(bar) /\ before' = Black /\ pc' = "wait" /\ Here' = Here
      /\ UNCHANGED <<items, cursor, updated, itemVars, parts, todo, current>>
  BY DEF IInv, TypeOK, BackToEmpty, FinishPrint, Here, Bar
<1>2. NoGlyph \in [bg : Colour, fg : Colour] /\ Black \in Colour /\ White \in Colour
  BY DEF NoGlyph, Colour, Byte, White, Black
<1>3. bar' \in Bar /\ bar'.bg = Black /\ bar'.fg = White /\ bar'.glyph = NoGlyph
  BY <1>1, <1>2 DEF NewLine, Bar
<1>4. TypeOK'
  BY <1>1, <1>2, <1>3 DEF TypeOK, itemVars, Bar
<1>5. ColoursTracked'
  BY <1>1, <1>3 DEF ColoursTracked, white_on_black, Black, White
<1>6. ArrowsJoin' /\ BackToEmpty'
  BY <1>1, <1>3 DEF ArrowsJoin, BackToEmpty
<1>7. UnshownIsFlagged'
  <2>1. Len(items) \in Nat
    BY <1>1, LayoutTyped
  <2>2. \A i \in Here : i < cursor
    BY <1>1, <2>1 DEF Here
  <2> QED  BY <1>1, <2>2 DEF IInv, UnshownIsFlagged, itemVars
<1>8. GuardedPrints' /\ NeverDividesByLeftovers' /\ Empty'
  BY <1>1 DEF IInv, GuardedPrints, NeverDividesByLeftovers, Empty, itemVars
<1> QED  BY <1>4, <1>5, <1>6, <1>7, <1>8 DEF IInv

LEMMA StepLine == IInv /\ [Next]_vars => IInv'
<1> SUFFICES ASSUME IInv, [Next]_vars PROVE IInv'
  OBVIOUS
<1>1. ASSUME NEW l \in Layouts, Construct(l)  PROVE IInv'
  BY <1>1, ConstructStep
<1>2. CASE Round
  BY <1>2, PollStep, LoopStep, DeathStep, PrintStep, PartStep, SeparateStep, FinishStep
     DEF Round
<1>3. CASE UNCHANGED vars
  <2>1. UNCHANGED <<loopVars, itemVars>> /\ UNCHANGED lineVars
    BY <1>3 DEF vars
  <2>2. TypeOK'
    BY <2>1 DEF IInv, TypeOK, loopVars, itemVars, lineVars, Here
  <2> QED  BY <2>1, <2>2, LineUntouched, LoopUntouched DEF IInv
<1> QED  BY <1>1, <1>2, <1>3 DEF Next

LEMMA LineInvariant == Spec => []IInv
BY InitLine, StepLine, PTL DEF Spec

------------------------------------------------------------------------------
(* The line *)

\* Whatever the items read and however they are arranged, the state of the loop, of
\* the items and of the line keeps its type; what an item prints is always a sequence
\* of parts that are closed.
THEOREM LineTyped == Spec => []TypeOK
<1>1. IInv => TypeOK
  BY DEF IInv
<1> QED  BY <1>1, LineInvariant, PTL

\* Lemonbar's idea of the current colours is right after every separator of every
\* line, and no section is written in the colour of its background.
THEOREM ColoursAreTracked == Spec => []ColoursTracked
<1>1. IInv => ColoursTracked
  BY DEF IInv
<1> QED  BY <1>1, LineInvariant, PTL

\* Every arrow Lemonbar::separator draws has the backgrounds of the two sections it
\* stands between, or is black inside one section.
THEOREM ArrowsAreJoined == Spec => []ArrowsJoin
<1>1. IInv => ArrowsJoin
  BY DEF IInv
<1> QED  BY <1>1, LineInvariant, PTL

\* Before Statorange sleeps it has printed every item whose value or validity is
\* different from what the line showed: the items' own comparisons miss nothing.
THEOREM NothingStaysUnshown == Spec => []ShownIsHeld
<1>1. IInv => ShownIsHeld
  BY DEF IInv, UnshownIsFlagged, ShownIsHeld
<1> QED  BY <1>1, LineInvariant, PTL

\* Battery and Load, whatever they read, lose and read again, never divide by a zero
\* of the constructor or one that is left of an earlier reading, and the items but
\* Space, Weather and I3 never end the process, for all layouts, files and sizes:
\* unless a battery file lacks a line, or has a size or a rate of 0 in it.
THEOREM LeftoversAreNeverDividedBy == Spec => []NeverDividesByLeftovers
<1>1. IInv => NeverDividesByLeftovers
  BY DEF IInv
<1> QED  BY <1>1, LineInvariant, PTL

\* The countdown of the Weather item ends at the next sunrise or sunset for all times
\* of day and all sun times of the format outside the hours 12 AM and 12 PM.
THEOREM CountdownIsAlwaysRight == Spec => []CountdownIsRight
<1>1. ASSUME NEW t \in SunTimes, t.hour # 12
      PROVE  Minute(t) = am_pm_to_duration_since_midnight(t) /\ Minute(t) \in 0 .. 1439
  <2>1. t.hour \in 1 .. 11 /\ t.minute \in 0 .. 59 /\ t.pm \in BOOLEAN
    BY <1>1, LineAssumption
  <2>2. t.hour % 12 = t.hour
    BY <2>1
  <2> QED  BY <2>1, <2>2 DEF Minute, am_pm_to_duration_since_midnight
<1>2. ASSUME NEW rise \in SunTimes, rise.hour # 12, NEW set \in SunTimes, set.hour # 12,
             NEW now \in Clock, Minute(rise) < Minute(set)
      PROVE  LeadsToNext(rise, set, now)
  <2> DEFINE r == Minute(rise)
             e == Minute(set)
             s == SkyOf(rise, set, now)
  <2>1. r \in 0 .. 1439 /\ e \in 0 .. 1439 /\ r < e
    BY <1>1, <1>2
  <2>2. now \in 0 .. 1439
    BY LineAssumption
  <2>3. /\ am_pm_to_duration_since_midnight(rise) = r
        /\ am_pm_to_duration_since_midnight(set) = e
    BY <1>1, <1>2
  <2> DEFINE day  == r <= now /\ now < e
             left == IF now < r THEN r - now ELSE IF now < e THEN e - now ELSE r + 1440 - now
  <2>4. s.day = day /\ s.left = left
    <3>1. s = [day |-> day, left |-> left]
      BY <2>3 DEF SkyOf, Sky, EmptyReply
    <3> HIDE DEF day, left, s
    <3> QED  BY <3>1
  <2> HIDE DEF r, e, s
  <2>5. CASE now < r
    <3>1. s.left = r - now /\ ~s.day
      <4>1. left = r - now
        BY <2>1, <2>2, <2>5
      <4>2. ~day
        BY <2>1, <2>2, <2>5
      <4> HIDE DEF day, left
      <4> QED  BY <2>4, <4>1, <4>2
    <3>2. s.left > 0 /\ (now + s.left) % 1440 = r /\ now + s.left <= r /\ now + s.left <= e
      BY <2>1, <2>2, <2>5, <3>1
    <3> QED  BY <3>1, <3>2 DEF LeadsToNext, r, e, s
  <2>6. CASE r <= now /\ now < e
    <3>1. s.left = e - now /\ s.day
      <4>1. left = e - now
        BY <2>1, <2>2, <2>6
      <4>2. day
        BY <2>1, <2>2, <2>6
      <4> HIDE DEF day, left
      <4> QED  BY <2>4, <4>1, <4>2
    <3>2. s.left > 0 /\ (now + s.left) % 1440 = e /\ ~(now < r) /\ now + s.left <= e
      BY <2>1, <2>2, <2>6, <3>1
    <3> QED  BY <3>1, <3>2 DEF LeadsToNext, r, e, s
  <2>7. CASE e <= now
    <3>1. s.left = r + 1440 - now /\ ~s.day
      <4>1. left = r + 1440 - now
        BY <2>1, <2>2, <2>7
      <4>2. ~day
        BY <2>1, <2>2, <2>7
      <4> HIDE DEF day, left
      <4> QED  BY <2>4, <4>1, <4>2
    <3>2. s.left > 0 /\ (now + s.left) % 1440 = r /\ ~(now < r) /\ ~(now < e)
      BY <2>1, <2>2, <2>7, <3>1
    <3> QED  BY <3>1, <3>2 DEF LeadsToNext, r, e, s
  <2> QED  BY <2>1, <2>2, <2>5, <2>6, <2>7
<1>3. CountdownIsRight
  BY <1>2 DEF CountdownIsRight
<1> QED  BY <1>3, PTL

------------------------------------------------------------------------------
(* What is missing behind a text that was cut *)

LEMMA BracketNames ==
  ASSUME StartupAssumption
  PROVE  /\ "d" \in STRING \ {End} /\ Brackets \subseteq STRING \ {End}
         /\ "ws" \notin Brackets /\ "d" \notin Brackets /\ Closing # "]"
         /\ Brackets = {Closing, "]"}
<1>0. Brackets = {Closing, "]"}
  BY DEF Brackets, Closing
<1>1. Brackets \subseteq Tokens /\ "d" \in Tokens
  BY DEF StartupAssumption
<1>2. Tokens \subseteq STRING \ {End}
  BY DEF StartupAssumption
<1>3. Closing \notin {"d", "ws", "]"} /\ "]" \notin {"d", "ws"}
  BY DEF Closing
<1> QED  BY <1>0, <1>1, <1>2, <1>3

\* The brackets that are opened from a position on.
Opened(whole, p) == {i \in p .. Len(whole) : whole[i] \in {Opening, "["}}

LEMMA OpenedIs ==
  ASSUME NEW whole \in Texts, NEW p \in Nat
  PROVE  /\ IsFiniteSet(Opened(whole, p)) /\ Cardinality(Opened(whole, p)) \in Nat
         /\ \A q \in Nat : q >= p => Cardinality(Opened(whole, q)) <= Cardinality(Opened(whole, p))
         /\ \A q \in p .. Len(whole) : whole[q] \in {Opening, "["} =>
              Cardinality(Opened(whole, q + 1)) + 1 <= Cardinality(Opened(whole, p))
<1>0. Len(whole) \in Nat
  BY DEF Texts
<1>1. ASSUME NEW q \in Nat
      PROVE  IsFiniteSet(Opened(whole, q)) /\ Cardinality(Opened(whole, q)) \in Nat
  <2>1. IsFiniteSet(q .. Len(whole))
    BY <1>0, FS_Interval
  <2>2. Opened(whole, q) \subseteq q .. Len(whole)
    BY DEF Opened
  <2> QED  BY <2>1, <2>2, FS_Subset, FS_CardinalityType
<1>2. ASSUME NEW q \in Nat, q >= p
      PROVE  Cardinality(Opened(whole, q)) <= Cardinality(Opened(whole, p))
  <2>1. Opened(whole, q) \subseteq Opened(whole, p)
    BY <1>0, <1>2 DEF Opened
  <2> QED  BY <2>1, <1>1, FS_Subset
<1>3. ASSUME NEW q \in p .. Len(whole), whole[q] \in {Opening, "["}
      PROVE  Cardinality(Opened(whole, q + 1)) + 1 <= Cardinality(Opened(whole, p))
  <2>0. q + 1 \in Nat
    OBVIOUS
  <2>1. Opened(whole, q + 1) \cup {q} \subseteq Opened(whole, p) /\ q \notin Opened(whole, q + 1)
    BY <1>0, <1>3 DEF Opened
  <2>2. Cardinality(Opened(whole, q + 1) \cup {q}) = Cardinality(Opened(whole, q + 1)) + 1
    BY <2>0, <2>1, <1>1, FS_AddElement
  <2>3. Cardinality(Opened(whole, q + 1) \cup {q}) <= Cardinality(Opened(whole, p))
    BY <2>1, <1>1, FS_Subset
  <2> QED  BY <2>2, <2>3
<1> QED  BY <1>1, <1>2, <1>3

\* What may be missing behind a text: a value, or none, and that many brackets.
Lines(least, most) == {b \in Seq(Brackets) : Len(b) \in least .. most}
Ending(least, most, e) ==
  \E w \in {<< >>, <<"d">>} : \E b \in Lines(least, most) : e = w \o b

LEMMA EndingIs ==
  ASSUME StartupAssumption, NEW whole \in Texts, NEW least \in Nat, NEW most \in Nat, NEW e, Ending(least, most, e)
  PROVE  /\ whole \o e \in Texts /\ Extends(whole, whole \o e) /\ e \in Seq({"d"} \cup Brackets)
         /\ Len(whole \o e) = Len(whole) + Len(e)
         /\ \A x \in Brackets : /\ Ending(least + 1, most + 1, Append(e, x))
                                /\ whole \o Append(e, x) = Append(whole \o e, x)
         /\ Len(e) > 0 => At(whole \o e, Len(whole) + 1) # "ws"
<1>0. whole \in Seq(STRING \ {End}) /\ Len(whole) \in Nat
  BY DEF Texts
<1>1. PICK w \in {<< >>, <<"d">>}, b \in Lines(least, most) : e = w \o b
  BY DEF Ending
<1>2. b \in Seq(Brackets) /\ Len(b) \in least .. most
  BY DEF Lines
<1>3. {"d"} \cup Brackets \subseteq STRING \ {End} /\ "ws" \notin {"d"} \cup Brackets
  BY BracketNames
<1>4. w \in Seq({"d"} \cup Brackets)
  <2>1. \A S : "d" \in S => <<"d">> \in Seq(S) /\ << >> \in Seq(S)
    OBVIOUS
  <2>2. "d" \in {"d"} \cup Brackets
    OBVIOUS
  <2>3. <<"d">> \in Seq({"d"} \cup Brackets) /\ << >> \in Seq({"d"} \cup Brackets)
    BY <2>1, <2>2
  <2> QED  BY <2>3
<1>5. b \in Seq({"d"} \cup Brackets)
  BY <1>2
<1>6. e \in Seq({"d"} \cup Brackets)
  BY <1>1, <1>4, <1>5
<1>7. e \in Seq(STRING \ {End})
  BY <1>6, <1>3
<1>8. whole \o e \in Seq(STRING \ {End}) /\ Len(whole \o e) = Len(whole) + Len(e)
  BY <1>0, <1>7
<1>9. \A i \in 1 .. Len(whole) : (whole \o e)[i] = whole[i]
  BY <1>0, <1>7
<1>10. Extends(whole, whole \o e)
  <2>1. Len(e) \in Nat
    BY <1>6
  <2> QED  BY <1>0, <1>8, <1>9, <2>1 DEF Extends, Texts
<1>11. ASSUME NEW x \in Brackets
       PROVE  Ending(least + 1, most + 1, Append(e, x)) /\ whole \o Append(e, x) = Append(whole \o e, x)
  <2>1. Append(b, x) \in Lines(least + 1, most + 1)
    <3>1. Append(b, x) \in Seq(Brackets) /\ Len(Append(b, x)) = Len(b) + 1 /\ Len(b) \in Nat
      BY <1>2
    <3>2. Len(b) + 1 \in least + 1 .. most + 1
      BY <1>2, <3>1
    <3> QED  BY <3>1, <3>2 DEF Lines
  <2>2. Append(e, x) = w \o Append(b, x)
    <3>1. \A S : \A u, v \in Seq(S) : x \in S => Append(u \o v, x) = u \o Append(v, x)
      OBVIOUS
    <3>2. x \in {"d"} \cup Brackets
      OBVIOUS
    <3>3. Append(w \o b, x) = w \o Append(b, x)
      BY <3>1, <3>2, <1>4, <1>5
    <3> QED  BY <3>3, <1>1
  <2>3. whole \o Append(e, x) = Append(whole \o e, x)
    BY <1>0, <1>3, <1>7
  <2> QED  BY <2>1, <2>2, <2>3 DEF Ending
<1>12. ASSUME Len(e) > 0
       PROVE  At(whole \o e, Len(whole) + 1) # "ws"
  <2>1. 1 \in 1 .. Len(e) /\ e[1] \in {"d"} \cup Brackets
    BY <1>6, <1>12
  <2>2. (whole \o e)[Len(whole) + 1] = e[1] /\ Len(whole) + 1 <= Len(whole \o e)
    BY <1>0, <1>7, <1>8, <2>1
  <2> QED  BY <2>1, <2>2, <1>3 DEF At
<1> QED  BY <1>6, <1>8, <1>10, <1>11, <1>12 DEF Texts

\* The bracket behind a text ends what is open there.
LEMMA BracketCloses ==
  ASSUME StartupAssumption, NEW whole \in Texts, NEW x \in Brackets
  PROVE  LET more == Append(whole, x)
             here == Len(whole) + 1
         IN  /\ more \in Texts /\ Extends(whole, more) /\ Len(more) = here
             /\ At(more, here) = x
             /\ whitespace(more, here) = here
             /\ \A f : x = Closing => Object(more, f, here, Comma) = Parsed(<< >>, here + 1)
             /\ \A f : x = "]" => Array(more, f, here, Comma) = Parsed(<< >>, here + 1)
<1> DEFINE more == Append(whole, x)
           here == Len(whole) + 1
<1>0. whole \in Seq(STRING \ {End}) /\ Len(whole) \in Nat
  BY DEF Texts
<1>1. x \in STRING \ {End} /\ x # "ws" /\ x # "d"
  BY BracketNames
<1>2. more \in Texts /\ Len(more) = here /\ \A i \in 1 .. Len(whole) : more[i] = whole[i]
  BY <1>0, <1>1 DEF Texts
<1>3. At(more, here) = x
  BY <1>0, <1>1 DEF At
<1>4. Extends(whole, more)
  BY <1>0, <1>2 DEF Extends
<1> HIDE DEF more
<1>5. here \in Positions(more)
  BY <1>0, <1>2 DEF Positions
<1>6. whitespace(more, here) = here
  <2>1. here \in here .. Len(more) + 1 /\ here .. here - 1 = {}
    BY <1>0, <1>2
  <2> HIDE DEF here
  <2>2. \A r \in here .. here - 1 : At(more, r) = "ws"
    BY <2>1
  <2>3. Behind(more, here, "ws") = here
    BY <1>1, <1>2, <1>3, <1>5, <2>1, <2>2, BehindIs DEF End
  <2> QED  BY <2>3 DEF whitespace
<1>7. here <= Len(more) /\ here # Len(more) + 1
  BY <1>0, <1>2
<1>8. IsDelimiter(Comma, Closing) /\ IsDelimiter(Comma, "]")
  BY Names DEF IsDelimiter
<1>9. Closing # Comma /\ "]" # Comma
  BY Names
<1> HIDE DEF here
<1>a. ASSUME NEW f, x = Closing
      PROVE  Object(more, f, here, Comma) = Parsed(<< >>, here + 1)
  <2>1. At(more, whitespace(more, here)) = Closing
    BY <1>3, <1>6, <1>a
  <2>2. Object(more, f, here, Comma) = Parsed(<< >>, whitespace(more, here) + 1)
    BY <2>1, <1>9 DEF Object, Closing
  <2> QED  BY <2>2, <1>6
<1>b. ASSUME NEW f, x = "]"
      PROVE  Array(more, f, here, Comma) = Parsed(<< >>, here + 1)
  BY <1>3, <1>6, <1>9, <1>b DEF Array
<1> QED  BY <1>2, <1>3, <1>4, <1>6, <1>a, <1>b DEF more, here

\* A string, and a number, that stops too early is no char const*.
LEMMA CharactersReport ==
  ASSUME NEW whole \in Texts, NEW p \in Positions(whole),
         \A q \in p + 1 .. Len(whole) + 1 : Parser(whole)[<<"characters", q>>].exc # CutShort
  PROVE  Parser(whole)[<<"characters", p>>].exc # CutShort
<1> DEFINE F == Parser(whole)
           r == Characters(whole, F, p)
<1>0. Len(whole) \in Nat /\ p \in 1 .. Len(whole) + 1 /\ "characters" \in Kinds
  BY EndOf DEF Kinds
<1>1. F[<<"characters", p>>] = r
  BY <1>0, ParserIs, ReadIs
<1> HIDE DEF F
<1>2. \A n \in {1, 2, 6} : p + n <= Len(whole) + 1 => F[<<"characters", p + n>>].exc # CutShort
  <2>1. \A n \in {1, 2, 6} : p + n <= Len(whole) + 1 => p + n \in p + 1 .. Len(whole) + 1
    BY <1>0
  <2> QED  BY <2>1 DEF F
<1>3. /\ p <= Len(whole) => F[<<"characters", p + 1>>].exc # CutShort
      /\ p + 1 <= Len(whole) => F[<<"characters", p + 2>>].exc # CutShort
      /\ p + 5 <= Len(whole) => F[<<"characters", p + 6>>].exc # CutShort
  BY <1>0, <1>2
<1>4. \A value, i : Parsed(value, i).exc = "none"
  BY ParsedOf
<1>5. \A exc, i : Throw(exc, i).exc = exc
  BY ThrowOf
<1>6. /\ \A first, rest : Joined(first, rest).exc = rest.exc
      /\ \A first, rest : Spelled(first, rest).exc = rest.exc
  BY JoinedOf, SpelledOf
<1>7. r.exc # CutShort
  BY <1>3, <1>4, <1>5, <1>6, CharactersCases, Names
<1> QED  BY <1>1, <1>7 DEF F

LEMMA StringReports ==
  ASSUME NEW whole \in Texts, NEW p \in Positions(whole),
         \A q \in p + 1 .. Len(whole) + 1 : Parser(whole)[<<"characters", q>>].exc # CutShort
  PROVE  escaped_string(whole, Parser(whole), p).exc # CutShort
<1>0. Len(whole) \in Nat /\ p \in 1 .. Len(whole) + 1
  BY EndOf
<1>1. CASE p <= Len(whole) /\ escaped_string(whole, Parser(whole), p) = Parser(whole)[<<"characters", p + 1>>]
  <2>1. p + 1 \in p + 1 .. Len(whole) + 1
    BY <1>0, <1>1
  <2> QED  BY <1>1, <2>1
<1>2. CASE escaped_string(whole, Parser(whole), p) = Throw("ParseException", p)
  BY <1>2, ThrowOf, Names
<1> QED  BY <1>1, <1>2, StringCases

LEMMA NumberReports ==
  ASSUME NEW whole \in Texts, NEW p \in Positions(whole)
  PROVE  number_str(whole, p).exc # CutShort
<1> DEFINE first == IF At(whole, p) = "-" THEN p + 1 ELSE p
           last == Behind(whole, first, "d")
<1>1. \/ number_str(whole, p) = Throw("ParseException", first)
      \/ number_str(whole, p) = Parsed(Plain("number", SubSeq(whole, p, last - 1)), last)
  BY NumberCases
<1> QED  BY <1>1, ThrowOf, ParsedOf, Names

\* What is read up to the end of a text, and not because it ends there.
Completes(more, kind, p) ==
  LET r == Parser(more)[<<kind, p>>]
  IN  /\ r.exc = "none" /\ r.at = Len(more) + 1
      /\ kind = "value" => whitespace(more, p) <= Len(more) /\ r.value.type # "number"

Bound(whole, kind, p) ==
  IF kind = "value" THEN Cardinality(Opened(whole, p)) ELSE Cardinality(Opened(whole, p)) + 1

Completable(whole, kind, p) ==
  \E e : Ending(1, Bound(whole, kind, p), e) /\ Completes(whole \o e, kind, p)

CompletableAhead(whole, p) ==
  \A kind \in Kinds : \A q \in p + 1 .. Len(whole) + 1 :
    Parser(whole)[<<kind, q>>].exc = CutShort =>
      kind # "characters" /\ Completable(whole, kind, q)

\* A value that ends with the text, where a bracket follows.
Follows(whole, e, x, v) ==
  LET more == Append(whole \o e, x)
      r == Parser(more)[<<"value", v>>]
  IN  /\ r.exc = "none" /\ r.at = Len(whole \o e) + 1
      /\ v > Len(whole) => At(more, Len(whole) + 1) = "d"

LEMMA EndingWeaker ==
  ASSUME NEW least \in Nat, NEW most \in Nat, NEW l \in Nat, NEW m \in Nat, l <= least, most <= m,
         NEW e, Ending(least, most, e)
  PROVE  Ending(l, m, e)
<1>1. Lines(least, most) \subseteq Lines(l, m)
  BY DEF Lines
<1> QED  BY <1>1 DEF Ending

LEMMA NullAtEnd ==
  ASSUME NEW whole \in Texts, NEW p \in Positions(whole)
  PROVE  /\ whitespace(whole, p) = Len(whole) + 1 =>
              Parser(whole)[<<"value", p>>] = Parsed(NullValue, Len(whole) + 1)
         /\ Parser(whole)[<<"value", p>>].exc # "none" => p <= Len(whole)
<1>0. Len(whole) \in Nat /\ p \in 1 .. Len(whole) + 1 /\ "value" \in Kinds
  BY EndOf DEF Kinds
<1> DEFINE F == Parser(whole)
           q == whitespace(whole, p)
<1>1. F[<<"value", p>>] = Value(whole, F, p)
  BY <1>0, ParserIs, ReadIs
<1> HIDE DEF F
<1>2. ASSUME q = Len(whole) + 1
      PROVE  F[<<"value", p>>] = Parsed(NullValue, Len(whole) + 1)
  <2>1. ~(q <= Len(whole))
    BY <1>0, <1>2
  <2>2. Value(whole, F, p) = Parsed(NullValue, q)
    BY <2>1, ValueCases
  <2> QED  BY <1>1, <1>2, <2>2
<1>3. ASSUME ~(p <= Len(whole))
      PROVE  F[<<"value", p>>].exc = "none"
  <2>1. q \in p .. Len(whole) + 1
    BY BlankUpTo
  <2>2. q = Len(whole) + 1
    BY <1>0, <1>3, <2>1
  <2>3. F[<<"value", p>>] = Parsed(NullValue, Len(whole) + 1)
    BY <1>2, <2>2
  <2> QED  BY <2>3, ParsedOf
<1> QED  BY <1>2, <1>3 DEF F

\* ... because its brackets were completed,
LEMMA FollowsCut ==
  ASSUME StartupAssumption, NEW whole \in Texts, NEW v \in Positions(whole), NEW x \in Brackets,
         Parser(whole)[<<"value", v>>].exc # "none", Completable(whole, "value", v)
  PROVE  \E e : Ending(0, Cardinality(Opened(whole, v)), e) /\ Follows(whole, e, x, v)
<1> DEFINE n == Cardinality(Opened(whole, v))
<1>0. v \in Nat /\ n \in Nat /\ v <= Len(whole) /\ Len(whole) \in Nat
  <2>1. v \in Nat /\ Len(whole) \in Nat
    BY EndOf
  <2>2. n \in Nat
    BY <2>1, OpenedIs
  <2>3. v <= Len(whole)
    BY NullAtEnd
  <2> QED  BY <2>1, <2>2, <2>3
<1>1. PICK e : Ending(1, n, e) /\ Completes(whole \o e, "value", v)
  BY DEF Completable, Bound
<1> HIDE DEF n
<1> DEFINE part == whole \o e
           more == Append(part, x)
<1>2. Ending(0, n, e)
  BY <1>0, <1>1, EndingWeaker
<1>3. part \in Texts /\ Extends(whole, part)
  BY <1>0, <1>1, EndingIs
<1>4. Extends(part, more)
  <2> HIDE DEF part
  <2> QED  BY <1>3, BracketCloses
<1>5. v \in Positions(part) /\ "value" \in Kinds
  BY <1>3, ExtendsAt DEF Kinds
<1>6. Decides(part, more, "value", v, Parser(part)[<<"value", v>>])
  <2> HIDE DEF more
  <2> QED  BY <1>1 DEF Completes, Decides
<1>7. Parser(more)[<<"value", v>>] = Parser(part)[<<"value", v>>]
  <2> HIDE DEF more, part
  <2> QED  BY <1>4, <1>5, <1>6, ParserAgrees
<1>8. ~(v > Len(whole))
  BY <1>0
<1>9. Follows(whole, e, x, v)
  BY <1>1, <1>7, <1>8 DEF Follows, Completes
<1> QED  BY <1>2, <1>9 DEF n

\* ... because it ends there,
LEMMA FollowsWhole ==
  ASSUME StartupAssumption, NEW whole \in Texts, NEW v \in Positions(whole), NEW x \in Brackets,
         Parser(whole)[<<"value", v>>].exc = "none",
         Parser(whole)[<<"value", v>>].at = Len(whole) + 1, whitespace(whole, v) <= Len(whole)
  PROVE  \E e : Ending(0, 0, e) /\ Follows(whole, e, x, v)
<1> DEFINE part == whole \o << >>
           more == Append(part, x)
<1>0. v \in Nat /\ v <= Len(whole) /\ Len(whole) \in Nat
  BY EndOf, BlankUpTo
<1>1. Ending(0, 0, << >>)
  <2>1. << >> \in Lines(0, 0) /\ << >> = << >> \o << >>
    BY DEF Lines
  <2> QED  BY <2>1 DEF Ending
<1>2. part = whole
  BY DEF Texts
<1>3. Extends(whole, Append(whole, x)) /\ At(Append(whole, x), Len(whole) + 1) = x /\ x # "d"
  BY BracketCloses, BracketNames
<1>5. "value" \in Kinds
  BY DEF Kinds
<1>6. Decides(whole, Append(whole, x), "value", v, Parser(whole)[<<"value", v>>])
  BY <1>3 DEF Decides
<1>7. Parser(Append(whole, x))[<<"value", v>>] = Parser(whole)[<<"value", v>>]
  BY <1>3, <1>5, <1>6, ParserAgrees
<1>8. ~(v > Len(whole))
  BY <1>0
<1>9. Follows(whole, << >>, x, v)
  BY <1>2, <1>7, <1>8 DEF Follows
<1> QED  BY <1>1, <1>9

LEMMA OneDigit ==
  ASSUME NEW whole \in Texts, NEW p \in Positions(whole), NEW q, q = p + 1, At(whole, p) = "d",
         At(whole, q) # "d"
  PROVE  number_str(whole, p) = Parsed(Plain("number", SubSeq(whole, p, q - 1)), q)
<1>0. p \in 1 .. Len(whole)
  <2>1. "d" # End
    BY Names
  <2> QED  BY <2>1, EndOf
<1>1. q \in p .. Len(whole) + 1 /\ \A r \in p .. q - 1 : At(whole, r) = "d"
  BY <1>0
<1>2. "d" # End
  BY Names
<1>3. Behind(whole, p, "d") = q
  BY <1>1, <1>2, BehindIs
<1>4. q # p /\ At(whole, p) # "-"
  BY <1>0
<1> QED  BY <1>3, <1>4 DEF number_str

\* ... or because it was missing, and a number is put there.
LEMMA FollowsNothing ==
  ASSUME StartupAssumption, NEW whole \in Texts, NEW v \in Positions(whole), NEW x \in Brackets,
         whitespace(whole, v) = Len(whole) + 1
  PROVE  \E e : Ending(0, 0, e) /\ Follows(whole, e, x, v)
<1> DEFINE part == whole \o <<"d">>
           more == Append(part, x)
           here == Len(whole) + 1
<1>0. v \in Nat /\ Len(whole) \in Nat /\ v \in 1 .. here
  BY EndOf
<1>1. Ending(0, 0, <<"d">>)
  <2>1. << >> \in Lines(0, 0) /\ <<"d">> = <<"d">> \o << >>
    BY DEF Lines
  <2> QED  BY <2>1 DEF Ending
<1>2. /\ part \in Texts /\ Extends(whole, part) /\ Len(part) = here
  <2>1. Len(<<"d">>) = 1
    OBVIOUS
  <2> QED  BY <1>1, <2>1, EndingIs
<1>3. part[here] = "d"
  BY <1>0 DEF Texts
<1> HIDE DEF part
<1>4. /\ more \in Texts /\ Extends(part, more) /\ Len(more) = here + 1
      /\ At(more, here + 1) = x /\ x # "d" /\ x # "ws"
  BY <1>2, BracketCloses, BracketNames
<1> HIDE DEF more
<1>5. At(more, here) = "d"
  <2>1. here \in 1 .. Len(part) /\ At(part, here) = part[here]
    BY <1>0, <1>2 DEF At
  <2> QED  BY <1>3, <1>4, <2>1, ExtendsAt
<1>6. Extends(whole, more)
  BY <1>0, <1>2, <1>4 DEF Extends
<1>7. whitespace(more, v) = here
  BY <1>5, <1>6, BehindSame DEF whitespace, End
<1>8. v \in Positions(more) /\ here \in Positions(more) /\ here + 1 \in here .. Len(more) + 1
      /\ "value" \in Kinds
  BY <1>0, <1>4 DEF Positions, Kinds
<1>10. number_str(more, here) = Parsed(Plain("number", SubSeq(more, here, (here + 1) - 1)), here + 1)
  <2>1. At(more, here + 1) # "d"
    BY <1>4
  <2>2. \A q : q = here + 1 => number_str(more, here) = Parsed(Plain("number", SubSeq(more, here, q - 1)), q)
    <3> HIDE DEF here
    <3> QED  BY <1>4, <1>5, <1>8, <2>1, OneDigit
  <2> QED  BY <2>2
<1>11. Parser(more)[<<"value", v>>] = Value(more, Parser(more), v)
  BY <1>4, <1>8, ParserIs, ReadIs
<1>12. Value(more, Parser(more), v) = number_str(more, here)
  BY <1>5, <1>7 DEF Value, End, Quote
<1>13. Parser(more)[<<"value", v>>].exc = "none" /\ Parser(more)[<<"value", v>>].at = here + 1
  BY <1>10, <1>11, <1>12, ParsedOf
<1>14. Follows(whole, <<"d">>, x, v)
  BY <1>2, <1>5, <1>13 DEF Follows, more, part
<1> QED  BY <1>1, <1>14

------------------------------------------------------------------------------
(* Lists that are cut can be completed *)

\* To the end, and without an exception.
Ends(more, r) == r.exc = "none" /\ r.at = Len(more) + 1

LEMMA PartAgrees ==
  ASSUME NEW part, NEW text0, Extends(part, text0), NEW p \in Positions(part)
  PROVE  AgreeAhead(part, text0, p, Parser(part), Parser(text0))
<1>1. \A q \in p + 1 .. Len(part) + 1 : q \in Positions(part)
  BY EndOf, PositionsOf DEF Extends
<1> QED  BY <1>1, ParserAgrees DEF AgreeAhead

\* The first value or key behind a delimiter is in the same place.
LEMMA NextGoes ==
  ASSUME NEW part, NEW more, Extends(part, more), NEW p \in Positions(part),
         whitespace(part, p) <= Len(part),
         NextAt(part, p) <= Len(part) \/ At(more, Len(part) + 1) # "ws"
  PROVE  NextAt(more, p) = NextAt(part, p)
<1> DEFINE q == whitespace(part, p)
<1>1. whitespace(more, p) = q /\ q \in 1 .. Len(part)
  BY BlankSame
<1>2. q + 1 \in Positions(part) /\ part \in Texts
  BY <1>1, PositionsOf DEF Extends
<1>3. Behind(part, q + 1, "ws") = NextAt(part, p)
  BY DEF NextAt, whitespace
<1>4. Behind(more, q + 1, "ws") = NextAt(part, p)
  BY <1>2, <1>3, BehindSame DEF End
<1> QED  BY <1>1, <1>4 DEF NextAt, whitespace

LEMMA MemberFollows ==
  ASSUME NEW part, NEW more, Extends(part, more), NEW p \in Positions(part),
         NEW delimiter, IsDelimiter(delimiter, Closing),
         whitespace(part, p) <= Len(part), At(part, whitespace(part, p)) = delimiter,
         ~EmptyAt(part, p, delimiter, Opening, Closing),
         KeyAt(part, Parser(part), p).exc = "none",
         At(part, ColonAt(part, Parser(part), p)) = ":",
         NEW v, v = ColonAt(part, Parser(part), p) + 1,
         NEW r, Parser(more)[<<"value", v>>] = r, r.exc = "none",
         Ends(more, Parser(more)[<<"members", r.at>>])
  PROVE  Ends(more, Object(more, Parser(more), p, delimiter))
<1> DEFINE F == Parser(part)
           G == Parser(more)
           next == NextAt(part, p)
           key == KeyAt(part, F, p)
           colon == ColonAt(part, F, p)
           rest == G[<<"members", r.at>>]
           q == whitespace(part, p)
<1>0. /\ part \in Texts /\ more \in Texts /\ Len(part) \in Nat /\ p \in 1 .. Len(part) + 1
  BY EndOf DEF Extends
<1>1. Ahead(part, p, F) /\ next \in p .. Len(part) + 1 /\ next \in Positions(part)
  <2>1. next \in p + 1 .. Len(part) + 1 /\ next \in Positions(part)
    BY <1>0, Places
  <2>2. Ahead(part, p, F)
    BY <1>0, ParserReads
  <2> HIDE DEF next
  <2> QED  BY <1>0, <2>1, <2>2
<1> HIDE DEF F, G
<1>2. AgreeAhead(part, more, next, F, G)
  BY <1>1, PartAgrees DEF F, G
<1>3. escaped_string(more, G, next) = key /\ next <= Len(part)
  BY <1>1, <1>2, StringAgree DEF KeyAt, F
<1>4. NextAt(more, p) = next /\ ~EmptyAt(more, p, delimiter, Opening, Closing)
  BY <1>3, NextSame
<1>5. KeyAt(more, G, p) = key
  BY <1>3, <1>4 DEF KeyAt
<1>6. ColonAt(more, G, p) = colon /\ At(more, colon) = ":"
  <2>1. key.at \in Positions(part)
    <3>1. key.at \in next .. Len(part) + 1
      <4>1. Ahead(part, next, F)
        BY <1>0, <1>1, FurtherAhead
      <4> QED  BY <1>0, <1>1, <4>1, StringStep DEF KeyAt
    <3> HIDE DEF next
    <3> QED  BY <1>0, <1>1, <3>1, PositionsOf
  <2>2. whitespace(part, key.at) = colon
    BY DEF ColonAt
  <2>3. colon <= Len(part)
    <3>1. colon \in Positions(part)
      BY <1>0, <2>1, <2>2, BlankUpTo
    <3>2. At(part, colon) # End
      BY Names DEF F
    <3> HIDE DEF colon
    <3> QED  BY <1>0, <3>1, <3>2, EndOf
  <2>4. whitespace(more, key.at) = colon /\ At(more, colon) = At(part, colon)
    BY <2>1, <2>2, <2>3, BlankSame
  <2> QED  BY <2>4, <1>5 DEF ColonAt, F
<1>7. whitespace(more, p) = q /\ At(more, q) = delimiter
  BY BlankSame
<1>8. MemberValue(more, G, p) = r
  BY <1>6 DEF MemberValue, F, G
<1>9. delimiter # Closing /\ delimiter # End
  BY DEF IsDelimiter
<1>10. key.exc = "none" /\ rest.exc = "none" /\ rest.at = Len(more) + 1
  BY DEF F, G, Ends
<1>11. Object(more, G, p, delimiter) = Joined([key |-> key.value, value |-> r.value], rest)
  <2>1. Object(more, G, p, delimiter) =
          IF key.exc # "none" THEN key
          ELSE IF At(more, ColonAt(more, G, p)) # ":" THEN Throw("std::string", ColonAt(more, G, p))
          ELSE IF r.exc # "none" THEN r
          ELSE Joined([key |-> key.value, value |-> r.value], G[<<"members", r.at>>])
    <3> HIDE DEF key
    <3> QED  BY <1>4, <1>5, <1>7, <1>8, <1>9
             DEF Object, NextAt, EmptyAt, KeyAt, ColonAt, MemberValue, Opening, Closing
  <2> QED  BY <2>1, <1>6, <1>10
<1> QED  BY <1>10, <1>11, JoinedOf DEF Ends, G

LEMMA ElementFollows ==
  ASSUME NEW part, NEW more, Extends(part, more), NEW p \in Positions(part),
         NEW delimiter, IsDelimiter(delimiter, "]"),
         whitespace(part, p) <= Len(part), At(part, whitespace(part, p)) = delimiter,
         ~EmptyAt(part, p, delimiter, "[", "]"),
         NextAt(part, p) <= Len(part) \/ At(more, Len(part) + 1) = "d",
         NEW r, Parser(more)[<<"value", NextAt(part, p)>>] = r, r.exc = "none",
         Ends(more, Parser(more)[<<"elements", r.at>>])
  PROVE  Ends(more, Array(more, Parser(more), p, delimiter))
<1> DEFINE G == Parser(more)
           next == NextAt(part, p)
           rest == G[<<"elements", r.at>>]
           q == whitespace(part, p)
<1>0. part \in Texts /\ more \in Texts /\ Len(part) \in Nat
  BY EndOf DEF Extends
<1>1. NextAt(more, p) = next
  BY NextGoes
<1>2. ~EmptyAt(more, p, delimiter, "[", "]")
  <2>1. CASE next <= Len(part)
    BY <2>1, NextSame
  <2>2. CASE ~(next <= Len(part))
    <3>1. next = Len(part) + 1
      BY <1>0, <2>2, Places, EndOf
    <3>2. At(more, next) = "d"
      BY <2>2, <3>1
    <3> QED  BY <1>1, <3>2 DEF EmptyAt
  <2> QED  BY <2>1, <2>2
<1>3. whitespace(more, p) = q /\ At(more, q) = delimiter
  BY BlankSame
<1> HIDE DEF G
<1>4. ElementValue(more, G, p) = r
  BY <1>1 DEF ElementValue, G
<1>5. delimiter # "]" /\ delimiter # End
  BY DEF IsDelimiter
<1>6. rest.exc = "none" /\ rest.at = Len(more) + 1
  BY DEF G, Ends
<1>7. Array(more, G, p, delimiter) = Joined(r.value, rest)
  <2>1. Array(more, G, p, delimiter) =
          IF r.exc # "none" THEN r ELSE Joined(r.value, G[<<"elements", r.at>>])
    BY <1>1, <1>2, <1>3, <1>4, <1>5 DEF Array, NextAt, EmptyAt, ElementValue
  <2> QED  BY <2>1
<1> QED  BY <1>6, <1>7, JoinedOf DEF Ends, G

LEMMA EndingGrows ==
  ASSUME StartupAssumption, NEW whole \in Texts, NEW x \in Brackets,
         NEW least \in Nat, NEW most \in Nat, NEW e, Ending(least, most, e),
         NEW l, l = least + 1, NEW m, m = most + 1
  PROVE  Ending(l, m, Append(e, x)) /\ whole \o Append(e, x) = Append(whole \o e, x)
BY EndingIs

LEMMA EndingOne ==
  ASSUME StartupAssumption, NEW whole \in Texts, NEW x \in Brackets, NEW n \in Nat
  PROVE  \E e : Ending(1, n + 1, e) /\ whole \o e = Append(whole, x)
<1>1. <<x>> \in Seq(Brackets) /\ Len(<<x>>) = 1
  OBVIOUS
<1>2. <<x>> \in Lines(1, n + 1)
  BY <1>1 DEF Lines
<1>3. << >> \o <<x>> = <<x>>
  OBVIOUS
<1>4. Ending(1, n + 1, <<x>>)
  BY <1>2, <1>3 DEF Ending
<1>5. whole \o <<x>> = Append(whole, x)
  <2>1. x \in STRING \ {End}
    BY BracketNames
  <2> QED  BY <2>1 DEF Texts
<1> QED  BY <1>4, <1>5

\* How a value is missing: nothing is read of it, or it runs to the end of the text, or
\* is cut there.
Cut(whole, v) ==
  LET r == Parser(whole)[<<"value", v>>]
  IN  \/ r.exc = "none" /\ r.at = Len(whole) + 1
      \/ r.exc = CutShort /\ Completable(whole, "value", v)

LEMMA CutFollows ==
  ASSUME StartupAssumption, NEW whole \in Texts, NEW v \in Positions(whole), NEW x \in Brackets,
         NEW n \in Nat, Cardinality(Opened(whole, v)) <= n, Cut(whole, v)
  PROVE  \E e : /\ Ending(1, n + 1, Append(e, x)) /\ Follows(whole, e, x, v)
                /\ whole \o Append(e, x) = Append(whole \o e, x)
                /\ whole \o e \in Texts /\ Extends(whole, whole \o Append(e, x))
<1> DEFINE m == Cardinality(Opened(whole, v))
           r == Parser(whole)[<<"value", v>>]
<1>0. v \in Nat /\ m \in Nat /\ 0 \in Nat /\ 0 <= n /\ n + 1 \in Nat
  BY EndOf, OpenedIs
<1>1. \E e : Ending(0, n, e) /\ Follows(whole, e, x, v)
  <2>1. CASE r.exc = CutShort /\ Completable(whole, "value", v)
    <3>1. r.exc # "none"
      BY <2>1, Names
    <3>2. PICK e : Ending(0, m, e) /\ Follows(whole, e, x, v)
      BY <2>1, <3>1, FollowsCut
    <3>3. Ending(0, n, e)
      BY <1>0, <3>2, EndingWeaker
    <3> QED  BY <3>2, <3>3
  <2>2. CASE r.exc = "none" /\ r.at = Len(whole) + 1
    <3>1. \E e : Ending(0, 0, e) /\ Follows(whole, e, x, v)
      <4>1. CASE whitespace(whole, v) <= Len(whole)
        BY <2>2, <4>1, FollowsWhole
      <4>2. CASE ~(whitespace(whole, v) <= Len(whole))
        <5>1. whitespace(whole, v) = Len(whole) + 1
          BY <4>2, BlankUpTo, EndOf
        <5> QED  BY <5>1, FollowsNothing
      <4> QED  BY <4>1, <4>2
    <3>2. PICK e : Ending(0, 0, e) /\ Follows(whole, e, x, v)
      BY <3>1
    <3>3. Ending(0, n, e)
      BY <1>0, <3>2, EndingWeaker
    <3> QED  BY <3>2, <3>3
  <2> QED  BY <2>1, <2>2 DEF Cut
<1>2. PICK e : Ending(0, n, e) /\ Follows(whole, e, x, v)
  BY <1>1
<1>3. whole \o e \in Texts
  BY <1>0, <1>2, EndingIs
<1>4. Ending(1, n + 1, Append(e, x)) /\ whole \o Append(e, x) = Append(whole \o e, x)
  <2>1. 1 = 0 + 1
    OBVIOUS
  <2> QED  BY <1>0, <1>2, <2>1, EndingGrows, SMTT(20)
<1>5. Extends(whole, whole \o Append(e, x))
  BY <1>0, <1>4, EndingIs
<1> QED  BY <1>2, <1>3, <1>4, <1>5

\* The bracket behind the value ends the list it is in.
LEMMA ListEnds ==
  ASSUME StartupAssumption, NEW whole \in Texts, NEW e, whole \o e \in Texts
  PROVE  LET here == Len(whole \o e) + 1
         IN  /\ LET more == Append(whole \o e, Closing)
                IN  Ends(more, Parser(more)[<<"members", here>>])
             /\ LET more == Append(whole \o e, "]")
                IN  Ends(more, Parser(more)[<<"elements", here>>])
<1> DEFINE part == whole \o e
           here == Len(part) + 1
<1>0. part \in Texts
  OBVIOUS
<1>1. Closing \in Brackets /\ "]" \in Brackets
  BY BracketNames
<1>2. ASSUME NEW x \in Brackets, NEW kind \in {"members", "elements"}
      PROVE  LET more == Append(part, x)
             IN  /\ Parser(more)[<<kind, here>>] = Read(more, Parser(more), <<kind, here>>)
                 /\ Len(more) = here
  <2> DEFINE more == Append(part, x)
  <2>1. more \in Texts /\ Len(more) = here
    <3> HIDE DEF part
    <3> QED  BY <1>0, BracketCloses
  <2>2. here \in Positions(more) /\ kind \in Kinds
    <3> HIDE DEF more
    <3> QED  BY <2>1, PositionsOf DEF Kinds
  <2> HIDE DEF more, here
  <2> QED  BY <2>1, <2>2, ParserIs DEF more
<1> HIDE DEF part
<1>3. /\ Object(Append(part, Closing), Parser(Append(part, Closing)), here, Comma) = Parsed(<< >>, here + 1)
      /\ Array(Append(part, "]"), Parser(Append(part, "]")), here, Comma) = Parsed(<< >>, here + 1)
  BY <1>1, BracketCloses DEF part
<1>4. /\ Parser(Append(part, Closing))[<<"members", here>>] = Parsed(<< >>, here + 1)
      /\ Len(Append(part, Closing)) = here
  <2> HIDE DEF here
  <2> QED  BY <1>1, <1>2, <1>3, ReadIs
<1>5. /\ Parser(Append(part, "]"))[<<"elements", here>>] = Parsed(<< >>, here + 1)
      /\ Len(Append(part, "]")) = here
  <2> HIDE DEF here
  <2> QED  BY <1>1, <1>2, <1>3, ReadIs
<1> HIDE DEF here
<1>6. Parsed(<< >>, here + 1).exc = "none" /\ Parsed(<< >>, here + 1).at = here + 1
  BY ParsedOf
<1> QED  BY <1>4, <1>5, <1>6 DEF Ends, part, here

\* The members of an object that is cut can be completed.
LEMMA ObjectCompletes ==
  ASSUME StartupAssumption, NEW whole \in Texts, NEW p \in Positions(whole),
         CompletableAhead(whole, p), NEW delimiter, IsDelimiter(delimiter, Closing),
         Object(whole, Parser(whole), p, delimiter).exc = CutShort,
         NEW n \in Nat, n = Cardinality(Opened(whole, p + 1))
  PROVE  \E e : /\ Ending(1, n + 1, e)
                /\ Ends(whole \o e, Object(whole \o e, Parser(whole \o e), p, delimiter))
                /\ Extends(whole, whole \o e)
<1> DEFINE F == Parser(whole)
           L == Len(whole)
           q == whitespace(whole, p)
           c == At(whole, q)
           key == KeyAt(whole, F, p)
           colon == ColonAt(whole, F, p)
           v == colon + 1
           val == MemberValue(whole, F, p)
           rest == F[<<"members", val.at>>]
           member == [key |-> key.value, value |-> val.value]
           r == Object(whole, F, p, delimiter)
           more == ~EmptyAt(whole, p, delimiter, Opening, Closing)
<1>0. L \in Nat /\ p \in 1 .. L + 1 /\ p + 1 \in Nat /\ "members" \in Kinds /\ "value" \in Kinds
      /\ "members" # "characters" /\ "value" # "characters"
  BY EndOf DEF Kinds
<1>1. Closing \in Brackets /\ delimiter # Closing
  BY BracketNames DEF IsDelimiter
<1>2. /\ \A value, i : r # Parsed(value, i)
      /\ \A i : r # Throw("std::string", i)
  BY ParsedOf, ThrowOf, Names
<1>3. \/ q = L + 1
      \/ /\ q <= L /\ c = delimiter /\ more
         /\ \/ key.exc # "none" /\ r = key
            \/ /\ key.exc = "none" /\ At(whole, colon) = ":"
               /\ \/ val.exc # "none" /\ r = val
                  \/ val.exc = "none" /\ r = Joined(member, rest)
  <2>1. r # Throw("std::string", colon) /\ r # Throw("std::string", q)
        /\ r # Parsed(<< >>, NextAt(whole, p) + 1) /\ r # Parsed(<< >>, q + 1)
    BY <1>2
  <2> QED  BY <2>1, ObjectCases
<1>a. CASE q = L + 1
  <2> DEFINE full == Append(whole, Closing)
  <2>1. PICK e : Ending(1, n + 1, e) /\ whole \o e = full
    BY <1>1, EndingOne
  <2>2. Extends(whole, full) /\ At(full, L + 1) = Closing /\ Len(full) = L + 1
    BY <1>1, BracketCloses
  <2>3. Behind(full, p, "ws") = L + 1
    <3> HIDE DEF full
    <3>1. Behind(whole, p, "ws") = L + 1
      BY <1>a DEF whitespace
    <3>2. At(full, L + 1) # "ws" /\ "ws" # End
      BY <1>1, <2>2, BracketNames DEF End
    <3> QED  BY <3>1, <3>2, <2>2, BehindSame
  <2>4. Object(full, Parser(full), p, delimiter) = Parsed(<< >>, L + 1 + 1)
    <3>1. whitespace(full, p) = L + 1
      BY <2>3 DEF whitespace
    <3>2. At(full, whitespace(full, p)) = Closing
      BY <2>2, <3>1
    <3>3. Object(full, Parser(full), p, delimiter) = Parsed(<< >>, whitespace(full, p) + 1)
      <4> HIDE DEF full
      <4> QED  BY <3>2, <1>1 DEF Object, Closing
    <3> QED  BY <3>1, <3>3
  <2>5. Ends(full, Object(full, Parser(full), p, delimiter))
    <3> HIDE DEF full
    <3> QED  BY <2>2, <2>4, ParsedOf DEF Ends
  <2> QED  BY <2>1, <2>2, <2>5
<1>b. CASE /\ q <= L /\ c = delimiter /\ more
           /\ \/ key.exc # "none" /\ r = key
              \/ /\ key.exc = "none" /\ At(whole, colon) = ":"
                 /\ \/ val.exc # "none" /\ r = val
                    \/ val.exc = "none" /\ r = Joined(member, rest)
  <2>1. /\ \A i \in p + 1 .. L + 1 : F[<<"characters", i>>].exc # CutShort
        /\ NextAt(whole, p) \in p + 1 .. L + 1 /\ NextAt(whole, p) \in Positions(whole)
    <3>1. NextAt(whole, p) \in p + 1 .. L + 1 /\ NextAt(whole, p) \in Positions(whole)
      BY <1>b, Places
    <3>2. \A i \in p + 1 .. L + 1 : F[<<"characters", i>>].exc # CutShort
      BY DEF CompletableAhead, Kinds
    <3> QED  BY <3>1, <3>2
  <2>2. key.exc # CutShort
    <3>1. \A i \in NextAt(whole, p) + 1 .. L + 1 : i \in p + 1 .. L + 1
      BY <1>0, <2>1
    <3>2. escaped_string(whole, Parser(whole), NextAt(whole, p)).exc # CutShort
      BY <2>1, <3>1, StringReports
    <3> QED  BY <3>2 DEF KeyAt
  <2>3. /\ key.exc = "none" /\ At(whole, colon) = ":"
        /\ \/ val.exc = CutShort
           \/ val.exc = "none" /\ rest.exc = CutShort
    <3> HIDE DEF key, val, colon, rest
    <3> QED  BY <1>b, <2>2, JoinedOf
  <2>4. /\ colon \in p + 1 .. L /\ v \in p + 1 .. L + 1 /\ val.at \in p + 1 .. L + 1
        /\ val = F[<<"value", v>>] /\ Ahead(whole, p, F)
    <3>1. Ahead(whole, p, F)
      BY ParserReads
    <3> HIDE DEF F
    <3> QED  BY <1>b, <2>3, <3>1, MemberPlaces DEF MemberValue
  <2>5. v \in Positions(whole) /\ v \in Nat /\ v >= p + 1 /\ Cardinality(Opened(whole, v)) <= n
    <3> HIDE DEF v
    <3>1. v \in Positions(whole) /\ v \in Nat /\ v >= p + 1
      BY <1>0, <2>4, PositionsOf
    <3> QED  BY <3>1, <1>0, OpenedIs
  <2>6. ASSUME NEW full, Extends(whole, full), NEW s, full = s, NEW t, Parser(full)[<<"value", v>>] = t,
               t.exc = "none", Ends(full, Parser(full)[<<"members", t.at>>])
        PROVE  Ends(full, Object(full, Parser(full), p, delimiter))
    <3>1. ~EmptyAt(whole, p, delimiter, Opening, Closing)
      BY <1>b
    <3>2. KeyAt(whole, Parser(whole), p).exc = "none"
          /\ At(whole, ColonAt(whole, Parser(whole), p)) = ":" /\ v = ColonAt(whole, Parser(whole), p) + 1
      BY <2>3
    <3> HIDE DEF v, F
    <3> QED  BY <1>b, <2>6, <3>1, <3>2, MemberFollows
  <2>a. CASE Cut(whole, v)
    <3>1. PICK e : /\ Ending(1, n + 1, Append(e, Closing)) /\ Follows(whole, e, Closing, v)
                   /\ whole \o Append(e, Closing) = Append(whole \o e, Closing)
                   /\ whole \o e \in Texts /\ Extends(whole, whole \o Append(e, Closing))
      <4> HIDE DEF v
      <4> QED  BY <1>1, <2>5, <2>a, CutFollows
    <3> DEFINE full == Append(whole \o e, Closing)
               t == Parser(full)[<<"value", v>>]
    <3>2. t.exc = "none" /\ t.at = Len(whole \o e) + 1
      BY <3>1 DEF Follows
    <3>3. Ends(full, Parser(full)[<<"members", Len(whole \o e) + 1>>])
      BY <3>1, ListEnds
    <3>4. Ends(full, Parser(full)[<<"members", t.at>>]) /\ Extends(whole, full)
      BY <3>1, <3>2, <3>3
    <3> HIDE DEF full
    <3>5. Ends(full, Object(full, Parser(full), p, delimiter))
      BY <2>6, <3>2, <3>4
    <3> QED  BY <3>1, <3>5 DEF full
  <2>b. CASE ~Cut(whole, v)
    <3> DEFINE a == val.at
    <3>1. val.exc = "none" /\ rest.exc = CutShort /\ a # L + 1
      <4>1. val.exc = CutShort => Completable(whole, "value", v)
        <5> HIDE DEF v, val
        <5> QED  BY <1>0, <2>4 DEF CompletableAhead
      <4> QED  BY <2>3, <2>4, <2>b, <4>1 DEF Cut
    <3>2. a \in p + 1 .. L
      <4> HIDE DEF a, val
      <4> QED  BY <1>0, <2>4, <3>1 DEF a
    <3>3. Completable(whole, "members", a)
      <4> HIDE DEF val
      <4> QED  BY <1>0, <2>4, <3>1 DEF CompletableAhead
    <3>4. PICK e : Ending(1, Cardinality(Opened(whole, a)) + 1, e) /\ Completes(whole \o e, "members", a)
      BY <3>3 DEF Completable, Bound
    <3>5. Ending(1, n + 1, e)
      <4> DEFINE m == Cardinality(Opened(whole, a))
      <4>1. m \in Nat /\ m <= n
        <5> HIDE DEF a
        <5> QED  BY <1>0, <3>2, OpenedIs
      <4>2. m + 1 \in Nat /\ n + 1 \in Nat /\ m + 1 <= n + 1 /\ 1 <= 1 /\ Ending(1, m + 1, e)
        BY <3>4, <4>1
      <4> HIDE DEF m
      <4> QED  BY <4>2, EndingWeaker
    <3> DEFINE full == whole \o e
    <3>6. Extends(whole, full)
      BY <1>0, <3>5, EndingIs
    <3>7. Ends(full, Parser(full)[<<"members", a>>])
      BY <3>4 DEF Completes, Ends
    <3> HIDE DEF full
    <3>8. Parser(full)[<<"value", v>>] = val
      <4>1. a <= L
        <5> HIDE DEF a
        <5> QED  BY <3>2
      <4>2. Decides(whole, full, "value", v, val)
        BY <3>1, <4>1 DEF Decides
      <4> HIDE DEF v, val
      <4> QED  BY <1>0, <2>4, <2>5, <3>6, <4>2, ParserAgrees
    <3>9. Ends(full, Object(full, Parser(full), p, delimiter))
      <4> HIDE DEF v, val
      <4> QED  BY <2>6, <3>1, <3>6, <3>7, <3>8
    <3> QED  BY <3>5, <3>6, <3>9 DEF full
  <2> QED  BY <2>a, <2>b
<1> QED  BY <1>3, <1>a, <1>b

\* ... and the elements of an array.
LEMMA ArrayCompletes ==
  ASSUME StartupAssumption, NEW whole \in Texts, NEW p \in Positions(whole),
         CompletableAhead(whole, p), NEW delimiter, IsDelimiter(delimiter, "]"),
         Array(whole, Parser(whole), p, delimiter).exc = CutShort,
         NEW n \in Nat, n = Cardinality(Opened(whole, p + 1))
  PROVE  \E e : /\ Ending(1, n + 1, e)
                /\ Ends(whole \o e, Array(whole \o e, Parser(whole \o e), p, delimiter))
                /\ Extends(whole, whole \o e)
<1> DEFINE F == Parser(whole)
           L == Len(whole)
           q == whitespace(whole, p)
           c == At(whole, q)
           v == NextAt(whole, p)
           val == ElementValue(whole, F, p)
           rest == F[<<"elements", val.at>>]
           first == val.value
           r == Array(whole, F, p, delimiter)
           more == ~EmptyAt(whole, p, delimiter, "[", "]")
<1>0. L \in Nat /\ p \in 1 .. L + 1 /\ p + 1 \in Nat /\ "elements" \in Kinds /\ "value" \in Kinds
      /\ "elements" # "characters" /\ "value" # "characters"
  BY EndOf DEF Kinds
<1>1. "]" \in Brackets /\ delimiter # "]"
  BY BracketNames DEF IsDelimiter
<1>2. /\ \A value, i : r # Parsed(value, i)
      /\ \A i : r # Throw("std::string", i)
  BY ParsedOf, ThrowOf, Names
<1>3. \/ q = L + 1
      \/ /\ q <= L /\ c = delimiter /\ more
         /\ \/ val.exc # "none" /\ r = val
            \/ val.exc = "none" /\ r = Joined(first, rest)
  <2>1. r # Throw("std::string", q)
        /\ r # Parsed(<< >>, NextAt(whole, p) + 1) /\ r # Parsed(<< >>, q + 1)
    BY <1>2
  <2> QED  BY <2>1, ArrayCases
<1>a. CASE q = L + 1
  <2> DEFINE full == Append(whole, "]")
  <2>1. PICK e : Ending(1, n + 1, e) /\ whole \o e = full
    BY <1>1, EndingOne
  <2>2. Extends(whole, full) /\ At(full, L + 1) = "]" /\ Len(full) = L + 1
    BY <1>1, BracketCloses
  <2>3. Behind(full, p, "ws") = L + 1
    <3> HIDE DEF full
    <3>1. Behind(whole, p, "ws") = L + 1
      BY <1>a DEF whitespace
    <3>2. At(full, L + 1) # "ws" /\ "ws" # End
      BY <1>1, <2>2, BracketNames DEF End
    <3> QED  BY <3>1, <3>2, <2>2, BehindSame
  <2>4. Array(full, Parser(full), p, delimiter) = Parsed(<< >>, L + 1 + 1)
    <3>1. whitespace(full, p) = L + 1
      BY <2>3 DEF whitespace
    <3>2. At(full, whitespace(full, p)) = "]"
      BY <2>2, <3>1
    <3>3. Array(full, Parser(full), p, delimiter) = Parsed(<< >>, whitespace(full, p) + 1)
      <4> HIDE DEF full
      <4> QED  BY <3>2, <1>1 DEF Array
    <3> QED  BY <3>1, <3>3
  <2>5. Ends(full, Array(full, Parser(full), p, delimiter))
    <3> HIDE DEF full
    <3> QED  BY <2>2, <2>4, ParsedOf DEF Ends
  <2> QED  BY <2>1, <2>2, <2>5
<1>b. CASE /\ q <= L /\ c = delimiter /\ more
           /\ \/ val.exc # "none" /\ r = val
              \/ val.exc = "none" /\ r = Joined(first, rest)
  <2>1. \/ val.exc = CutShort
        \/ val.exc = "none" /\ rest.exc = CutShort
    <3> HIDE DEF val, rest
    <3> QED  BY <1>b, JoinedOf
  <2>2. /\ v \in p + 1 .. L + 1 /\ v \in Positions(whole)
        /\ val = F[<<"value", v>>] /\ Ahead(whole, p, F)
    <3>1. v \in p + 1 .. L + 1 /\ v \in Positions(whole)
      BY <1>b, Places
    <3>2. Ahead(whole, p, F)
      BY ParserReads
    <3> QED  BY <3>1, <3>2 DEF ElementValue
  <2>3. val.at \in v .. L + 1
    <3> HIDE DEF F, v
    <3> QED  BY <1>0, <2>2 DEF Ahead
  <2>4. /\ val.at \in p + 1 .. L + 1 /\ v \in Nat /\ v >= p + 1 /\ Cardinality(Opened(whole, v)) <= n
        /\ At(whole, v) # "ws"
    <3>1. val.at \in p + 1 .. L + 1 /\ v \in Nat /\ v >= p + 1
      <4> HIDE DEF v, val
      <4> QED  BY <1>0, <2>2, <2>3
    <3>2. whitespace(whole, p) + 1 \in Positions(whole)
      <4>1. whitespace(whole, p) \in p .. L + 1
        BY BlankUpTo
      <4> QED  BY <1>0, <1>b, <4>1, PositionsOf
    <3>3. At(whole, v) # "ws"
      BY <3>2, BlankUpTo DEF NextAt
    <3> HIDE DEF v
    <3> QED  BY <3>1, <3>3, <1>0, OpenedIs
  <2>5. ASSUME NEW full, Extends(whole, full), NEW t, Parser(full)[<<"value", v>>] = t,
               t.exc = "none", Ends(full, Parser(full)[<<"elements", t.at>>]),
               v <= L \/ At(full, L + 1) = "d"
        PROVE  Ends(full, Array(full, Parser(full), p, delimiter))
    <3>1. ~EmptyAt(whole, p, delimiter, "[", "]")
      BY <1>b
    <3> QED  BY <1>b, <2>5, <3>1, ElementFollows
  <2>a. CASE Cut(whole, v)
    <3>1. PICK e : /\ Ending(1, n + 1, Append(e, "]")) /\ Follows(whole, e, "]", v)
                   /\ whole \o Append(e, "]") = Append(whole \o e, "]")
                   /\ whole \o e \in Texts /\ Extends(whole, whole \o Append(e, "]"))
      <4> HIDE DEF v
      <4> QED  BY <1>1, <2>2, <2>4, <2>a, CutFollows
    <3> DEFINE full == Append(whole \o e, "]")
               t == Parser(full)[<<"value", v>>]
    <3>2. t.exc = "none" /\ t.at = Len(whole \o e) + 1 /\ (v > L => At(full, L + 1) = "d")
      BY <3>1 DEF Follows
    <3>3. Ends(full, Parser(full)[<<"elements", Len(whole \o e) + 1>>])
      BY <3>1, ListEnds
    <3>4. Ends(full, Parser(full)[<<"elements", t.at>>]) /\ Extends(whole, full)
      BY <3>1, <3>2, <3>3
    <3> HIDE DEF full
    <3>5. v <= L \/ At(full, L + 1) = "d"
      <4> HIDE DEF v
      <4> QED  BY <1>0, <2>4, <3>2
    <3>6. Ends(full, Array(full, Parser(full), p, delimiter))
      BY <2>5, <3>2, <3>4, <3>5
    <3> QED  BY <3>1, <3>6 DEF full
  <2>b. CASE ~Cut(whole, v)
    <3> DEFINE a == val.at
    <3>1. val.exc = "none" /\ rest.exc = CutShort /\ a # L + 1
      <4>1. val.exc = CutShort => Completable(whole, "value", v)
        <5> HIDE DEF v, val
        <5> QED  BY <1>0, <2>2 DEF CompletableAhead
      <4> QED  BY <2>1, <2>2, <2>b, <4>1 DEF Cut
    <3>2. a \in p + 1 .. L /\ v <= L
      <4> HIDE DEF a, val, v
      <4> QED  BY <1>0, <2>2, <2>3, <2>4, <3>1 DEF a
    <3>3. Completable(whole, "elements", a)
      <4> HIDE DEF val
      <4> QED  BY <1>0, <2>4, <3>1 DEF CompletableAhead
    <3>4. PICK e : Ending(1, Cardinality(Opened(whole, a)) + 1, e) /\ Completes(whole \o e, "elements", a)
      BY <3>3 DEF Completable, Bound
    <3>5. Ending(1, n + 1, e)
      <4> DEFINE m == Cardinality(Opened(whole, a))
      <4>1. m \in Nat /\ m <= n
        <5> HIDE DEF a
        <5> QED  BY <1>0, <3>2, OpenedIs
      <4>2. m + 1 \in Nat /\ n + 1 \in Nat /\ m + 1 <= n + 1 /\ 1 <= 1 /\ Ending(1, m + 1, e)
        BY <3>4, <4>1
      <4> HIDE DEF m
      <4> QED  BY <4>2, EndingWeaker
    <3> DEFINE full == whole \o e
    <3>6. Extends(whole, full)
      BY <1>0, <3>5, EndingIs
    <3>7. Ends(full, Parser(full)[<<"elements", a>>])
      BY <3>4 DEF Completes, Ends
    <3> HIDE DEF full
    <3>8. Parser(full)[<<"value", v>>] = val
      <4>1. a <= L
        <5> HIDE DEF a
        <5> QED  BY <3>2
      <4>2. Decides(whole, full, "value", v, val)
        BY <3>1, <4>1 DEF Decides
      <4> HIDE DEF v, val
      <4> QED  BY <1>0, <2>2, <3>6, <4>2, ParserAgrees
    <3>9. Ends(full, Array(full, Parser(full), p, delimiter))
      <4> HIDE DEF v, val
      <4> QED  BY <2>5, <3>1, <3>2, <3>6, <3>7, <3>8
    <3> QED  BY <3>5, <3>6, <3>9 DEF full
  <2> QED  BY <2>a, <2>b
<1> QED  BY <1>3, <1>a, <1>b

------------------------------------------------------------------------------
(* ... and so can a text *)

LEMMA ValueCompletes ==
  ASSUME StartupAssumption, NEW whole \in Texts, NEW p \in Positions(whole),
         CompletableAhead(whole, p), Parser(whole)[<<"value", p>>].exc = CutShort
  PROVE  Completable(whole, "value", p)
<1> DEFINE F == Parser(whole)
           L == Len(whole)
           q == whitespace(whole, p)
           c == At(whole, q)
           r == Value(whole, F, p)
           object == Object(whole, F, q, Opening)
           array == Array(whole, F, q, "[")
           chars == escaped_string(whole, F, q)
           n == Cardinality(Opened(whole, q + 1))
<1>0. /\ L \in Nat /\ p \in 1 .. L + 1 /\ p \in Nat /\ "value" \in Kinds
      /\ q \in p .. L + 1 /\ q \in Positions(whole) /\ q \in Nat /\ q + 1 \in Nat
  <2>1. L \in Nat /\ p \in 1 .. L + 1 /\ "value" \in Kinds
    BY EndOf DEF Kinds
  <2>2. q \in p .. L + 1 /\ q \in Positions(whole)
    BY BlankUpTo
  <2> QED  BY <2>1, <2>2
<1>1. r.exc = CutShort
  BY <1>0, ParserIs, ReadIs
<1>2. CompletableAhead(whole, q)
  <2>1. \A i \in q + 1 .. L + 1 : i \in p + 1 .. L + 1
    BY <1>0
  <2> QED  BY <2>1 DEF CompletableAhead
<1>3. chars.exc # CutShort
  <2>1. \A i \in q + 1 .. L + 1 : F[<<"characters", i>>].exc # CutShort
    BY <1>2 DEF CompletableAhead, Kinds
  <2> QED  BY <1>0, <2>1, StringReports
<1>4. number_str(whole, q).exc # CutShort
  BY <1>0, NumberReports
<1>5. /\ q <= L
      /\ \/ c = Opening /\ object.exc = CutShort
         \/ c = "[" /\ array.exc = CutShort
  <2>1. \A value, i : r # Parsed(value, i)
    BY <1>1, ParsedOf, Names
  <2>2. r \notin {Throw("std::string", q), Throw("undefined", L + 1)}
    BY <1>1, ThrowOf, Names
  <2>3. r # Made(Plain("string", chars.value), chars)
    BY <1>1, <1>3, MadeOf
  <2>4. r # number_str(whole, q)
    BY <1>1, <1>4
  <2>5. \/ q <= L /\ c = Opening /\ r = Made(ObjectOf(Emplaced(object.value)), object)
        \/ q <= L /\ c = "[" /\ r = Made(ArrayOf(array.value), array)
    <3>1. r # Parsed(NullValue, q) /\ r # Parsed(Plain("bool", <<c>>), q + 1) /\ r # Parsed(NullValue, q + 1)
      BY <2>1
    <3> QED  BY <2>2, <2>3, <2>4, <3>1, ValueCases
  <2> QED  BY <1>1, <2>5, MadeOf
<1>6. /\ n \in Nat /\ n + 1 <= Cardinality(Opened(whole, p)) /\ Cardinality(Opened(whole, p)) \in Nat
  <2>1. whole[q] \in {Opening, "["} /\ q \in p .. L
    <3>1. c = whole[q]
      BY <1>5 DEF At
    <3> HIDE DEF q
    <3> QED  BY <1>0, <1>5, <3>1
  <2> HIDE DEF q
  <2> QED  BY <1>0, <2>1, OpenedIs
<1>7. IsDelimiter(Opening, Closing) /\ IsDelimiter("[", "]")
  BY Names DEF IsDelimiter
<1>8. \E e : /\ Ending(1, n + 1, e) /\ Extends(whole, whole \o e)
             /\ Ends(whole \o e, Value(whole \o e, Parser(whole \o e), p))
             /\ Value(whole \o e, Parser(whole \o e), p).value.type # "number"
  <2>1. ASSUME NEW full, Extends(whole, full)
        PROVE  At(full, whitespace(full, p)) = c /\ whitespace(full, p) = q
    BY <1>5, <2>1, BlankSame
  <2>a. CASE c = Opening /\ object.exc = CutShort
    <3>1. \A d : IsDelimiter(d, Closing) /\ Object(whole, F, q, d).exc = CutShort =>
            \E e : /\ Ending(1, n + 1, e)
                   /\ Ends(whole \o e, Object(whole \o e, Parser(whole \o e), q, d))
                   /\ Extends(whole, whole \o e)
      <4> HIDE DEF q
      <4> QED  BY <1>0, <1>2, <1>6, ObjectCompletes
    <3>2. PICK e : /\ Ending(1, n + 1, e) /\ Extends(whole, whole \o e)
                   /\ Ends(whole \o e, Object(whole \o e, Parser(whole \o e), q, Opening))
      BY <1>7, <2>a, <3>1
    <3> DEFINE full == whole \o e
               inner == Object(full, Parser(full), q, Opening)
    <3>3. At(full, whitespace(full, p)) = Opening /\ whitespace(full, p) = q
      BY <2>1, <2>a, <3>2
    <3>4. Value(full, Parser(full), p) = Made(ObjectOf(Emplaced(inner.value)), inner)
      <4> HIDE DEF full
      <4> QED  BY <3>3 DEF Value, Opening, End, Quote
    <3>5. inner.exc = "none" /\ inner.at = Len(full) + 1
      BY <3>2 DEF Ends
    <3>6. ObjectOf(Emplaced(inner.value)).type = "object"
      BY DEF ObjectOf
    <3> HIDE DEF inner
    <3>7. Ends(full, Value(full, Parser(full), p)) /\ Value(full, Parser(full), p).value.type # "number"
      BY <3>4, <3>5, <3>6, MadeOf DEF Ends
    <3> QED  BY <3>2, <3>7
  <2>b. CASE c = "[" /\ array.exc = CutShort
    <3>1. \A d : IsDelimiter(d, "]") /\ Array(whole, F, q, d).exc = CutShort =>
            \E e : /\ Ending(1, n + 1, e)
                   /\ Ends(whole \o e, Array(whole \o e, Parser(whole \o e), q, d))
                   /\ Extends(whole, whole \o e)
      <4> HIDE DEF q
      <4> QED  BY <1>0, <1>2, <1>6, ArrayCompletes
    <3>2. PICK e : /\ Ending(1, n + 1, e) /\ Extends(whole, whole \o e)
                   /\ Ends(whole \o e, Array(whole \o e, Parser(whole \o e), q, "["))
      BY <1>7, <2>b, <3>1
    <3> DEFINE full == whole \o e
               inner == Array(full, Parser(full), q, "[")
    <3>3. At(full, whitespace(full, p)) = "[" /\ whitespace(full, p) = q
      BY <2>1, <2>b, <3>2
    <3>4. Value(full, Parser(full), p) = Made(ArrayOf(inner.value), inner)
      <4> HIDE DEF full
      <4> QED  BY <3>3 DEF Value, Opening, End, Quote
    <3>5. inner.exc = "none" /\ inner.at = Len(full) + 1
      BY <3>2 DEF Ends
    <3>6. ArrayOf(inner.value).type = "array"
      BY DEF ArrayOf
    <3> HIDE DEF inner
    <3>7. Ends(full, Value(full, Parser(full), p)) /\ Value(full, Parser(full), p).value.type # "number"
      BY <3>4, <3>5, <3>6, MadeOf DEF Ends
    <3> QED  BY <3>2, <3>7
  <2> QED  BY <1>5, <2>a, <2>b
<1>9. PICK e : /\ Ending(1, n + 1, e) /\ Extends(whole, whole \o e)
               /\ Ends(whole \o e, Value(whole \o e, Parser(whole \o e), p))
               /\ Value(whole \o e, Parser(whole \o e), p).value.type # "number"
  BY <1>8
<1>10. Ending(1, Bound(whole, "value", p), e)
  <2>1. Ending(1, Cardinality(Opened(whole, p)), e)
    <3> DEFINE m == n + 1
    <3>1. m \in Nat /\ m <= Cardinality(Opened(whole, p)) /\ Ending(1, m, e) /\ 1 <= 1
      BY <1>6, <1>9
    <3> HIDE DEF m
    <3> QED  BY <1>6, <3>1, EndingWeaker
  <2> QED  BY <2>1 DEF Bound
<1>11. Completes(whole \o e, "value", p)
  <2> DEFINE full == whole \o e
  <2>1. full \in Texts /\ p \in Positions(full) /\ L <= Len(full) /\ Len(full) \in Nat
    BY <1>9, ExtendsAt DEF Extends
  <2>2. whitespace(full, p) = q
    BY <1>5, <1>9, BlankSame
  <2>3. whitespace(full, p) <= Len(full)
    <3> HIDE DEF q, full
    <3> QED  BY <1>0, <1>5, <2>1, <2>2
  <2>4. Parser(full)[<<"value", p>>] = Value(full, Parser(full), p)
    <3> HIDE DEF full
    <3> QED  BY <1>0, <2>1, ParserIs, ReadIs
  <2> QED  BY <1>9, <2>3, <2>4 DEF Completes, Ends
<1> QED  BY <1>10, <1>11 DEF Completable

\* What a list, or a value, cut short, lacks.
LEMMA WorkCompletes ==
  ASSUME StartupAssumption, NEW whole \in Texts, NEW p \in Positions(whole),
         CompletableAhead(whole, p), NEW kind \in Kinds, Parser(whole)[<<kind, p>>].exc = CutShort
  PROVE  kind # "characters" /\ Completable(whole, kind, p)
<1> DEFINE n == Cardinality(Opened(whole, p + 1))
<1>0. p \in Nat /\ p + 1 \in Nat /\ IsDelimiter(Comma, Closing) /\ IsDelimiter(Comma, "]")
  BY EndOf, Names DEF IsDelimiter
<1>1. n \in Nat /\ Cardinality(Opened(whole, p)) \in Nat /\ n <= Cardinality(Opened(whole, p))
  <2>1. p + 1 >= p
    BY <1>0
  <2> QED  BY <1>0, <2>1, OpenedIs
<1>2. \A full, e : full = whole \o e /\ Extends(whole, full) =>
        \A k \in Kinds : Parser(full)[<<k, p>>] = Read(full, Parser(full), <<k, p>>)
  <2> SUFFICES ASSUME NEW full, NEW e, full = whole \o e, Extends(whole, full), NEW k \in Kinds
               PROVE  Parser(full)[<<k, p>>] = Read(full, Parser(full), <<k, p>>)
    OBVIOUS
  <2>1. full \in Texts /\ p \in Positions(full)
    BY ExtendsAt DEF Extends
  <2> QED  BY <2>1, ParserIs
<1>3. Parser(whole)[<<kind, p>>] = Read(whole, Parser(whole), <<kind, p>>)
  BY ParserIs
<1>4. ASSUME NEW e, Ending(1, n + 1, e)
      PROVE  Ending(1, Cardinality(Opened(whole, p)) + 1, e)
  <2> DEFINE m == n + 1
             k == Cardinality(Opened(whole, p)) + 1
  <2>1. m \in Nat /\ k \in Nat /\ m <= k /\ Ending(1, m, e) /\ 1 <= 1
    BY <1>1, <1>4
  <2> HIDE DEF m, k
  <2>2. Ending(1, k, e)
    BY <2>1, EndingWeaker
  <2> QED  BY <2>2 DEF k
<1>a. CASE kind = "value"
  BY <1>a, ValueCompletes
<1>b. CASE kind = "members"
  <2>1. Object(whole, Parser(whole), p, Comma).exc = CutShort
    BY <1>b, <1>3, ReadIs
  <2>2. PICK e : /\ Ending(1, n + 1, e) /\ Extends(whole, whole \o e)
                 /\ Ends(whole \o e, Object(whole \o e, Parser(whole \o e), p, Comma))
    BY <1>0, <1>1, <2>1, ObjectCompletes
  <2>3. Parser(whole \o e)[<<kind, p>>] = Object(whole \o e, Parser(whole \o e), p, Comma)
    BY <1>b, <1>2, <2>2, ReadIs
  <2>4. Completes(whole \o e, kind, p)
    BY <1>b, <2>2, <2>3 DEF Completes, Ends
  <2>5. Ending(1, Bound(whole, kind, p), e)
    BY <1>b, <1>4, <2>2 DEF Bound
  <2> QED  BY <1>b, <2>4, <2>5 DEF Completable
<1>c. CASE kind = "elements"
  <2>1. Array(whole, Parser(whole), p, Comma).exc = CutShort
    BY <1>c, <1>3, ReadIs
  <2>2. PICK e : /\ Ending(1, n + 1, e) /\ Extends(whole, whole \o e)
                 /\ Ends(whole \o e, Array(whole \o e, Parser(whole \o e), p, Comma))
    BY <1>0, <1>1, <2>1, ArrayCompletes
  <2>3. Parser(whole \o e)[<<kind, p>>] = Array(whole \o e, Parser(whole \o e), p, Comma)
    BY <1>c, <1>2, <2>2, ReadIs
  <2>4. Completes(whole \o e, kind, p)
    BY <1>c, <2>2, <2>3 DEF Completes, Ends
  <2>5. Ending(1, Bound(whole, kind, p), e)
    BY <1>c, <1>4, <2>2 DEF Bound
  <2> QED  BY <1>c, <2>4, <2>5 DEF Completable
<1>d. CASE kind = "characters"
  <2>1. \A q \in p + 1 .. Len(whole) + 1 : Parser(whole)[<<"characters", q>>].exc # CutShort
    BY DEF CompletableAhead, Kinds
  <2> QED  BY <1>d, <2>1, CharactersReport
<1> QED  BY <1>a, <1>b, <1>c, <1>d DEF Kinds

LEMMA AllCompletes ==
  ASSUME StartupAssumption, NEW whole \in Texts
  PROVE  Node(whole).exc = CutShort =>
           \E e : Ending(1, Cardinality(Opened(whole, 1)), e) /\ Completes(whole \o e, "value", 1)
<1> DEFINE last == Len(whole) + 1
           F == Parser(whole)
           Good == {p \in 1 .. last : \A kind \in Kinds : F[<<kind, p>>].exc = CutShort =>
                      kind # "characters" /\ Completable(whole, kind, p)}
<1>0. Len(whole) \in Nat /\ last \in Nat /\ Positions(whole) = 1 .. last /\ 1 \in 1 .. last /\ "value" \in Kinds
  BY PositionsOf DEF Kinds
<1>1. ASSUME NEW p \in 1 .. last, \A q \in p + 1 .. last : q \in Good
      PROVE  p \in Good
  <2>1. CompletableAhead(whole, p)
    BY <1>1 DEF CompletableAhead
  <2>2. p \in Positions(whole)
    BY <1>0
  <2> QED  BY <2>1, <2>2, WorkCompletes
<1>2. \A p \in 1 .. last : p \in Good
  <2> HIDE DEF last, Good
  <2> QED  BY <1>0, <1>1, FromTheEnd
<1> QED  BY <1>0, <1>2 DEF Node, Completable, Bound

------------------------------------------------------------------------------
(* The configuration file *)

\* Whatever is typed, the file holds a text.
HoldsText ==
  text \in Texts

LEMMA TextStays ==
  ASSUME StartupAssumption, HoldsText, Search \/ Launch
  PROVE  HoldsText'
<1>0. \A d \in Texts : d \in Seq(STRING \ {End})
  BY DEF Texts
<1>1. CASE \E c \in Typable : Type(c)
  <2>1. PICK c \in Typable : Type(c)
    BY <1>1
  <2>2. c \in STRING \ {End}
    BY DEF Typable, StartupAssumption
  <2> QED  BY <2>1, <2>2 DEF Type, HoldsText, Texts
<1>2. CASE LoadFile
  <2>1. text' \in LaterFiles \cup {<< >>}
    BY <1>2 DEF LoadFile
  <2>2. << >> \in Texts
    BY DEF Texts
  <2> QED  BY <2>1, <2>2 DEF HoldsText, StartupAssumption
<1>3. CASE GiveUp
  BY <1>3 DEF GiveUp, HoldsText
<1>4. CASE Launch
  BY <1>4 DEF Launch, HoldsText
<1> QED  BY <1>1, <1>2, <1>3, <1>4 DEF Search

LEMMA TextAtFirst ==
  ASSUME StartupAssumption, StartupInit
  PROVE  HoldsText
<1>1. CASE text = << >>
  <2>1. << >> \in Texts
    BY DEF Texts
  <2> QED  BY <1>1, <2>1 DEF HoldsText
<1>2. CASE \E d \in Documents : \E n \in 1 .. Len(d) : text = SubSeq(d, 1, n)
  <2>1. PICK d \in Documents : \E n \in 1 .. Len(d) : text = SubSeq(d, 1, n)
    BY <1>2
  <2>3. PICK n \in 1 .. Len(d) : text = SubSeq(d, 1, n)
    BY <2>1
  <2>2. d \in Seq(STRING \ {End})
    BY DEF StartupAssumption, Texts
  <2> QED  BY <2>3, <2>2 DEF HoldsText, Texts
<1> QED  BY <1>1, <1>2 DEF StartupInit

LEMMA CutIsRefusedOfText ==
  HoldsText => CutIsRefused
BY BeginningStays DEF HoldsText, CutIsRefused

LEMMA ReportedMeansCutOfText ==
  ASSUME StartupAssumption
  PROVE  HoldsText => ReportedMeansCut
<1> SUFFICES ASSUME HoldsText  PROVE ReportedMeansCut
  OBVIOUS
<1> DEFINE opened == Cardinality({i \in DOMAIN text : text[i] \in {"{", "["}})
           endings == {value \o closing :
                         value \in {<< >>, <<"d">>},
                         closing \in UNION {[1 .. n -> Brackets] : n \in 1 .. opened}}
           finishes(e) == Node(text \o e).exc = "none" /\ Node(text \o e).at > Len(text \o e)
<1>0. text \in Texts /\ Len(text) \in Nat /\ DOMAIN text = 1 .. Len(text)
  BY DEF HoldsText, Texts
<1>1. opened = Cardinality(Opened(text, 1))
  BY <1>0 DEF Opened, Opening
<1>2. opened \in Nat
  <2> HIDE DEF opened
  <2> QED  BY <1>0, <1>1, OpenedIs
<1>3. ASSUME NEW e, Ending(1, opened, e)
      PROVE  e \in endings
  <2> HIDE DEF opened
  <2>1. PICK w \in {<< >>, <<"d">>}, b \in Lines(1, opened) : e = w \o b
    BY <1>3 DEF Ending
  <2>2. b \in [1 .. Len(b) -> Brackets] /\ Len(b) \in 1 .. opened
    BY DEF Lines
  <2>3. b \in UNION {[1 .. n -> Brackets] : n \in 1 .. opened}
    BY <2>2
  <2>4. \A S, T : \A u \in S, v \in T : u \o v \in {value \o closing : value \in S, closing \in T}
    OBVIOUS
  <2>5. w \o b \in endings
    <3> DEFINE S == {<< >>, <<"d">>}
               T == UNION {[1 .. n -> Brackets] : n \in 1 .. opened}
    <3>1. w \in S /\ b \in T
      BY <2>3
    <3> HIDE DEF S, T
    <3>2. w \o b \in {value \o closing : value \in S, closing \in T}
      BY <2>4, <3>1
    <3> QED  BY <3>2 DEF S, T
  <2> HIDE DEF endings
  <2> QED  BY <2>1, <2>5
<1>4. Node(text).exc = CutShort => \E e \in endings : finishes(e)
  <2> HIDE DEF endings, opened
  <2> SUFFICES ASSUME Node(text).exc = CutShort
               PROVE  \E e \in endings : finishes(e)
    OBVIOUS
  <2>1. PICK e : Ending(1, Cardinality(Opened(text, 1)), e) /\ Completes(text \o e, "value", 1)
    BY <1>0, AllCompletes
  <2>4. e \in endings
    BY <1>1, <1>3, <2>1
  <2>2. text \o e \in Texts /\ Len(text \o e) \in Nat
    <3> DEFINE n == Cardinality(Opened(text, 1))
    <3>1. n \in Nat /\ Ending(1, n, e) /\ 1 \in Nat
      BY <1>1, <1>2, <2>1
    <3> HIDE DEF n
    <3>2. text \o e \in Texts
      BY <1>0, <3>1, EndingIs
    <3> QED  BY <3>2, PositionsOf
  <2>3. finishes(e)
    BY <2>1, <2>2 DEF Completes, Node
  <2> QED  BY <2>3, <2>4
<1>5. ReportedMeansCut <=> (Node(text).exc = CutShort => \E e \in endings : finishes(e))
  BY DEF ReportedMeansCut, CutShort
<1> HIDE DEF endings
<1> QED  BY <1>4, <1>5

------------------------------------------------------------------------------
(* The items *)

LEMMA SeqJoined ==
  ASSUME NEW a, NEW b, IsSeq(a), IsSeq(b)
  PROVE  IsSeq(a \o b)
<1>1. PICK S : a \in Seq(S)
  BY DEF IsSeq
<1>2. PICK T : b \in Seq(T)
  BY DEF IsSeq
<1>3. a \in Seq(S \cup T) /\ b \in Seq(S \cup T)
  BY <1>1, <1>2
<1>4. a \o b \in Seq(S \cup T)
  BY <1>3
<1> QED  BY <1>4 DEF IsSeq

LEMMA EntriesListed ==
  ASSUME WellMade(config)
  PROVE  Len(JsonItems) \in Nat
<1>1. ASSUME NEW s  PROVE IsSeq(Entries(s))
  <2>1. Listed(Section(s))
    <3>1. Listed(NullValue)
      BY DEF Listed, NullValue
    <3> QED  BY <3>1 DEF Section, object_at, WellMade
  <2> QED  BY <2>1, NoneIsSeq DEF Entries, Listed, IsArray
<1>2. IsSeq(JsonItems)
  BY <1>1, SeqJoined DEF JsonItems
<1>3. PICK S : JsonItems \in Seq(S)
  BY <1>2 DEF IsSeq
<1> QED  BY <1>3

\* The items one after the other, as far as they are made.
MadeStep(f, n) ==
  IF n = 0 THEN << >>
  ELSE IF IsKnown(JsonItems[n]) THEN Append(f[n - 1], ClassOf(JsonItems[n]))
  ELSE f[n - 1]

LEMMA MadeExists ==
  ASSUME NEW last \in Nat
  PROVE  \E f : f = [n \in 0 .. last |-> MadeStep(f, n)]
<1> DEFINE Good == {n \in 0 .. last : \E f : \A i \in 0 .. n : f[i] = MadeStep(f, i)}
<1>1. 0 \in Good
  <2> DEFINE f == [i \in 0 .. 0 |-> << >>]
  <2>1. \A i \in 0 .. 0 : f[i] = MadeStep(f, i)
    BY DEF MadeStep
  <2> QED  BY <2>1
<1>2. ASSUME NEW n \in 0 .. last - 1, n \in Good
      PROVE  n + 1 \in Good
  <2>1. PICK f : \A i \in 0 .. n : f[i] = MadeStep(f, i)
    BY <1>2
  <2> DEFINE g == [i \in 0 .. n + 1 |-> IF i = n + 1 THEN MadeStep(f, i) ELSE f[i]]
  <2>2. \A i \in 0 .. n : g[i] = f[i]
    OBVIOUS
  <2>3. \A i \in 0 .. n + 1 : MadeStep(g, i) = MadeStep(f, i)
    <3> SUFFICES ASSUME NEW i \in 0 .. n + 1  PROVE MadeStep(g, i) = MadeStep(f, i)
      OBVIOUS
    <3>1. i # 0 => i - 1 \in 0 .. n
      OBVIOUS
    <3>2. i # 0 => g[i - 1] = f[i - 1]
      BY <3>1, <2>2
    <3> HIDE DEF g
    <3> QED  BY <3>2 DEF MadeStep
  <2>4. \A i \in 0 .. n + 1 : g[i] = MadeStep(f, i)
    <3> SUFFICES ASSUME NEW i \in 0 .. n + 1  PROVE g[i] = MadeStep(f, i)
      OBVIOUS
    <3>1. CASE i = n + 1
      BY <3>1
    <3>2. CASE i # n + 1
      <4>1. i \in 0 .. n
        BY <3>2
      <4> QED  BY <4>1, <2>1, <2>2
    <3> QED  BY <3>1, <3>2
  <2> HIDE DEF g
  <2>5. \A i \in 0 .. n + 1 : g[i] = MadeStep(g, i)
    BY <2>3, <2>4
  <2> QED  BY <2>5
<1>3. last \in Good
  <2> HIDE DEF Good
  <2>1. \A n \in 0 .. last : n \in Good
    BY <1>1, <1>2, FromTheStart
  <2> QED  BY <2>1
<1>4. PICK f : \A i \in 0 .. last : f[i] = MadeStep(f, i)
  BY <1>3
<1> DEFINE h == [n \in 0 .. last |-> f[n]]
<1>5. \A n \in 0 .. last : MadeStep(h, n) = MadeStep(f, n)
  <2> SUFFICES ASSUME NEW n \in 0 .. last  PROVE MadeStep(h, n) = MadeStep(f, n)
    OBVIOUS
  <2>1. n # 0 => h[n - 1] = f[n - 1]
    OBVIOUS
  <2> HIDE DEF h
  <2> QED  BY <2>1 DEF MadeStep
<1>6. h = [n \in 0 .. last |-> h[n]] /\ \A n \in 0 .. last : h[n] = f[n]
  OBVIOUS
<1> HIDE DEF h
<1>7. h = [n \in 0 .. last |-> MadeStep(h, n)]
  BY <1>4, <1>5, <1>6
<1> QED  BY <1>7

\* apply_config makes a sequence of known items, whatever the configuration holds.
LEMMA ItemsAre ==
  ASSUME WellMade(config)
  PROVE  Items \in Seq(LineItems)
<1> DEFINE last == Len(JsonItems)
           made == CHOOSE f : f = [n \in 0 .. last |-> MadeStep(f, n)]
           Good == {n \in 0 .. last : made[n] \in Seq(ItemClasses)}
<1>0. last \in Nat
  BY EntriesListed
<1>1. Items = made[last]
  BY DEF Items, MadeStep
<1>2. made = [n \in 0 .. last |-> MadeStep(made, n)]
  <2> HIDE DEF last
  <2> QED  BY <1>0, MadeExists
<1>3. \A n \in 0 .. last : made[n] = MadeStep(made, n)
  <2> HIDE DEF made, last
  <2> QED  BY <1>2
<1>4. 0 \in Good
  <2> HIDE DEF made, last
  <2>1. 0 \in 0 .. last /\ made[0] = << >>
    BY <1>0, <1>3 DEF MadeStep
  <2>2. << >> \in Seq(ItemClasses)
    OBVIOUS
  <2> QED  BY <2>1, <2>2
<1>5. ASSUME NEW n \in 0 .. last - 1, n \in Good
      PROVE  n + 1 \in Good
  <2> HIDE DEF made, last
  <2>1. n + 1 \in 0 .. last /\ n + 1 # 0 /\ n + 1 - 1 = n
    BY <1>0
  <2>2. made[n + 1] = IF IsKnown(JsonItems[n + 1]) THEN Append(made[n], ClassOf(JsonItems[n + 1]))
                      ELSE made[n]
    BY <1>3, <2>1 DEF MadeStep
  <2>3. IsKnown(JsonItems[n + 1]) => ClassOf(JsonItems[n + 1]) \in ItemClasses
    BY DEF IsKnown, ClassOf
  <2>4. made[n] \in Seq(ItemClasses)
    BY <1>5
  <2>5. made[n + 1] \in Seq(ItemClasses)
    BY <2>2, <2>3, <2>4
  <2> QED  BY <2>1, <2>5
<1>6. last \in Good
  <2> HIDE DEF Good, last
  <2>1. \A n \in 0 .. last : n \in Good
    BY <1>0, <1>4, <1>5, FromTheStart
  <2> QED  BY <1>0, <2>1
<1>7. ItemClasses = LineItems
  BY DEF ItemClasses, LineItems
<1> QED  BY <1>1, <1>6, <1>7

------------------------------------------------------------------------------
(* The program *)

\* The configuration file holds a text, and config_json something the parser made.
Configured == HoldsText /\ WellMade(config)

LEMMA NothingConfigured == WellMade(NullValue)
BY DEF WellMade, NullValue, Listed

LEMMA ConfiguredAtFirst ==
  ASSUME StartupAssumption, StartupInit
  PROVE  Configured
BY TextAtFirst, NothingConfigured DEF StartupInit, Configured

LEMMA StaysConfigured ==
  ASSUME StartupAssumption, Configured, Search \/ Launch
  PROVE  Configured'
<1>1. HoldsText'
  BY TextStays DEF Configured
<1>2. WellMade(config) /\ text \in Texts
  BY DEF Configured, HoldsText
<1>3. \/ config' = config \/ config' = NullValue
      \/ Node(text).exc = "none" /\ config' = Node(text).value
  <2>1. CASE \E c \in Typable : Type(c)
    BY <2>1 DEF Type
  <2>2. CASE LoadFile
    BY <2>2 DEF LoadFile
  <2>3. CASE GiveUp
    BY <2>3 DEF GiveUp
  <2>4. CASE Launch
    BY <2>4 DEF Launch
  <2> QED  BY <2>1, <2>2, <2>3, <2>4 DEF Search
<1>4. WellMade(config')
  BY <1>2, <1>3, NodeMade, NothingConfigured
<1> QED  BY <1>1, <1>4 DEF Configured, WellMade, Listed

LEMMA ProgramStep ==
  Configured /\ [ProgramNext]_<<startupVars, vars>> => Configured'
<1> SUFFICES ASSUME Configured, [ProgramNext]_<<startupVars, vars>>  PROVE Configured'
  OBVIOUS
<1>1. CASE Search \/ Launch
  BY <1>1, StaysConfigured, StartupAssumption
<1>2. CASE UNCHANGED startupVars
  BY <1>2 DEF startupVars, Configured, HoldsText, WellMade, Listed
<1> QED  BY <1>1, <1>2 DEF ProgramNext, StartRunning, StartFails

\* Whatever main finds, and whenever it reads it: the file it looks at holds a text, and
\* config_json is a value whose lists are sequences, so that apply_config can go through
\* it.
THEOREM ProgramIsConfigured == Program => []Configured
<1>1. ProgramInit => Configured
  BY ConfiguredAtFirst, StartupAssumption DEF ProgramInit
<1> QED  BY <1>1, ProgramStep, PTL DEF Program

\* Whatever a configuration file holds, main takes it for what the grammar says it is:
\* the texts that begin with a value are accepted, for that value; blank ones for none;
\* no others.
THEOREM FileReadAsDenoted == Program => []ReadsTheGrammar
<1>1. Configured => ReadsTheGrammar
  BY NodeReadAsDenoted DEF Configured, HoldsText, ReadsTheGrammar
<1> QED  BY <1>1, ProgramIsConfigured, PTL

\* A configuration that is read while it is being written is never taken for another
\* one: StringPointer and the parsers stop at the terminating zero, and what they accept
\* before it is what the whole file says, unless it is a number or blank.
THEOREM CutFileIsRefused == Program => []CutIsRefused
<1>1. Configured => CutIsRefused
  BY CutIsRefusedOfText DEF Configured
<1> QED  BY <1>1, ProgramIsConfigured, PTL

\* A configuration that main reports and passes over, because the parser threw a char
\* const*, is one that stops too early: a value or none, and closing brackets, no more
\* than were opened, would complete it.
THEOREM ReportedFileIsCut == Program => []ReportedMeansCut
<1>1. Configured => ReportedMeansCut
  BY ReportedMeansCutOfText, StartupAssumption DEF Configured
<1> QED  BY <1>1, ProgramIsConfigured, PTL

\* Any items may be configured, in any order and as often as anybody likes.
EveryLayout == Layouts = Seq(LineItems)

\* What apply_config makes is one of these layouts, and no later step makes another.
LEMMA ProgramStepIsLine ==
  EveryLayout /\ Configured /\ [ProgramNext]_<<startupVars, vars>> => [Next]_vars
<1> SUFFICES ASSUME EveryLayout, Configured, [ProgramNext]_<<startupVars, vars>>  PROVE [Next]_vars
  OBVIOUS
<1>1. CASE StartRunning
  <2>1. created' = Items
    <3>1. fate' = "running"
      BY <1>1 DEF StartRunning
    <3> QED  BY <1>1, <3>1, Zenon DEF StartRunning, Launch
  <2>2. Items \in Layouts
    BY ItemsAre DEF Configured, EveryLayout
  <2>3. Construct(created')
    BY <1>1 DEF StartRunning
  <2> QED  BY <2>1, <2>2, <2>3 DEF Next
<1>2. CASE Round
  BY <1>2 DEF Next
<1>3. CASE UNCHANGED vars
  BY <1>3
<1> QED  BY <1>1, <1>2, <1>3 DEF ProgramNext, StartFails

\* The program from its configuration on is the loop over the items of some layout: what
\* apply_config makes is a sequence of items, it is made once, and reading the
\* configuration touches neither items nor line.
THEOREM ProgramDrivesLine == EveryLayout => (Program => Spec)
<1> SUFFICES ASSUME EveryLayout  PROVE Program => Spec
  OBVIOUS
<1>1. ProgramInit => Init
  BY DEF ProgramInit
<1>2. Configured /\ [ProgramNext]_<<startupVars, vars>> => [Next]_vars
  BY ProgramStepIsLine
<1> QED  BY <1>1, <1>2, ProgramIsConfigured, PTL DEF Program, Spec

\* So what is true of the line of any layout is true of the line of any configuration:
\* colours, arrows, what is shown, and what may end the process in print.
THEOREM ProgramsLine ==
  EveryLayout =>
    (Program => [](TypeOK /\ ColoursTracked /\ ArrowsJoin /\ ShownIsHeld
                   /\ NeverDividesByLeftovers /\ CountdownIsRight))
BY ProgramDrivesLine, LineTyped, ColoursAreTracked, ArrowsAreJoined, NothingStaysUnshown,
   LeftoversAreNeverDividedBy, CountdownIsAlwaysRight, PTL
===============================================================================
