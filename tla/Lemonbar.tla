------------------------------- MODULE Lemonbar -------------------------------
(***************************************************************************)
(* The colours of the status line: what class Lemonbar believes the current *)
(* colours are, and what the directives it writes do to the real ones.      *)
(*                                                                         *)
(* lemonbar is another program.  It knows a background and a foreground;   *)
(* %{B} and %{F} set one of them, %{R} swaps them, and whatever is written  *)
(* is drawn in the colours of that moment.  The class never asks it: it     *)
(* keeps its own pair and relies on every separator leaving both the same.  *)
(***************************************************************************)
EXTENDS Integers

\* An opaque colour, "#FFrrggbb".  make_hex_color writes each byte with two
\* digits, so different bytes are different colours.
Byte   == 0 .. 255
Colour == Byte \X Byte \X Byte

Black == <<0, 0, 0>>
White == <<255, 255, 255>>
Grey  == <<204, 204, 204>>

\* The colours of a section.  Text in the colour of its background is not there.
Pair == {p \in [bg : Colour, fg : Colour] : p.bg # p.fg}

\* Lemonbar::color_pairs
white_on_black == [bg |-> Black,           fg |-> White]
inactive       == [bg |-> <<42, 42, 42>>,  fg |-> <<112, 112, 112>>]
semiactive     == [bg |-> <<69, 69, 69>>,  fg |-> Grey]
active         == [bg |-> <<16, 16, 208>>, fg |-> Grey]
urgent         == [bg |-> <<208, 16, 16>>, fg |-> Grey]
good           == [bg |-> <<16, 208, 16>>, fg |-> Black]
neutral        == [bg |-> <<0, 128, 0>>,   fg |-> Grey]
info           == [bg |-> <<205, 205, 0>>, fg |-> Black]
warn           == [bg |-> <<208, 16, 16>>, fg |-> Grey]
critical       == [bg |-> <<255, 0, 0>>,   fg |-> White]

\* Lemonbar::section_colors: green up to the first bound, red from the second
\* on, in between as far from one to the other as the value is.  The rounding of
\* floats is left out.
section_colors_Unclamped(value, least, most) ==   \* mutant
  IF value <= least THEN neutral
  ELSE LET byte == ((value - least) * 256) \div (most - least)
       IN  [bg |-> <<byte, 127 - byte \div 2, 0>>, fg |-> Grey]
section_colors(value, least, most) ==
  IF value <= least THEN neutral
  ELSE IF value >= most THEN warn
  ELSE LET byte == ((value - least) * 256) \div (most - least)
       IN  [bg |-> <<byte, 127 - byte \div 2, 0>>, fg |-> Grey]

------------------------------------------------------------------------------
(* The real bar, and the directives it reads *)

NoGlyph == [fg |-> White, bg |-> White]   \* no section looks like this

Fore(bar, c) == [bar EXCEPT !.fg = c]
Back(bar, c) == [bar EXCEPT !.bg = c]
Swap(bar)    == [bar EXCEPT !.fg = bar.bg, !.bg = bar.fg]
Glyph(bar)   == [bar EXCEPT !.glyph = [fg |-> bar.fg, bg |-> bar.bg]]

\* A new line starts in the colours lemonbar was started with.
NewLine(bar) == [bar EXCEPT !.fg = White, !.bg = Black, !.glyph = NoGlyph]

------------------------------------------------------------------------------
(* Lemonbar::separator *)

Separators == {"none", "left", "vertical", "right"}

\* PowerlineStyle::none has empty strings for its glyphs.
Icon(style, bar) == IF style = "none" THEN bar ELSE Glyph(bar)

\* From the section the class believes in to the next one.
Transition_KeepsSwapped(bar, current, sep, style, next) ==   \* mutant
  IF next.bg = current.bg
  THEN IF sep = "none" THEN Fore(bar, Black) ELSE Icon(style, Fore(bar, Black))
  ELSE CASE sep = "none"     -> Back(bar, next.bg)
         [] sep = "left"     -> Icon(style, Fore(bar, next.bg))
         [] sep = "vertical" -> Swap(Fore(bar, next.bg))
         [] sep = "right"    -> Icon(style, Back(Swap(bar), next.bg))
Transition_DrawsLate(bar, current, sep, style, next) ==   \* mutant
  IF next.bg = current.bg
  THEN IF sep = "none" THEN Fore(bar, Black) ELSE Icon(style, Fore(bar, Black))
  ELSE CASE sep = "none"     -> Back(bar, next.bg)
         [] sep = "left"     -> Swap(Icon(style, Fore(bar, next.bg)))
         [] sep = "vertical" -> Swap(Fore(bar, next.bg))
         [] sep = "right"    -> Icon(style, Back(bar, next.bg))
Transition(bar, current, sep, style, next) ==
  IF next.bg = current.bg
  THEN IF sep = "none" THEN Fore(bar, Black) ELSE Icon(style, Fore(bar, Black))
  ELSE CASE sep = "none"     -> Back(bar, next.bg)
         [] sep = "left"     -> Swap(Icon(style, Fore(bar, next.bg)))
         [] sep = "vertical" -> Swap(Fore(bar, next.bg))
         [] sep = "right"    -> Icon(style, Back(Swap(bar), next.bg))

separator(bar, current, sep, style, next) ==
  Fore(Transition([bar EXCEPT !.glyph = NoGlyph], current, sep, style, next), next.fg)
==============================================================================
