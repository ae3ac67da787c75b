--------------------------- MODULE WindowManager ---------------------------
(***************************************************************************)
(* i3 as far as statorange can tell: outputs that each show a workspace,   *)
(* windows on workspaces, and the events a subscriber is sent for every    *)
(* change, in the order they happen.  It is not part of the repository;    *)
(* what it does is taken from the events and replies src/StateItems/I3.cpp *)
(* reads.  Floating windows, titles, modes and output changes are left out.*)
(***************************************************************************)
EXTENDS Naturals, Sequences, FiniteSets

CONSTANTS
  NumOutputs,     \* outputs are numbered from left to right
  NumWorkspaces,  \* workspaces the user may use
  Windows,
  None,           \* no workspace, no output, no window
  HiddenMoves,    \* may the user send a window to a workspace that is not shown?
  Urgency,        \* may windows become urgent?
  MaxEvents       \* bound: events the subscriber has not read

Outputs    == 1 .. NumOutputs
Workspaces == 1 .. NumWorkspaces

ASSUME ManagerAssumption ==
  /\ NumOutputs \in Nat \ {0} /\ NumWorkspaces \in Nat /\ NumOutputs <= NumWorkspaces
  /\ HiddenMoves \in BOOLEAN /\ Urgency \in BOOLEAN /\ MaxEvents \in Nat
  /\ None \notin Outputs /\ None \notin Workspaces /\ None \notin Windows

VARIABLES
  home,     \* the output of each workspace, None while it does not exist
  shown,    \* the workspace each output shows
  focus,    \* the focused workspace
  place,    \* the workspace of each window, None while it does not exist
  top,      \* the window each workspace would focus
  urgent,   \* the urgent windows
  events    \* sent to the subscriber and not read yet

desktop == <<home, shown, focus, place, top, urgent>>

Exists(n)  == home[n] # None
On(n)      == {w \in Windows : place[w] = n}
Visible(n) == \E o \in Outputs : shown[o] = n

\* The windows that may get the focus of workspace n once w has left it.
Successors(n, w) == IF On(n) = {w} THEN {None} ELSE On(n) \ {w}

WorkspaceEvent(change, n, o) ==
  [about |-> "workspace", change |-> change, id |-> n, output |-> o, urgent |-> FALSE]
WindowEvent(change, w, o) ==
  [about |-> "window", change |-> change, id |-> w, output |-> o, urgent |-> FALSE]
Messages ==
  [about : {"workspace"}, change : {"init", "focus", "urgent", "move", "empty"},
   id : Workspaces, output : Outputs, urgent : BOOLEAN]
  \cup [about : {"window"}, change : {"new", "focus", "urgent", "move", "close"},
        id : Windows, output : Outputs, urgent : BOOLEAN]

Urgent(event, flag) == [event EXCEPT !.urgent = flag]

If(condition, event) == IF condition THEN <<event>> ELSE <<>>

Send(sequence) ==
  /\ events' = events \o sequence
  /\ Len(events') <= MaxEvents

\* i3 flags a workspace while any window on it is urgent.
UrgencyEvents(w, flag) ==
  If(On(place[w]) \cap (urgent \ {w}) = {},
     Urgent(WorkspaceEvent("urgent", place[w], home[place[w]]), flag))
  \o <<Urgent(WindowEvent("urgent", w, home[place[w]]), flag)>>

WMInit ==
  /\ home = [n \in Workspaces |-> IF n \in Outputs THEN n ELSE None]
  /\ shown = [o \in Outputs |-> o]
  /\ focus = 1
  /\ place = [w \in Windows |-> None]
  /\ top = [n \in Workspaces |-> None]
  /\ urgent = {}
  /\ events = <<>>

\* Workspace n is shown and focused; the one it replaces closes if it is empty.
Switch(n) ==
  LET out    == IF Exists(n) THEN home[n] ELSE home[focus]
      old    == shown[out]
      closes == old # n /\ On(old) = {}
  IN
  /\ focus # n
  /\ focus' = n
  /\ shown' = [shown EXCEPT ![out] = n]
  /\ home' = [m \in Workspaces |->
                IF m = n THEN out ELSE IF m = old /\ closes THEN None ELSE home[m]]
  /\ Send(If(~Exists(n), WorkspaceEvent("init", n, out))
          \o <<WorkspaceEvent("focus", n, out)>>
          \o If(closes, WorkspaceEvent("empty", old, out))
          \o If(top[n] # None, WindowEvent("focus", top[n], out)))
  /\ UNCHANGED <<place, top, urgent>>

Open(w) ==
  /\ place[w] = None
  /\ place' = [place EXCEPT ![w] = focus]
  /\ top' = [top EXCEPT ![focus] = w]
  /\ Send(<<WindowEvent("new", w, home[focus]), WindowEvent("focus", w, home[focus])>>)
  /\ UNCHANGED <<home, shown, focus, urgent>>

Close(w) ==
  LET n      == place[w]
      closes == ~Visible(n) /\ On(n) = {w}
  IN
  /\ n # None
  /\ \E next \in Successors(n, w) :
       /\ top' = [top EXCEPT ![n] = IF @ = w THEN next ELSE @]
       /\ Send((IF w \in urgent THEN UrgencyEvents(w, FALSE) ELSE <<>>)
               \o <<WindowEvent("close", w, home[n])>>
               \o If(closes, WorkspaceEvent("empty", n, home[n]))
               \o If(n = focus /\ top[n] = w /\ next # None,
                     WindowEvent("focus", next, home[n])))
  /\ place' = [place EXCEPT ![w] = None]
  /\ urgent' = urgent \ {w}
  /\ home' = [home EXCEPT ![n] = IF closes THEN None ELSE @]
  /\ UNCHANGED <<shown, focus>>

Focus(w) ==
  /\ place[w] = focus /\ top[focus] # w
  /\ top' = [top EXCEPT ![focus] = w]
  /\ Send(<<WindowEvent("focus", w, home[focus])>>)
  /\ UNCHANGED <<home, shown, focus, place, urgent>>

\* The focused window is sent to workspace n; the focus stays behind.
MoveWindow(w, n) ==
  LET out == IF Exists(n) THEN home[n] ELSE home[focus] IN
  /\ place[w] = focus /\ top[focus] = w /\ n # focus /\ w \notin urgent
  /\ HiddenMoves \/ Visible(n)
  /\ place' = [place EXCEPT ![w] = n]
  /\ home' = [home EXCEPT ![n] = out]
  /\ \E next \in Successors(focus, w) :
       /\ top' = [top EXCEPT ![focus] = next, ![n] = w]
       /\ Send(If(~Exists(n), WorkspaceEvent("init", n, out))
               \o <<WindowEvent("move", w, out)>>
               \o If(next # None, WindowEvent("focus", next, home[focus])))
  /\ UNCHANGED <<shown, focus, urgent>>

\* The focused workspace goes to output o; workspace m, an existing or a new one,
\* is shown in its old place, and what o showed closes if it is empty.
MoveWorkspace(m, o) ==
  LET from   == home[focus]
      old    == shown[o]
      closes == On(old) = {}
  IN
  /\ from # o
  /\ m # focus
  /\ \/ home[m] = from
     \/ ~Exists(m) /\ \A n \in Workspaces : home[n] = from => n = focus
  /\ shown' = [shown EXCEPT ![from] = m, ![o] = focus]
  /\ home' = [n \in Workspaces |->
                IF n = focus THEN o ELSE IF n = m THEN from
                ELSE IF n = old /\ closes THEN None ELSE home[n]]
  /\ Send(If(~Exists(m), WorkspaceEvent("init", m, from))
          \o <<WorkspaceEvent("focus", m, from), WorkspaceEvent("move", focus, o),
               WorkspaceEvent("focus", focus, o)>>
          \o If(closes, WorkspaceEvent("empty", old, o)))
  /\ UNCHANGED <<focus, place, top, urgent>>

\* A window out of focus wants attention, and calms down some time after it
\* was focused.
Alert(w) ==
  /\ Urgency /\ place[w] # None /\ w \notin urgent
  /\ place[w] = focus => top[focus] # w
  /\ urgent' = urgent \cup {w}
  /\ Send(UrgencyEvents(w, TRUE))
  /\ UNCHANGED <<home, shown, focus, place, top>>

Calm(w) ==
  /\ w \in urgent /\ place[w] = focus /\ top[focus] = w
  /\ urgent' = urgent \ {w}
  /\ Send(UrgencyEvents(w, FALSE))
  /\ UNCHANGED <<home, shown, focus, place, top>>

WMNext ==
  \/ \E n \in Workspaces : Switch(n)
  \/ \E w \in Windows : Open(w) \/ Close(w) \/ Focus(w) \/ Alert(w) \/ Calm(w)
  \/ \E w \in Windows, n \in Workspaces : MoveWindow(w, n)
  \/ \E m \in Workspaces, o \in Outputs : MoveWorkspace(m, o)
=============================================================================
