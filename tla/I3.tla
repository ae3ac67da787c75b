--------------------------------- MODULE I3 ---------------------------------
(***************************************************************************)
(* The I3 state item beside a running i3: it reads the whole layout with   *)
(* two queries (I3::query_tree), follows it with events in between         *)
(* (I3::handle_message) and prints the workspaces of the first output.     *)
(* The loop around it is EventLoop's, seen from this item alone.           *)
(***************************************************************************)
EXTENDS WindowManager, I3Tree, SequencesExt

VARIABLES
  pc,    \* "start" until the first forced update, then drain, update, outputs
         \* (between the two queries), print, and drain again
  tree,
  torn   \* history: the last update crossed changes, some unread before its
         \* first query (their events are replayed over the newer tree), or
         \* some made between its two queries

vars == <<desktop, events, pc, tree, torn>>

ASSUME PointerAssumption ==
  /\ Null # Dangling
  /\ {Null, Dangling} \cap Workspaces = {} /\ {Null, Dangling} \cap Windows = {}

Alive == Fine(tree)

------------------------------------------------------------------------------
(* I3::query_tree *)

\* What GET_TREE shows of i3, parsed into an empty tree.  An output starts on
\* the workspace display_add finds focused globally so far, which is one of an
\* output further to the left.
Parsed ==
  [fate       |-> "fine",
   outputs    |-> [o \in Outputs |-> IF home[focus] < o THEN focus ELSE Null],
   workspaces |-> [n \in {m \in Workspaces : Exists(m)} |->
                     [output             |-> home[n],
                      urgent             |-> FALSE,
                      focused_window     |-> IF top[n] = None THEN Null ELSE top[n],
                      last_urgent_window |-> Null]],
   windows    |-> [w \in {v \in Windows : place[v] # None} |-> place[w]],
   focused    |-> focus]

\* Mutant: the old tree is not reset, and try_emplace keeps what is there.
QueryTree_WithoutReset ==
  /\ Alive /\ pc \in {"start", "update"}
  /\ tree' = [Parsed EXCEPT !.workspaces = tree.workspaces @@ @,
                            !.windows = tree.windows @@ @]
  /\ torn' = (events # <<>>)
  /\ pc' = "outputs"
  /\ UNCHANGED <<desktop, events>>

QueryTree ==
  /\ Alive /\ pc \in {"start", "update"}
  /\ tree' = Parsed
  /\ torn' = (events # <<>>)
  /\ pc' = "outputs"
  /\ UNCHANGED <<desktop, events>>

\* GET_OUTPUTS: the workspace every output shows is made visible in the tree.
QueryOutputs ==
  /\ Alive /\ pc = "outputs"
  /\ tree' = FoldLeft(WorkspaceVisible, tree, shown)
  /\ pc' = "print"
  /\ UNCHANGED <<desktop, events, torn>>

\* The cooldown has not passed: StateItem::update leaves the item alone.
SkipUpdate ==
  /\ Alive /\ pc = "update"
  /\ pc' = "print"
  /\ UNCHANGED <<desktop, events, tree, torn>>

------------------------------------------------------------------------------
(* I3::handle_message *)

\* Mutant: a focused workspace is not shown on its output.
WorkspaceHandled_OnlyFocuses(t, e) ==
  CASE e.change = "init"   -> WorkspaceInit(t, e.id, e.output)
    [] e.change = "focus"  -> WorkspaceFocus(t, e.id)
    [] e.change = "urgent" -> WorkspaceUrgent(t, e.id, e.urgent)
    [] e.change = "move"   -> WorkspaceMove(t, e.id, e.output)
    [] e.change = "empty"  -> WorkspaceEmpty(t, e.id)

\* Mutant: workspaces are only created by queries.
WorkspaceHandled_IgnoresInit(t, e) ==
  CASE e.change = "init"   -> t
    [] e.change = "focus"  -> WorkspaceFocus(WorkspaceVisible(t, e.id), e.id)
    [] e.change = "urgent" -> WorkspaceUrgent(t, e.id, e.urgent)
    [] e.change = "move"   -> WorkspaceMove(t, e.id, e.output)
    [] e.change = "empty"  -> WorkspaceEmpty(t, e.id)

WorkspaceHandled(t, e) ==
  CASE e.change = "init"   -> WorkspaceInit(t, e.id, e.output)
    [] e.change = "focus"  -> WorkspaceFocus(WorkspaceVisible(t, e.id), e.id)
    [] e.change = "urgent" -> WorkspaceUrgent(t, e.id, e.urgent)
    [] e.change = "move"   -> WorkspaceMove(t, e.id, e.output)
    [] e.change = "empty"  -> WorkspaceEmpty(t, e.id)

\* A window no event has mentioned before is opened first, whatever the event.
WindowHandled(t, e) ==
  LET opened == IF e.id \in DOMAIN t.windows THEN t ELSE WindowOpen(t, e.id, e.output)
  IN IF Fine(opened)
     THEN CASE e.change = "new"      -> opened
            [] e.change = "focus"    -> WindowVisible(opened, e.id)
            [] e.change = "urgent"   -> WindowUrgent(opened, e.id, e.urgent)
            [] e.change = "move"     -> WindowMove(opened, e.id, e.output)
            [] e.change = "close"    -> WindowClose(opened, e.id)
     ELSE opened

HandleMessage ==
  /\ Alive /\ pc = "drain" /\ events # <<>>
  /\ LET e == Head(events) IN
       tree' = IF e.about = "workspace" THEN WorkspaceHandled(tree, e)
                                        ELSE WindowHandled(tree, e)
  /\ events' = Tail(events)
  /\ UNCHANGED <<desktop, pc, torn>>

\* has_input says no, or select timed out.
Drained ==
  /\ Alive /\ pc = "drain" /\ events = <<>>
  /\ pc' = "update"
  /\ UNCHANGED <<desktop, events, tree, torn>>

------------------------------------------------------------------------------
(* I3::print_raw, for display 0 *)

\* The urgent section is printed beside that of another focused window.
NamesUrgent(ws) == ws.urgent /\ ws.focused_window # ws.last_urgent_window

PrintRaw ==
  /\ Alive /\ pc = "print"
  /\ LET printed == {tree.workspaces[n] : n \in
                       {m \in DOMAIN tree.workspaces : tree.workspaces[m].output = 1}}
         followed == {ws.focused_window : ws \in
                        {v \in printed : v.focused_window # Null}}
                     \cup {ws.last_urgent_window : ws \in
                             {v \in printed : NamesUrgent(v)}}
     IN tree' = IF \E ptr \in followed : IsWild(ptr)
                THEN [tree EXCEPT !.fate = "wild"] ELSE tree
  /\ pc' = "drain"
  /\ UNCHANGED <<desktop, events, torn>>

------------------------------------------------------------------------------

\* What the constructor read is gone with the first, forced, update; by then i3
\* has been sent the subscription.
Init == WMInit /\ pc = "start" /\ tree = Reset /\ torn = FALSE

Step == QueryTree \/ QueryOutputs \/ SkipUpdate \/ HandleMessage \/ Drained \/ PrintRaw

Change ==
  /\ Alive /\ WMNext
  /\ torn' = (torn \/ pc = "outputs")
  /\ UNCHANGED <<pc, tree>>

Next == Step \/ Change

Spec == Init /\ [][Next]_vars

\* The process runs, and I3's cooldown passes again and again.
FairSpec == Spec /\ WF_vars(Step) /\ SF_vars(QueryTree)
------------------------------------------------------------------------------
(* Properties *)

Partial(keys, values) == UNION {[part -> values] : part \in SUBSET keys}

ToWorkspace == Workspaces \cup {Null, Dangling}
ToWindow    == Windows \cup {Null, Dangling}

Trees ==
  [fate       : {"fine", "thrown", "wild"},
   outputs    : Partial(Outputs, ToWorkspace),
   workspaces : Partial(Workspaces, [output : Outputs, urgent : BOOLEAN,
                                     focused_window : ToWindow,
                                     last_urgent_window : ToWindow]),
   windows    : Partial(Windows, ToWorkspace),
   focused    : ToWorkspace]

\* A pointer that is not wild points to a struct that is in its map.
PointsInto(ptr, map) == IsWild(ptr) \/ ptr \in DOMAIN map

WellFormed(t) ==
  /\ t \in Trees
  /\ PointsInto(t.focused, t.workspaces)
  /\ \A o \in DOMAIN t.outputs : PointsInto(t.outputs[o], t.workspaces)
  /\ \A w \in DOMAIN t.windows : PointsInto(t.windows[w], t.workspaces)
  /\ \A n \in DOMAIN t.workspaces :
       /\ t.workspaces[n].output \in DOMAIN t.outputs
       /\ PointsInto(t.workspaces[n].focused_window, t.windows)
       /\ PointsInto(t.workspaces[n].last_urgent_window, t.windows)

\* Every variable has its type, and every pointer that is not Null or Dangling
\* points to a struct that is in its map.
TypeOK ==
  /\ pc \in {"start", "drain", "update", "outputs", "print"}
  /\ home \in [Workspaces -> Outputs \cup {None}]
  /\ shown \in [Outputs -> Workspaces]
  /\ focus \in Workspaces
  /\ place \in [Windows -> Workspaces \cup {None}]
  /\ top \in [Workspaces -> Windows \cup {None}]
  /\ urgent \subseteq Windows
  /\ events \in Seq(Messages) /\ Len(events) <= MaxEvents
  /\ torn \in BOOLEAN
  /\ WellFormed(tree)

\* The tree has i3's workspaces, windows, and focus, on the same outputs.
SameLayout ==
  /\ DOMAIN tree.workspaces = {n \in Workspaces : Exists(n)}
  /\ \A n \in DOMAIN tree.workspaces : tree.workspaces[n].output = home[n]
  /\ tree.outputs = shown
  /\ tree.focused = focus
  /\ tree.windows = [w \in {v \in Windows : place[v] # None} |-> place[w]]

SameTitles ==
  \A n \in DOMAIN tree.workspaces :
    tree.workspaces[n].focused_window = IF top[n] = None THEN Null ELSE top[n]

\* From one update to the next the events alone keep the mirror right: after an
\* update that crossed no change, the tree is i3's layout whenever all events are
\* handled, however many there were (workspace_event and window_event against
\* query_tree).
InStepWhenDrained ==
  Alive /\ events = <<>> /\ pc \notin {"start", "outputs"} /\ ~torn => SameLayout

\* After such an update no pointer of the tree outlives what it points to, in the
\* middle of a burst of events too (the erases of workspace_empty, window_close).
PointersLive ==
  Alive /\ ~torn =>
    /\ tree.focused # Dangling
    /\ \A o \in DOMAIN tree.outputs : tree.outputs[o] # Dangling
    /\ \A w \in DOMAIN tree.windows : tree.windows[w] # Dangling
    /\ \A n \in DOMAIN tree.workspaces :
         /\ tree.workspaces[n].focused_window # Dangling
         /\ tree.workspaces[n].last_urgent_window # Dangling

\* ... and no event ends the process: every key handle_message looks up is there,
\* and every pointer it follows leads somewhere.
FreshEventsApply == [][HandleMessage /\ ~torn => Alive']_vars

\* Whatever the events before it did to the mirror, an update that crossed no change
\* leaves i3's layout in it, titles included, and nothing of the tree that was there
\* before (the reset of query_tree and its two queries).
UpdateRepairs == [][QueryOutputs /\ ~torn => (SameLayout /\ SameTitles)']_vars

\* When the bar is printed, the displays print_raw counts along the indices are the
\* monitors from left to right, whatever the list query_tree read them from.
OutputsLeftToRight == pc = "print" => LeftToRight

\* Whatever the events did to the mirror, once i3 is left alone every update
\* repairs it, titles included, unless an event ended the process.
HealsWhenQuiet ==
  <>[][UNCHANGED desktop]_vars =>
    <>[](~Alive \/ (pc = "print" => SameLayout /\ SameTitles))

\* StateItem.hpp:37 and 53, a notice is displayed if update failed, and update
\* reports so: it never ends the program.
UpdateFailureIsReported == pc \in {"update", "outputs", "print"} => Alive
==============================================================================
