------------------------------- MODULE I3Tree -------------------------------
(***************************************************************************)
(* I3Tree: the mirror the I3 item keeps of i3's outputs, workspaces and    *)
(* windows, as operators from a tree to the tree an operation leaves.      *)
(*                                                                         *)
(* The maps own the structs and the structs point at each other, so an     *)
(* erased struct leaves Dangling pointers behind.  `fate` says how the     *)
(* operations went: "thrown" once a map's `.at` missed its key (nothing    *)
(* catches it), "wild" once a null or dangling pointer was followed, after *)
(* which nothing more is claimed of the program.                           *)
(***************************************************************************)
EXTENDS Outputs, Functions

CONSTANTS Null, Dangling   \* pointers to nothing, and to an erased struct

IsWild(ptr) == ptr \in {Null, Dangling}

Fine(t) == t.fate = "fine"

\* `map.at(key)`, on which `after` depends.
At(t, key, map, after) ==
  IF key \in DOMAIN map THEN after ELSE [t EXCEPT !.fate = "thrown"]

\* `*ptr`, on which `after` depends.
Follow(t, ptr, after) ==
  IF IsWild(ptr) THEN [t EXCEPT !.fate = "wild"] ELSE after

\* All pointers to x once x was erased.
Without(ptr, x) == IF ptr = x THEN Dangling ELSE ptr

\* reset: outputs map to their focused_workspace, windows to their workspace.
Reset == [fate       |-> "fine",
          outputs    |-> <<>>,
          workspaces |-> <<>>,
          windows    |-> <<>>,
          focused    |-> Null]

\* Mutant: the urgent flag is left uninitialised.
WorkspaceInit_UrgentUnset(t, n, o) ==
  At(t, o, t.outputs,
     [t EXCEPT !.workspaces = Emplace(@, n, [output             |-> o,
                                             urgent             |-> Dangling,
                                             focused_window     |-> Null,
                                             last_urgent_window |-> Null])])

\* A workspace that is already there stays as it is.
WorkspaceInit(t, n, o) ==
  At(t, o, t.outputs,
     [t EXCEPT !.workspaces = Emplace(@, n, [output             |-> o,
                                             urgent             |-> FALSE,
                                             focused_window     |-> Null,
                                             last_urgent_window |-> Null])])

\* Mutant: the workspace is shown on the output that has the focus.
WorkspaceVisible_OnFocusedOutput(t, n) ==
  At(t, n, t.workspaces,
     Follow(t, t.focused, [t EXCEPT !.outputs[t.workspaces[t.focused].output] = n]))

WorkspaceVisible(t, n) ==
  At(t, n, t.workspaces, [t EXCEPT !.outputs[t.workspaces[n].output] = n])

WorkspaceFocus(t, n) == At(t, n, t.workspaces, [t EXCEPT !.focused = n])

WorkspaceUrgent(t, n, urgent) ==
  At(t, n, t.workspaces, [t EXCEPT !.workspaces[n].urgent = urgent])

WorkspaceMove(t, n, o) ==
  At(t, n, t.workspaces, At(t, o, t.outputs, [t EXCEPT !.workspaces[n].output = o]))

\* The focused workspace of the output is looked at, for a log line, and stays.
WorkspaceEmpty(t, n) ==
  At(t, n, t.workspaces,
     Follow(t, t.outputs[t.workspaces[n].output],
            [t EXCEPT !.workspaces = Restrict(@, DOMAIN @ \ {n}),
                      !.outputs = [o \in DOMAIN @ |-> Without(@[o], n)],
                      !.windows = [w \in DOMAIN @ |-> Without(@[w], n)],
                      !.focused = Without(@, n)]))

\* Binding `*workspace` to a reference touches no memory: the window takes over
\* the pointer of its output, whatever it is worth.
WindowOpen(t, w, o) ==
  At(t, o, t.outputs, [t EXCEPT !.windows = Emplace(@, w, t.outputs[o])])

WindowVisible(t, w) ==
  At(t, w, t.windows,
     Follow(t, t.windows[w], [t EXCEPT !.workspaces[t.windows[w]].focused_window = w]))

\* The pointer to the urgent window after w became urgent or calmed down.
LastUrgent(last, w, urgent) ==
  IF urgent THEN w ELSE IF last = w THEN Null ELSE last

WindowUrgent(t, w, urgent) ==
  At(t, w, t.windows,
     Follow(t, t.windows[w],
            [t EXCEPT !.workspaces[t.windows[w]].last_urgent_window =
               LastUrgent(@, w, urgent)]))

\* Mutant: the window keeps pointing to the workspace it has left.
WindowMove_KeepsWorkspace(t, w, o) ==
  At(t, w, t.windows,
     Follow(t, t.windows[w],
            At(t, o, t.outputs,
               [t EXCEPT !.workspaces[t.windows[w]].focused_window = Null])))

\* The moved window lands on the workspace its new output shows.
WindowMove(t, w, o) ==
  At(t, w, t.windows,
     Follow(t, t.windows[w],
            At(t, o, t.outputs,
               [t EXCEPT !.workspaces[t.windows[w]].focused_window = Null,
                         !.windows[w] = t.outputs[o]])))

\* Mutant: the workspace does not forget its focused window.
WindowClose_KeepsFocused(t, w) ==
  At(t, w, t.windows,
     Follow(t, t.windows[w],
            [t EXCEPT !.windows = Restrict(@, DOMAIN @ \ {w}),
                      !.workspaces = [n \in DOMAIN @ |->
                        [t.workspaces[n] EXCEPT
                           !.focused_window = Without(@, w),
                           !.last_urgent_window = Without(@, w)]]]))

\* The workspace forgets its focused window, whichever window was closed.
WindowClose(t, w) ==
  At(t, w, t.windows,
     Follow(t, t.windows[w],
            LET owner   == t.windows[w]
                Left(n) == IF n # owner THEN t.workspaces[n]
                           ELSE [t.workspaces[n] EXCEPT
                                   !.focused_window = Null,
                                   !.last_urgent_window = LastUrgent(@, w, FALSE)]
            IN  [t EXCEPT !.windows = Restrict(@, DOMAIN @ \ {w}),
                          !.workspaces = [n \in DOMAIN @ |->
                            [Left(n) EXCEPT
                               !.focused_window = Without(@, w),
                               !.last_urgent_window = Without(@, w)]]]))
=============================================================================
