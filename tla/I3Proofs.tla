------------------------------ MODULE I3Proofs ------------------------------
(***************************************************************************)
(* Proofs about i3 as WindowManager has it: its desktop stays in order,    *)
(* and whoever reads its events knows the desktop in the end.  And about   *)
(* the I3 item beside a running i3.                                        *)
(***************************************************************************)
EXTENDS I3, OutputsProofs, SequenceTheorems, TLAPS

------------------------------------------------------------------------------
(* The desktop *)

\* i3 keeps its desktop in order: the focused workspace is on display, what an output
\* shows is on that output, windows are on workspaces that exist, and the window a
\* workspace would focus is on it.
Ordered ==
  /\ home \in [Workspaces -> Outputs \cup {None}]
  /\ shown \in [Outputs -> Workspaces]
  /\ focus \in Workspaces
  /\ place \in [Windows -> Workspaces \cup {None}]
  /\ top \in [Workspaces -> Windows \cup {None}]
  /\ urgent \in SUBSET Windows
  /\ events \in Seq(Messages) /\ Len(events) <= MaxEvents
  /\ home[focus] # None /\ shown[home[focus]] = focus
  /\ \A o \in Outputs : home[shown[o]] = o
  /\ \A w \in Windows : place[w] # None => home[place[w]] # None
  /\ \A n \in Workspaces : top[n] # None => place[top[n]] = n
  /\ \A w \in urgent : place[w] # None

------------------------------------------------------------------------------
(* Layouts *)

\* What a subscriber who has read some of the events knows of the desktop.
Layouts == [home   : [Workspaces -> Outputs \cup {None}],
            shown  : [Outputs -> Workspaces],
            focus  : Workspaces,
            place  : [Windows -> Workspaces \cup {None}],
            urgent : SUBSET Windows]

Layout(h, s, f, p, u) == [home |-> h, shown |-> s, focus |-> f, place |-> p, urgent |-> u]

Desk == Layout(home, shown, focus, place, urgent)

\* The events that make sense in a layout, and the layout they lead to.
WorkspaceFollows(l, e, m) ==
  \/ /\ e.change = "init" /\ l.home[e.id] = None
     /\ m = Layout([l.home EXCEPT ![e.id] = e.output], l.shown, l.focus, l.place, l.urgent)
  \/ /\ e.change = "focus" /\ l.home[e.id] # None
     /\ m = Layout(l.home, [l.shown EXCEPT ![l.home[e.id]] = e.id], e.id, l.place, l.urgent)
  \/ e.change = "urgent" /\ l.home[e.id] # None /\ m = l
  \/ /\ e.change = "move" /\ l.home[e.id] # None
     /\ m = Layout([l.home EXCEPT ![e.id] = e.output], l.shown, l.focus, l.place, l.urgent)
  \/ /\ e.change = "empty" /\ l.home[e.id] # None /\ l.focus # e.id
     /\ \A o \in Outputs : l.shown[o] # e.id
     /\ \A w \in Windows : l.place[w] # e.id
     /\ m = Layout([l.home EXCEPT ![e.id] = None], l.shown, l.focus, l.place, l.urgent)

\* A layout with window w on workspace n, or on none.
Placed(l, w, n) == Layout(l.home, l.shown, l.focus, [l.place EXCEPT ![w] = n], l.urgent)

WindowFollows(l, e, m) ==
  \/ /\ e.change = "new" /\ l.place[e.id] = None
     /\ m = Placed(l, e.id, l.shown[e.output])
  \/ e.change = "focus" /\ l.place[e.id] # None /\ m = l
  \/ /\ e.change = "urgent" /\ l.place[e.id] # None
     /\ m = Layout(l.home, l.shown, l.focus, l.place,
                   IF e.urgent THEN l.urgent \cup {e.id} ELSE l.urgent \ {e.id})
  \/ /\ e.change = "move" /\ l.place[e.id] # None /\ e.id \notin l.urgent
     /\ m = Placed(l, e.id, l.shown[e.output])
  \/ /\ e.change = "close" /\ l.place[e.id] # None /\ e.id \notin l.urgent
     /\ m = Placed(l, e.id, None)

Follows(l, e, m) ==
  IF e.about = "workspace" THEN WorkspaceFollows(l, e, m) ELSE WindowFollows(l, e, m)

\* The events lead from one layout to another, through the layouts of a path.
Leads(l, sequence, m) ==
  \E path \in [1 .. Len(sequence) + 1 -> Layouts] :
    /\ path[1] = l /\ path[Len(sequence) + 1] = m
    /\ \A k \in 1 .. Len(sequence) : Follows(path[k], sequence[k], path[k + 1])

------------------------------------------------------------------------------
(* The constants *)

LEMMA Numbered ==
  /\ 1 \in Outputs /\ Outputs \subseteq Workspaces
  /\ None \notin Outputs /\ None \notin Workspaces /\ None \notin Windows
BY ManagerAssumption DEF Outputs, Workspaces

------------------------------------------------------------------------------
(* One event *)

LEMMA LayoutTyped ==
  ASSUME NEW h \in [Workspaces -> Outputs \cup {None}], NEW s \in [Outputs -> Workspaces],
         NEW f \in Workspaces, NEW p \in [Windows -> Workspaces \cup {None}],
         NEW u \in SUBSET Windows
  PROVE  Layout(h, s, f, p, u) \in Layouts
BY DEF Layout, Layouts

LEMMA InitFollows ==
  ASSUME NEW h, NEW s, NEW f, NEW p, NEW u, NEW n, NEW o, h[n] = None
  PROVE  Follows(Layout(h, s, f, p, u), WorkspaceEvent("init", n, o),
                 Layout([h EXCEPT ![n] = o], s, f, p, u))
BY DEF Follows, WorkspaceFollows, WorkspaceEvent, Layout

LEMMA FocusFollows ==
  ASSUME NEW h, NEW s, NEW f, NEW p, NEW u, NEW n, NEW o, h[n] # None
  PROVE  Follows(Layout(h, s, f, p, u), WorkspaceEvent("focus", n, o),
                 Layout(h, [s EXCEPT ![h[n]] = n], n, p, u))
BY DEF Follows, WorkspaceFollows, WorkspaceEvent, Layout

LEMMA FlagFollows ==
  ASSUME NEW h, NEW s, NEW f, NEW p, NEW u, NEW n, NEW o, NEW flag, h[n] # None
  PROVE  Follows(Layout(h, s, f, p, u), Urgent(WorkspaceEvent("urgent", n, o), flag),
                 Layout(h, s, f, p, u))
BY DEF Follows, WorkspaceFollows, WorkspaceEvent, Urgent, Layout

LEMMA MoveFollows ==
  ASSUME NEW h, NEW s, NEW f, NEW p, NEW u, NEW n, NEW o, h[n] # None
  PROVE  Follows(Layout(h, s, f, p, u), WorkspaceEvent("move", n, o),
                 Layout([h EXCEPT ![n] = o], s, f, p, u))
BY DEF Follows, WorkspaceFollows, WorkspaceEvent, Layout

LEMMA EmptyFollows ==
  ASSUME NEW h, NEW s, NEW f, NEW p, NEW u, NEW n, NEW o, h[n] # None, f # n,
         \A q \in Outputs : s[q] # n, \A w \in Windows : p[w] # n
  PROVE  Follows(Layout(h, s, f, p, u), WorkspaceEvent("empty", n, o),
                 Layout([h EXCEPT ![n] = None], s, f, p, u))
BY DEF Follows, WorkspaceFollows, WorkspaceEvent, Layout

LEMMA NewFollows ==
  ASSUME NEW h, NEW s, NEW f, NEW p, NEW u, NEW w, NEW o, p[w] = None
  PROVE  Follows(Layout(h, s, f, p, u), WindowEvent("new", w, o),
                 Layout(h, s, f, [p EXCEPT ![w] = s[o]], u))
BY DEF Follows, WindowFollows, WindowEvent, Placed, Layout

LEMMA VisibleFollows ==
  ASSUME NEW h, NEW s, NEW f, NEW p, NEW u, NEW w, NEW o, p[w] # None
  PROVE  Follows(Layout(h, s, f, p, u), WindowEvent("focus", w, o), Layout(h, s, f, p, u))
BY DEF Follows, WindowFollows, WindowEvent, Placed, Layout

LEMMA AlertFollows ==
  ASSUME NEW h, NEW s, NEW f, NEW p, NEW u, NEW w, NEW o, NEW flag \in BOOLEAN, p[w] # None
  PROVE  Follows(Layout(h, s, f, p, u), Urgent(WindowEvent("urgent", w, o), flag),
                 Layout(h, s, f, p, IF flag THEN u \cup {w} ELSE u \ {w}))
BY DEF Follows, WindowFollows, WindowEvent, Urgent, Layout

LEMMA SendFollows ==
  ASSUME NEW h, NEW s, NEW f, NEW p, NEW u, NEW w, NEW o, p[w] # None, w \notin u
  PROVE  Follows(Layout(h, s, f, p, u), WindowEvent("move", w, o),
                 Layout(h, s, f, [p EXCEPT ![w] = s[o]], u))
BY DEF Follows, WindowFollows, WindowEvent, Placed, Layout

LEMMA CloseFollows ==
  ASSUME NEW h, NEW s, NEW f, NEW p, NEW u, NEW w, NEW o, p[w] # None, w \notin u
  PROVE  Follows(Layout(h, s, f, p, u), WindowEvent("close", w, o),
                 Layout(h, s, f, [p EXCEPT ![w] = None], u))
BY DEF Follows, WindowFollows, WindowEvent, Placed, Layout

------------------------------------------------------------------------------
(* Many events *)

LEMMA LeadsNowhere ==
  ASSUME NEW l \in Layouts
  PROVE  Leads(l, <<>>, l)
<1> DEFINE path == [k \in 1 .. 1 |-> l]
<1>1. Len(<<>>) = 0
  OBVIOUS
<1>2. path \in [1 .. 1 -> Layouts] /\ path[1] = l
  OBVIOUS
<1> HIDE DEF path
<1> QED  BY <1>1, <1>2 DEF Leads

LEMMA LeadsByOne ==
  ASSUME NEW l \in Layouts, NEW m \in Layouts, NEW e, Follows(l, e, m)
  PROVE  Leads(l, <<e>>, m)
<1> DEFINE path == [k \in 1 .. 2 |-> IF k = 1 THEN l ELSE m]
<1>1. Len(<<e>>) = 1
  OBVIOUS
<1>2. path \in [1 .. 2 -> Layouts] /\ path[1] = l /\ path[2] = m
  OBVIOUS
<1>3. \A k \in 1 .. 1 : Follows(path[k], <<e>>[k], path[k + 1])
  BY <1>2
<1> HIDE DEF path
<1> QED  BY <1>1, <1>2, <1>3 DEF Leads

LEMMA LeadsIf ==
  ASSUME NEW l \in Layouts, NEW m \in Layouts, NEW condition, NEW e,
         condition => Follows(l, e, m), ~condition => m = l
  PROVE  Leads(l, If(condition, e), m)
<1>1. CASE condition
  BY <1>1, LeadsByOne DEF If
<1>2. CASE ~condition
  BY <1>2, LeadsNowhere DEF If
<1> QED  BY <1>1, <1>2

LEMMA LeadsOn ==
  ASSUME NEW l, NEW m, NEW n, NEW s \in Seq(Messages), NEW t \in Seq(Messages),
         Leads(l, s, m), Leads(m, t, n)
  PROVE  Leads(l, s \o t, n)
<1>1. PICK p \in [1 .. Len(s) + 1 -> Layouts] :
        /\ p[1] = l /\ p[Len(s) + 1] = m
        /\ \A k \in 1 .. Len(s) : Follows(p[k], s[k], p[k + 1])
  BY DEF Leads
<1>2. PICK q \in [1 .. Len(t) + 1 -> Layouts] :
        /\ q[1] = m /\ q[Len(t) + 1] = n
        /\ \A k \in 1 .. Len(t) : Follows(q[k], t[k], q[k + 1])
  BY DEF Leads
<1> DEFINE path == [k \in 1 .. Len(s) + Len(t) + 1 |->
                      IF k <= Len(s) THEN p[k] ELSE q[k - Len(s)]]
<1>3. /\ Len(s) \in Nat /\ Len(t) \in Nat /\ Len(s \o t) = Len(s) + Len(t)
      /\ \A k \in 1 .. Len(s) : (s \o t)[k] = s[k]
      /\ \A k \in Len(s) + 1 .. Len(s) + Len(t) : (s \o t)[k] = t[k - Len(s)]
  BY ConcatProperties
<1>4. path \in [1 .. Len(s \o t) + 1 -> Layouts]
  <2>1. ASSUME NEW k \in 1 .. Len(s) + Len(t) + 1
        PROVE  (IF k <= Len(s) THEN p[k] ELSE q[k - Len(s)]) \in Layouts
    <3>1. CASE k <= Len(s)
      BY <1>1, <1>3, <3>1
    <3>2. CASE ~(k <= Len(s))
      <4>1. k - Len(s) \in 1 .. Len(t) + 1
        BY <1>3, <3>2
      <4> QED  BY <1>2, <3>2, <4>1
    <3> QED  BY <3>1, <3>2
  <2> QED  BY <1>3, <2>1
<1>5. path[1] = l
  <2>1. CASE Len(s) = 0
    BY <1>1, <1>2, <1>3, <2>1
  <2>2. CASE Len(s) # 0
    BY <1>1, <1>3, <2>2
  <2> QED  BY <2>1, <2>2
<1>6. path[Len(s \o t) + 1] = n
  BY <1>2, <1>3
<1>7. ASSUME NEW k \in 1 .. Len(s \o t)
      PROVE  Follows(path[k], (s \o t)[k], path[k + 1])
  <2>1. CASE k < Len(s)
    <3>1. path[k] = p[k] /\ path[k + 1] = p[k + 1] /\ (s \o t)[k] = s[k]
      BY <1>3, <2>1
    <3> QED  BY <1>1, <1>3, <2>1, <3>1
  <2>2. CASE k = Len(s)
    <3>1. path[k] = p[k] /\ path[k + 1] = q[1] /\ (s \o t)[k] = s[k]
      BY <1>3, <2>2
    <3>2. q[1] = p[k + 1] /\ k \in 1 .. Len(s)
      BY <1>1, <1>2, <1>3, <2>2
    <3> QED  BY <1>1, <3>1, <3>2
  <2>3. CASE k > Len(s)
    <3> DEFINE j == k - Len(s)
    <3>1. j \in 1 .. Len(t) /\ path[k] = q[j] /\ path[k + 1] = q[j + 1] /\ (s \o t)[k] = t[j]
      BY <1>3, <2>3
    <3> HIDE DEF j
    <3> QED  BY <1>2, <3>1
  <2> QED  BY <1>3, <2>1, <2>2, <2>3
<1> HIDE DEF path
<1> QED  BY <1>4, <1>5, <1>6, <1>7 DEF Leads

\* What is read first.
LEMMA LeadsFirst ==
  ASSUME NEW l, NEW n, NEW s \in Seq(Messages), s # <<>>, Leads(l, s, n)
  PROVE  \E m \in Layouts : Follows(l, Head(s), m) /\ Leads(m, Tail(s), n)
<1>1. PICK p \in [1 .. Len(s) + 1 -> Layouts] :
        /\ p[1] = l /\ p[Len(s) + 1] = n
        /\ \A k \in 1 .. Len(s) : Follows(p[k], s[k], p[k + 1])
  BY DEF Leads
<1>2. /\ Len(s) \in Nat /\ Len(s) >= 1 /\ Len(Tail(s)) = Len(s) - 1 /\ Head(s) = s[1]
      /\ \A k \in 1 .. Len(Tail(s)) : Tail(s)[k] = s[k + 1]
  BY HeadTailProperties, EmptySeq
<1> DEFINE path == [k \in 1 .. Len(Tail(s)) + 1 |-> p[k + 1]]
<1>3. p[2] \in Layouts /\ Follows(l, Head(s), p[2])
  BY <1>1, <1>2
<1>4. path \in [1 .. Len(Tail(s)) + 1 -> Layouts]
  BY <1>1, <1>2
<1>5. path[1] = p[2] /\ path[Len(Tail(s)) + 1] = n
  BY <1>1, <1>2
<1>6. ASSUME NEW k \in 1 .. Len(Tail(s))
      PROVE  Follows(path[k], Tail(s)[k], path[k + 1])
  <2>1. k + 1 \in 1 .. Len(s) /\ Tail(s)[k] = s[k + 1] /\ path[k] = p[k + 1]
        /\ path[k + 1] = p[(k + 1) + 1]
    BY <1>2
  <2> QED  BY <1>1, <2>1
<1> HIDE DEF path
<1>7. Leads(p[2], Tail(s), n)
  BY <1>4, <1>5, <1>6 DEF Leads
<1> QED  BY <1>3, <1>7

LEMMA EventTyped ==
  /\ \A change \in {"init", "focus", "urgent", "move", "empty"}, n \in Workspaces, o \in Outputs :
       WorkspaceEvent(change, n, o) \in Messages
  /\ \A change \in {"new", "focus", "urgent", "move", "close"}, w \in Windows, o \in Outputs :
       WindowEvent(change, w, o) \in Messages
  /\ \A e \in Messages, flag \in BOOLEAN : Urgent(e, flag) \in Messages
<1>1. \A change \in {"init", "focus", "urgent", "move", "empty"}, n \in Workspaces, o \in Outputs :
        WorkspaceEvent(change, n, o) \in Messages
  BY DEF WorkspaceEvent, Messages
<1>2. \A change \in {"new", "focus", "urgent", "move", "close"}, w \in Windows, o \in Outputs :
        WindowEvent(change, w, o) \in Messages
  BY DEF WindowEvent, Messages
<1>3. \A e \in Messages, flag \in BOOLEAN : Urgent(e, flag) \in Messages
  BY DEF Urgent, Messages
<1> QED  BY <1>1, <1>2, <1>3

LEMMA SequenceTyped ==
  /\ \A e \in Messages : <<e>> \in Seq(Messages)
  /\ \A condition : \A e : (condition => e \in Messages) => If(condition, e) \in Seq(Messages)
  /\ \A s, t \in Seq(Messages) : s \o t \in Seq(Messages)
<1>1. \A e \in Messages : <<e>> \in Seq(Messages)
  OBVIOUS
<1>2. \A condition : \A e : (condition => e \in Messages) => If(condition, e) \in Seq(Messages)
  BY DEF If
<1>3. \A s, t \in Seq(Messages) : s \o t \in Seq(Messages)
  BY ConcatProperties
<1> QED  BY <1>1, <1>2, <1>3

\* Three events come one after the other.
LEMMA ThreeEvents ==
  ASSUME NEW a \in Messages, NEW b \in Messages, NEW c \in Messages
  PROVE  <<a, b, c>> = <<a>> \o <<b>> \o <<c>> /\ <<a, b, c>> \in Seq(Messages)
<1>1. /\ <<a>> \in Seq(Messages) /\ <<b>> \in Seq(Messages) /\ <<c>> \in Seq(Messages)
      /\ <<a, b>> \in Seq(Messages) /\ <<a, b, c>> \in Seq(Messages)
  OBVIOUS
<1>2. <<a>> \o <<b>> = <<a, b>>
  <2>1. <<a>> \o <<b>> \in Seq(Messages) /\ Len(<<a>> \o <<b>>) = 2
    BY <1>1, ConcatProperties
  <2>2. (<<a>> \o <<b>>)[1] = a /\ (<<a>> \o <<b>>)[2] = b
    BY <1>1, ConcatProperties
  <2>3. /\ Len(<<a>> \o <<b>>) = Len(<<a, b>>)
        /\ \A i \in 1 .. Len(<<a, b>>) : (<<a>> \o <<b>>)[i] = <<a, b>>[i]
    BY <2>1, <2>2
  <2> QED  BY <1>1, <2>1, <2>3, SeqEqual
<1>3. <<a, b>> \o <<c>> = <<a, b, c>>
  <2>1. <<a, b>> \o <<c>> \in Seq(Messages) /\ Len(<<a, b>> \o <<c>>) = 3
    BY <1>1, ConcatProperties
  <2>2. /\ (<<a, b>> \o <<c>>)[1] = a /\ (<<a, b>> \o <<c>>)[2] = b
        /\ (<<a, b>> \o <<c>>)[3] = c
    BY <1>1, ConcatProperties
  <2>3. /\ Len(<<a, b>> \o <<c>>) = Len(<<a, b, c>>)
        /\ \A i \in 1 .. Len(<<a, b, c>>) : (<<a, b>> \o <<c>>)[i] = <<a, b, c>>[i]
    BY <2>1, <2>2
  <2> QED  BY <1>1, <2>1, <2>3, SeqEqual
<1> QED  BY <1>1, <1>2, <1>3

------------------------------------------------------------------------------
(* The steps *)

\* A step sends what leads from the desktop before it to the desktop after it.
Told == \E s \in Seq(Messages) : events' = events \o s /\ Leads(Desk, s, Desk')

LEMMA EventsTyped ==
  ASSUME Ordered, NEW s \in Seq(Messages), Send(s)
  PROVE  /\ events' \in Seq(Messages) /\ Len(events') <= MaxEvents
         /\ events' = events \o s
BY ConcatProperties DEF Ordered, Send

LEMMA HomeTyped ==
  ASSUME Ordered
  PROVE  /\ home[focus] \in Outputs
         /\ \A n \in Workspaces : Exists(n) => home[n] \in Outputs
         /\ \A w \in Windows : place[w] # None =>
              place[w] \in Workspaces /\ Exists(place[w]) /\ home[place[w]] \in Outputs
         /\ Desk \in Layouts
BY LayoutTyped DEF Ordered, Exists, Desk

LEMMA SwitchStep ==
  ASSUME Ordered, NEW n \in Workspaces, Switch(n)
  PROVE  Ordered' /\ Told
<1> DEFINE out    == IF Exists(n) THEN home[n] ELSE home[focus]
           old    == shown[out]
           closes == old # n /\ On(old) = {}
           s1     == If(~Exists(n), WorkspaceEvent("init", n, out))
           s2     == <<WorkspaceEvent("focus", n, out)>>
           s3     == If(closes, WorkspaceEvent("empty", old, out))
           s4     == If(top[n] # None, WindowEvent("focus", top[n], out))
           h1     == [home EXCEPT ![n] = out]
           h2     == [m \in Workspaces |->
                        IF m = n THEN out ELSE IF m = old /\ closes THEN None ELSE home[m]]
           sh     == [shown EXCEPT ![out] = n]
<1>1. /\ focus # n /\ focus' = n /\ shown' = sh /\ home' = h2
      /\ Send(s1 \o s2 \o s3 \o s4)
      /\ UNCHANGED <<place, top, urgent>>
  BY DEF Switch
<1>2. /\ out \in Outputs /\ old \in Workspaces /\ home[old] = out
      /\ (Exists(n) => home[n] = out)
  BY HomeTyped DEF Ordered
<1>3. /\ home \in [Workspaces -> Outputs \cup {None}] /\ shown \in [Outputs -> Workspaces]
      /\ focus \in Workspaces /\ place \in [Windows -> Workspaces \cup {None}]
      /\ top \in [Workspaces -> Windows \cup {None}] /\ urgent \in SUBSET Windows
      /\ \A o \in Outputs : home[shown[o]] = o
      /\ \A w \in Windows : place[w] # None => home[place[w]] # None
      /\ \A m \in Workspaces : top[m] # None => place[top[m]] = m
      /\ None \notin Outputs /\ None \notin Workspaces /\ None \notin Windows
  BY Numbered DEF Ordered
<1>4. /\ h1 \in [Workspaces -> Outputs \cup {None}] /\ h2 \in [Workspaces -> Outputs \cup {None}]
      /\ sh \in [Outputs -> Workspaces]
  BY <1>2, <1>3
<1>5. /\ Layout(home, shown, focus, place, urgent) \in Layouts
      /\ Layout(h1, shown, focus, place, urgent) \in Layouts
      /\ Layout(h1, sh, n, place, urgent) \in Layouts
      /\ Layout(h2, sh, n, place, urgent) \in Layouts
  BY <1>3, <1>4, LayoutTyped
<1>6. /\ h1[n] = out /\ out # None /\ sh = [shown EXCEPT ![h1[n]] = n]
      /\ (Exists(n) => h1 = home)
  BY <1>2, <1>3 DEF Exists
<1>7. closes => /\ old # n /\ h1[old] = out /\ h2 = [h1 EXCEPT ![old] = None]
                /\ \A o \in Outputs : sh[o] # old
                /\ \A w \in Windows : place[w] # old
  <2>1. SUFFICES ASSUME closes
                 PROVE  /\ old # n /\ h1[old] = out /\ h2 = [h1 EXCEPT ![old] = None]
                        /\ \A o \in Outputs : sh[o] # old
                        /\ \A w \in Windows : place[w] # old
    OBVIOUS
  <2>2. old # n /\ \A w \in Windows : place[w] # old
    BY <2>1 DEF On
  <2>3. h1[old] = out /\ h2 = [h1 EXCEPT ![old] = None]
    <3>1. h1[old] = out
      BY <1>2, <1>3, <2>2
    <3>2. h2 = [m \in Workspaces |-> IF m = old THEN None ELSE h1[m]]
      BY <1>2, <1>3, <2>1, <2>2
    <3> QED  BY <1>4, <3>1, <3>2
  <2>4. \A o \in Outputs : sh[o] # old
    BY <1>2, <1>3, <2>2
  <2> QED  BY <2>2, <2>3, <2>4
<1>8. ~closes => h2 = h1
  BY <1>2, <1>3
<1> HIDE DEF h1, h2, sh, out, old, closes
<1>9. Leads(Desk, s1, Layout(h1, shown, focus, place, urgent))
  <2>1. ~Exists(n) => Follows(Layout(home, shown, focus, place, urgent),
                              WorkspaceEvent("init", n, out),
                              Layout(h1, shown, focus, place, urgent))
    BY InitFollows DEF Exists, h1
  <2> QED  BY <1>5, <1>6, <2>1, LeadsIf DEF Desk
<1>10. Leads(Layout(h1, shown, focus, place, urgent), s2, Layout(h1, sh, n, place, urgent))
  <2>1. Follows(Layout(h1, shown, focus, place, urgent), WorkspaceEvent("focus", n, out),
                Layout(h1, sh, n, place, urgent))
    BY <1>6, FocusFollows
  <2> QED  BY <1>5, <2>1, LeadsByOne
<1>11. Leads(Layout(h1, sh, n, place, urgent), s3, Layout(h2, sh, n, place, urgent))
  <2>1. closes => Follows(Layout(h1, sh, n, place, urgent), WorkspaceEvent("empty", old, out),
                          Layout(h2, sh, n, place, urgent))
    BY <1>6, <1>7, EmptyFollows
  <2> QED  BY <1>5, <1>8, <2>1, LeadsIf
<1>12. Leads(Layout(h2, sh, n, place, urgent), s4, Layout(h2, sh, n, place, urgent))
  <2>1. top[n] # None => Follows(Layout(h2, sh, n, place, urgent),
                                 WindowEvent("focus", top[n], out),
                                 Layout(h2, sh, n, place, urgent))
    BY <1>3, VisibleFollows
  <2> QED  BY <1>5, <2>1, LeadsIf
<1>13. s1 \in Seq(Messages) /\ s2 \in Seq(Messages) /\ s3 \in Seq(Messages) /\ s4 \in Seq(Messages)
  <2>1. top[n] # None => top[n] \in Windows
    BY <1>3
  <2> QED  BY <1>2, <2>1, EventTyped, SequenceTyped
<1> HIDE DEF s1, s2, s3, s4
<1>14. Leads(Desk, s1 \o s2 \o s3 \o s4, Layout(h2, sh, n, place, urgent))
  <2>1. Leads(Desk, s1 \o s2, Layout(h1, sh, n, place, urgent))
    BY <1>9, <1>10, <1>13, LeadsOn
  <2>2. Leads(Desk, s1 \o s2 \o s3, Layout(h2, sh, n, place, urgent))
    BY <1>11, <1>13, <2>1, LeadsOn, SequenceTyped
  <2> QED  BY <1>12, <1>13, <2>2, LeadsOn, SequenceTyped
<1>15. s1 \o s2 \o s3 \o s4 \in Seq(Messages)
  BY <1>13, SequenceTyped
<1>16. Told
  BY <1>1, <1>14, <1>15, EventsTyped DEF Told, Desk
<1>17. Ordered'
  <2>1. events' \in Seq(Messages) /\ Len(events') <= MaxEvents
    BY <1>1, <1>15, EventsTyped
  <2>2. h2[n] # None /\ sh[h2[n]] = n
    BY <1>2, <1>3, <1>6 DEF h2, sh
  <2>3. \A o \in Outputs : h2[sh[o]] = o
    <3>1. SUFFICES ASSUME NEW o \in Outputs, o # out
                   PROVE  h2[shown[o]] = o /\ sh[o] = shown[o]
      BY <1>2, <1>3, <2>2 DEF h2, sh
    <3>2. home[shown[o]] = o /\ shown[o] \in Workspaces /\ o # None
      BY <1>3
    <3>3. shown[o] # n /\ shown[o] # old
      BY <1>2, <3>1, <3>2 DEF Exists
    <3> QED  BY <1>3, <3>1, <3>2, <3>3 DEF h2, sh
  <2>4. \A w \in Windows : place[w] # None => h2[place[w]] # None
    BY <1>2, <1>3, <1>6, <1>7 DEF h2
  <2>5. urgent \in SUBSET Windows /\ \A w \in urgent : place[w] # None
    BY DEF Ordered
  <2> QED  BY <1>1, <1>3, <1>4, <2>1, <2>2, <2>3, <2>4, <2>5 DEF Ordered
<1> QED  BY <1>16, <1>17

\* The parts of Ordered that are types.
LEMMA OrderedTypes ==
  ASSUME Ordered
  PROVE  /\ home \in [Workspaces -> Outputs \cup {None}] /\ shown \in [Outputs -> Workspaces]
         /\ focus \in Workspaces /\ place \in [Windows -> Workspaces \cup {None}]
         /\ top \in [Workspaces -> Windows \cup {None}] /\ urgent \in SUBSET Windows
         /\ None \notin Outputs /\ None \notin Workspaces /\ None \notin Windows
BY Numbered DEF Ordered

LEMMA OpenStep ==
  ASSUME Ordered, NEW w \in Windows, Open(w)
  PROVE  Ordered' /\ Told
<1> DEFINE o  == home[focus]
           p2 == [place EXCEPT ![w] = focus]
           s1 == <<WindowEvent("new", w, o)>>
           s2 == <<WindowEvent("focus", w, o)>>
<1>1. /\ place[w] = None /\ place' = p2 /\ top' = [top EXCEPT ![focus] = w]
      /\ Send(<<WindowEvent("new", w, o), WindowEvent("focus", w, o)>>)
      /\ UNCHANGED <<home, shown, focus, urgent>>
  BY DEF Open
<1>2. o \in Outputs /\ shown[o] = focus
  BY HomeTyped DEF Ordered
<1>3. s1 \in Seq(Messages) /\ s2 \in Seq(Messages)
      /\ <<WindowEvent("new", w, o), WindowEvent("focus", w, o)>> = s1 \o s2
  <2>1. WindowEvent("new", w, o) \in Messages /\ WindowEvent("focus", w, o) \in Messages
    BY <1>2, EventTyped
  <2> QED  BY <2>1
<1>4. p2 \in [Windows -> Workspaces \cup {None}] /\ p2[w] = focus
  BY OrderedTypes
<1>5. /\ Layout(home, shown, focus, place, urgent) \in Layouts
      /\ Layout(home, shown, focus, p2, urgent) \in Layouts
  BY <1>4, LayoutTyped, OrderedTypes
<1>6. Leads(Desk, s1, Layout(home, shown, focus, p2, urgent))
  <2>1. Follows(Desk, WindowEvent("new", w, o), Layout(home, shown, focus, p2, urgent))
    BY <1>1, <1>2, NewFollows DEF Desk
  <2> QED  BY <1>5, <2>1, LeadsByOne DEF Desk
<1>7. Leads(Layout(home, shown, focus, p2, urgent), s2, Layout(home, shown, focus, p2, urgent))
  <2>1. p2[w] # None
    BY <1>4, OrderedTypes
  <2>2. Follows(Layout(home, shown, focus, p2, urgent), WindowEvent("focus", w, o),
                Layout(home, shown, focus, p2, urgent))
    BY <2>1, VisibleFollows
  <2> QED  BY <1>5, <2>2, LeadsByOne
<1> HIDE DEF s1, s2, p2, o
<1>8. Leads(Desk, s1 \o s2, Desk')
  BY <1>1, <1>3, <1>6, <1>7, LeadsOn DEF Desk
<1>9. Told /\ events' \in Seq(Messages) /\ Len(events') <= MaxEvents
  BY <1>1, <1>3, <1>8, EventsTyped, SequenceTyped DEF Told
<1>10. Ordered'
  <2>1. \A v \in Windows : p2[v] # None => home[p2[v]] # None
    BY <1>2, OrderedTypes DEF Ordered, p2, o
  <2>2. \A m \in Workspaces : top'[m] # None => p2[top'[m]] = m
    BY <1>1, OrderedTypes DEF Ordered, p2
  <2>3. \A v \in urgent : p2[v] # None
    BY <1>4, OrderedTypes DEF Ordered, p2
  <2>4. top' \in [Workspaces -> Windows \cup {None}]
    BY <1>1, OrderedTypes
  <2> QED  BY <1>1, <1>4, <1>9, <2>1, <2>2, <2>3, <2>4 DEF Ordered
<1> QED  BY <1>9, <1>10

LEMMA FocusStep ==
  ASSUME Ordered, NEW w \in Windows, Focus(w)
  PROVE  Ordered' /\ Told
<1> DEFINE e == WindowEvent("focus", w, home[focus])
<1>1. /\ place[w] = focus /\ top' = [top EXCEPT ![focus] = w] /\ Send(<<e>>)
      /\ UNCHANGED <<home, shown, focus, place, urgent>>
  BY DEF Focus
<1>2. e \in Messages
  BY EventTyped, HomeTyped
<1>3. Follows(Desk, e, Desk)
  BY <1>1, VisibleFollows, OrderedTypes DEF Desk
<1> HIDE DEF e
<1>4. Leads(Desk, <<e>>, Desk)
  BY <1>3, LeadsByOne, HomeTyped
<1>5. Told /\ events' \in Seq(Messages) /\ Len(events') <= MaxEvents
  <2>1. Desk' = Desk
    BY <1>1 DEF Desk
  <2> QED  BY <1>1, <1>2, <1>4, <2>1, EventsTyped, SequenceTyped DEF Told
<1>6. /\ top' \in [Workspaces -> Windows \cup {None}]
      /\ \A m \in Workspaces : top'[m] # None => place[top'[m]] = m
  BY <1>1, OrderedTypes DEF Ordered
<1> QED  BY <1>1, <1>5, <1>6 DEF Ordered

LEMMA UrgencyLeads ==
  ASSUME Ordered, NEW w \in Windows, NEW flag \in BOOLEAN, place[w] # None
  PROVE  /\ UrgencyEvents(w, flag) \in Seq(Messages)
         /\ Leads(Desk, UrgencyEvents(w, flag),
                  Layout(home, shown, focus, place,
                         IF flag THEN urgent \cup {w} ELSE urgent \ {w}))
<1> DEFINE n  == place[w]
           e1 == Urgent(WorkspaceEvent("urgent", n, home[n]), flag)
           e2 == Urgent(WindowEvent("urgent", w, home[n]), flag)
           c  == On(n) \cap (urgent \ {w}) = {}
           u2 == IF flag THEN urgent \cup {w} ELSE urgent \ {w}
<1>1. UrgencyEvents(w, flag) = If(c, e1) \o <<e2>>
  BY DEF UrgencyEvents
<1>2. n \in Workspaces /\ home[n] # None /\ home[n] \in Outputs
  BY HomeTyped DEF Exists
<1>3. e1 \in Messages /\ e2 \in Messages
  <2>1. WorkspaceEvent("urgent", n, home[n]) \in Messages
    BY <1>2, EventTyped
  <2>2. WindowEvent("urgent", w, home[n]) \in Messages
    BY <1>2, EventTyped
  <2> QED  BY <2>1, <2>2, EventTyped
<1>4. If(c, e1) \in Seq(Messages) /\ <<e2>> \in Seq(Messages)
  BY <1>3, SequenceTyped
<1>5. /\ Desk \in Layouts /\ u2 \in SUBSET Windows
      /\ Layout(home, shown, focus, place, u2) \in Layouts
  <2>1. u2 \in SUBSET Windows
    BY OrderedTypes
  <2> QED  BY <2>1, HomeTyped, OrderedTypes, LayoutTyped
<1>6. Follows(Desk, e1, Desk)
  BY <1>2, FlagFollows DEF Desk
<1>7. Follows(Desk, e2, Layout(home, shown, focus, place, u2))
  BY AlertFollows DEF Desk
<1> HIDE DEF e1, e2, c, u2
<1>8. Leads(Desk, If(c, e1), Desk)
  BY <1>5, <1>6, LeadsIf
<1>9. Leads(Desk, <<e2>>, Layout(home, shown, focus, place, u2))
  BY <1>5, <1>7, LeadsByOne
<1>10. Leads(Desk, If(c, e1) \o <<e2>>, Layout(home, shown, focus, place, u2))
  BY <1>4, <1>8, <1>9, LeadsOn
<1>11. UrgencyEvents(w, flag) \in Seq(Messages)
  BY <1>1, <1>4, SequenceTyped
<1> QED  BY <1>1, <1>10, <1>11 DEF u2

LEMMA AlertStep ==
  ASSUME Ordered, NEW w \in Windows, Alert(w) \/ Calm(w)
  PROVE  Ordered' /\ Told
<1> DEFINE flag == w \notin urgent
           u2   == IF flag THEN urgent \cup {w} ELSE urgent \ {w}
<1>1. /\ place[w] # None /\ urgent' = u2 /\ Send(UrgencyEvents(w, flag))
      /\ UNCHANGED <<home, shown, focus, place, top>>
  <2>1. CASE Alert(w)
    <3>1. flag = TRUE
      BY <2>1 DEF Alert
    <3> QED  BY <2>1, <3>1 DEF Alert
  <2>2. CASE Calm(w)
    <3>1. flag = FALSE
      BY <2>2 DEF Calm
    <3>2. place[w] # None
      BY <2>2, OrderedTypes DEF Calm
    <3> QED  BY <2>2, <3>1, <3>2 DEF Calm
  <2> QED  BY <2>1, <2>2
<1>2. flag \in BOOLEAN
  OBVIOUS
<1>3. UrgencyEvents(w, flag) \in Seq(Messages) /\ Leads(Desk, UrgencyEvents(w, flag), Desk')
  BY <1>1, <1>2, UrgencyLeads DEF Desk
<1>4. u2 \in SUBSET Windows /\ \A v \in u2 : place[v] # None
  BY <1>1, OrderedTypes DEF Ordered
<1> HIDE DEF flag, u2
<1>5. Told /\ events' \in Seq(Messages) /\ Len(events') <= MaxEvents
  BY <1>1, <1>3, EventsTyped DEF Told
<1> QED  BY <1>1, <1>4, <1>5 DEF Ordered

\* The window that gets the focus is another one of the same workspace.
LEMMA SuccessorTyped ==
  ASSUME Ordered, NEW n \in Workspaces, NEW w \in Windows, place[w] = n,
         NEW next \in Successors(n, w)
  PROVE  next # None => next \in Windows /\ next # w /\ place[next] = n
BY OrderedTypes DEF Successors, On

LEMMA CloseStep ==
  ASSUME Ordered, NEW w \in Windows, Close(w)
  PROVE  Ordered' /\ Told
<1> DEFINE n      == place[w]
           closes == ~Visible(n) /\ On(n) = {w}
           u2     == urgent \ {w}
           p2     == [place EXCEPT ![w] = None]
           h2     == [home EXCEPT ![n] = IF closes THEN None ELSE @]
           s1     == IF w \in urgent THEN UrgencyEvents(w, FALSE) ELSE <<>>
           s2     == <<WindowEvent("close", w, home[n])>>
           s3     == If(closes, WorkspaceEvent("empty", n, home[n]))
<1>1. PICK next \in Successors(n, w) :
        /\ top' = [top EXCEPT ![n] = IF @ = w THEN next ELSE @]
        /\ Send(s1 \o s2 \o s3 \o If(n = focus /\ top[n] = w /\ next # None,
                                     WindowEvent("focus", next, home[n])))
  BY DEF Close
<1> DEFINE follow == n = focus /\ top[n] = w /\ next # None
           s4     == If(follow, WindowEvent("focus", next, home[n]))
<1>2. /\ n # None /\ place' = p2 /\ urgent' = u2 /\ home' = h2
      /\ UNCHANGED <<shown, focus>>
  BY DEF Close
<1>3. n \in Workspaces /\ home[n] # None /\ home[n] \in Outputs
  BY <1>2, HomeTyped DEF Exists
<1>4. next # None => next \in Windows /\ next # w /\ place[next] = n
  BY <1>3, SuccessorTyped
<1>5. /\ u2 \in SUBSET Windows /\ p2 \in [Windows -> Workspaces \cup {None}]
      /\ h2 \in [Workspaces -> Outputs \cup {None}]
  BY <1>3, OrderedTypes
<1>6. /\ Layout(home, shown, focus, place, urgent) \in Layouts
      /\ Layout(home, shown, focus, place, u2) \in Layouts
      /\ Layout(home, shown, focus, p2, u2) \in Layouts
      /\ Layout(h2, shown, focus, p2, u2) \in Layouts
  BY <1>5, OrderedTypes, LayoutTyped
<1>7. closes => /\ focus # n /\ h2 = [home EXCEPT ![n] = None]
                /\ \A o \in Outputs : shown[o] # n
                /\ \A v \in Windows : p2[v] # n
  <2>1. SUFFICES ASSUME closes
                 PROVE  /\ focus # n /\ h2 = [home EXCEPT ![n] = None]
                        /\ \A o \in Outputs : shown[o] # n
                        /\ \A v \in Windows : p2[v] # n
    OBVIOUS
  <2>2. \A o \in Outputs : shown[o] # n
    BY <2>1 DEF Visible
  <2>3. focus # n
    BY <2>2, HomeTyped DEF Ordered
  <2>4. \A v \in Windows : p2[v] # n
    BY <1>3, <2>1, OrderedTypes DEF On
  <2> QED  BY <2>1, <2>2, <2>3, <2>4
<1>8. ~closes => h2 = home
  BY OrderedTypes
<1> HIDE DEF u2, p2, h2, closes, follow
<1>9. s1 \in Seq(Messages) /\ Leads(Desk, s1, Layout(home, shown, focus, place, u2))
  <2>1. CASE w \in urgent
    BY <1>2, <2>1, UrgencyLeads DEF u2
  <2>2. CASE w \notin urgent
    <3>1. u2 = urgent
      BY <2>2 DEF u2
    <3> QED  BY <2>2, <3>1, <1>6, LeadsNowhere DEF Desk
  <2> QED  BY <2>1, <2>2
<1>10. Leads(Layout(home, shown, focus, place, u2), s2, Layout(home, shown, focus, p2, u2))
  <2>1. w \notin u2
    BY DEF u2
  <2>2. Follows(Layout(home, shown, focus, place, u2), WindowEvent("close", w, home[n]),
                Layout(home, shown, focus, p2, u2))
    BY <1>2, <2>1, CloseFollows DEF p2
  <2> QED  BY <1>6, <2>2, LeadsByOne
<1>11. Leads(Layout(home, shown, focus, p2, u2), s3, Layout(h2, shown, focus, p2, u2))
  <2>1. closes => Follows(Layout(home, shown, focus, p2, u2),
                          WorkspaceEvent("empty", n, home[n]),
                          Layout(h2, shown, focus, p2, u2))
    BY <1>3, <1>7, EmptyFollows
  <2> QED  BY <1>6, <1>8, <2>1, LeadsIf
<1>12. Leads(Layout(h2, shown, focus, p2, u2), s4, Layout(h2, shown, focus, p2, u2))
  <2>1. follow => p2[next] # None
    BY <1>3, <1>4, OrderedTypes DEF follow, p2
  <2>2. follow => Follows(Layout(h2, shown, focus, p2, u2), WindowEvent("focus", next, home[n]),
                          Layout(h2, shown, focus, p2, u2))
    BY <2>1, VisibleFollows
  <2> QED  BY <1>6, <2>2, LeadsIf
<1>13. s2 \in Seq(Messages) /\ s3 \in Seq(Messages) /\ s4 \in Seq(Messages)
  <2>1. follow => next \in Windows
    BY <1>4 DEF follow
  <2>2. WindowEvent("close", w, home[n]) \in Messages
        /\ WorkspaceEvent("empty", n, home[n]) \in Messages
        /\ (follow => WindowEvent("focus", next, home[n]) \in Messages)
    BY <1>3, <2>1, EventTyped
  <2> QED  BY <2>2, SequenceTyped
<1>14. Send(s1 \o s2 \o s3 \o s4)
  BY <1>1 DEF follow
<1> HIDE DEF s1, s2, s3, s4
<1>15. Leads(Desk, s1 \o s2 \o s3 \o s4, Layout(h2, shown, focus, p2, u2))
  <2>1. Leads(Desk, s1 \o s2, Layout(home, shown, focus, p2, u2))
    BY <1>9, <1>10, <1>13, LeadsOn
  <2>2. Leads(Desk, s1 \o s2 \o s3, Layout(h2, shown, focus, p2, u2))
    BY <1>9, <1>11, <1>13, <2>1, LeadsOn, SequenceTyped
  <2> QED  BY <1>9, <1>12, <1>13, <2>2, LeadsOn, SequenceTyped
<1>16. s1 \o s2 \o s3 \o s4 \in Seq(Messages)
  BY <1>9, <1>13, SequenceTyped
<1>17. Told /\ events' \in Seq(Messages) /\ Len(events') <= MaxEvents
  BY <1>2, <1>14, <1>15, <1>16, EventsTyped DEF Told, Desk
<1>18. Ordered'
  <2>1. \A o \in Outputs : h2[shown[o]] = o
    <3>1. CASE closes
      BY <1>3, <1>7, <3>1, OrderedTypes DEF Ordered
    <3>2. CASE ~closes
      BY <1>8, <3>2 DEF Ordered
    <3> QED  BY <3>1, <3>2
  <2>2. h2[focus] # None /\ shown[h2[focus]] = focus
    <3>1. CASE closes
      BY <1>3, <1>7, <3>1, OrderedTypes DEF Ordered
    <3>2. CASE ~closes
      BY <1>8, <3>2 DEF Ordered
    <3> QED  BY <3>1, <3>2
  <2>3. ASSUME NEW v \in Windows, p2[v] # None
        PROVE  h2[p2[v]] # None
    <3>1. v # w /\ p2[v] = place[v] /\ place[v] \in Workspaces /\ home[place[v]] # None
      BY <2>3, OrderedTypes DEF p2, Ordered
    <3>2. CASE closes
      BY <1>3, <1>7, <3>1, <3>2, OrderedTypes
    <3>3. CASE ~closes
      BY <1>8, <3>1, <3>3
    <3> QED  BY <3>2, <3>3
  <2>4. /\ top' \in [Workspaces -> Windows \cup {None}]
        /\ \A m \in Workspaces : top'[m] # None => p2[top'[m]] = m
    <3>1. top' \in [Workspaces -> Windows \cup {None}]
      BY <1>1, <1>4, OrderedTypes
    <3>2. ASSUME NEW m \in Workspaces, top'[m] # None
          PROVE  top'[m] \in Windows /\ top'[m] # w /\ place[top'[m]] = m
      <4>1. CASE m = n /\ top[n] = w
        <5>1. top'[m] = next
          BY <1>1, <1>3, <4>1, OrderedTypes
        <5> QED  BY <1>4, <3>2, <4>1, <5>1
      <4>2. CASE ~(m = n /\ top[n] = w)
        <5>1. top'[m] = top[m]
          BY <1>1, <1>3, <4>2, OrderedTypes
        <5>2. top[m] \in Windows /\ place[top[m]] = m
          BY <3>2, <5>1, OrderedTypes DEF Ordered
        <5> QED  BY <4>2, <5>1, <5>2
      <4> QED  BY <4>1, <4>2
    <3> QED  BY <3>1, <3>2, OrderedTypes DEF p2
  <2>5. \A v \in u2 : p2[v] # None
    BY OrderedTypes DEF Ordered, u2, p2
  <2> QED  BY <1>2, <1>5, <1>17, <2>1, <2>2, <2>3, <2>4, <2>5, OrderedTypes DEF Ordered
<1> QED  BY <1>17, <1>18

LEMMA MoveWindowStep ==
  ASSUME Ordered, NEW w \in Windows, NEW n \in Workspaces, MoveWindow(w, n)
  PROVE  Ordered' /\ (HiddenMoves \/ Told)
<1> DEFINE out == IF Exists(n) THEN home[n] ELSE home[focus]
           p2  == [place EXCEPT ![w] = n]
           h2  == [home EXCEPT ![n] = out]
           s1  == If(~Exists(n), WorkspaceEvent("init", n, out))
           s2  == <<WindowEvent("move", w, out)>>
<1>1. PICK next \in Successors(focus, w) :
        /\ top' = [top EXCEPT ![focus] = next, ![n] = w]
        /\ Send(s1 \o s2 \o If(next # None, WindowEvent("focus", next, home[focus])))
  BY DEF MoveWindow
<1> DEFINE s3 == If(next # None, WindowEvent("focus", next, home[focus]))
<1>2. /\ place[w] = focus /\ top[focus] = w /\ n # focus /\ w \notin urgent
      /\ place' = p2 /\ home' = h2 /\ (HiddenMoves \/ Visible(n))
      /\ UNCHANGED <<shown, focus, urgent>>
  BY DEF MoveWindow
<1>3. out \in Outputs /\ (Exists(n) => home[n] = out)
  BY HomeTyped
<1>4. next # None => next \in Windows /\ next # w /\ place[next] = focus
  BY <1>2, OrderedTypes, SuccessorTyped
<1>5. /\ p2 \in [Windows -> Workspaces \cup {None}]
      /\ h2 \in [Workspaces -> Outputs \cup {None}]
      /\ home[focus] \in Outputs
  BY <1>3, OrderedTypes, HomeTyped
<1>6. s1 \in Seq(Messages) /\ s2 \in Seq(Messages) /\ s3 \in Seq(Messages)
  <2>1. WorkspaceEvent("init", n, out) \in Messages /\ WindowEvent("move", w, out) \in Messages
    BY <1>3, EventTyped
  <2>2. next # None => WindowEvent("focus", next, home[focus]) \in Messages
    BY <1>4, <1>5, EventTyped
  <2> QED  BY <2>1, <2>2, SequenceTyped
<1>7. s1 \o s2 \o s3 \in Seq(Messages) /\ Send(s1 \o s2 \o s3)
  BY <1>1, <1>6, SequenceTyped
<1>8. events' \in Seq(Messages) /\ Len(events') <= MaxEvents /\ events' = events \o (s1 \o s2 \o s3)
  <2> HIDE DEF s1, s2, s3
  <2> QED  BY <1>7, EventsTyped
<1>9. Ordered'
  <2> HIDE DEF out
  <2>1. \A o \in Outputs : h2[shown[o]] = o
    <3>1. ASSUME NEW o \in Outputs
          PROVE  h2[shown[o]] = o
      <4>1. home[shown[o]] = o /\ shown[o] \in Workspaces /\ o # None
        BY OrderedTypes DEF Ordered
      <4>2. CASE shown[o] = n
        BY <1>3, <4>1, <4>2, OrderedTypes DEF Exists
      <4>3. CASE shown[o] # n
        BY <4>1, <4>3, OrderedTypes
      <4> QED  BY <4>2, <4>3
    <3> QED  BY <3>1
  <2>2. h2[focus] # None /\ shown[h2[focus]] = focus
    BY <1>2, OrderedTypes DEF Ordered
  <2>3. \A v \in Windows : p2[v] # None => h2[p2[v]] # None
    BY <1>3, OrderedTypes DEF Ordered
  <2>4. /\ top' \in [Workspaces -> Windows \cup {None}]
        /\ \A m \in Workspaces : top'[m] # None => p2[top'[m]] = m
    <3>1. top' \in [Workspaces -> Windows \cup {None}]
      BY <1>1, <1>4, OrderedTypes
    <3>2. ASSUME NEW m \in Workspaces, top'[m] # None
          PROVE  p2[top'[m]] = m
      <4>1. CASE m = n
        BY <1>1, <4>1, OrderedTypes
      <4>2. CASE m = focus
        <5>1. top'[m] = next
          BY <1>1, <1>2, <4>2, OrderedTypes
        <5> QED  BY <1>4, <3>2, <4>2, <5>1, OrderedTypes
      <4>3. CASE m # n /\ m # focus
        <5>1. top'[m] = top[m] /\ top[m] \in Windows /\ place[top[m]] = m
          BY <1>1, <3>2, <4>3, OrderedTypes DEF Ordered
        <5> QED  BY <1>2, <4>3, <5>1, OrderedTypes
      <4> QED  BY <4>1, <4>2, <4>3
    <3> QED  BY <3>1, <3>2
  <2>5. \A v \in urgent : p2[v] # None
    BY OrderedTypes DEF Ordered
  <2> QED  BY <1>2, <1>5, <1>8, <2>1, <2>2, <2>3, <2>4, <2>5, OrderedTypes DEF Ordered
<1>10. ASSUME Visible(n)
       PROVE  Told
  <2>1. Exists(n) /\ shown[out] = n /\ h2 = home
    <3>1. PICK o \in Outputs : shown[o] = n
      BY <1>10 DEF Visible
    <3>2. home[n] = o /\ o # None
      BY <3>1, OrderedTypes DEF Ordered
    <3> QED  BY <3>1, <3>2, <1>3, OrderedTypes DEF Exists
  <2>2. p2 = [place EXCEPT ![w] = shown[out]]
    BY <2>1
  <2>3. /\ Layout(home, shown, focus, place, urgent) \in Layouts
        /\ Layout(home, shown, focus, p2, urgent) \in Layouts
    BY <1>5, OrderedTypes, LayoutTyped
  <2>4. p2[w] # None /\ (next # None => p2[next] # None)
    BY <1>4, OrderedTypes
  <2> HIDE DEF p2, h2, out
  <2>5. Leads(Desk, s1, Desk)
    <3>1. ~Exists(n) => Follows(Desk, WorkspaceEvent("init", n, out), Desk)
      BY <2>1
    <3> QED  BY <2>3, <3>1, LeadsIf DEF Desk
  <2>6. Leads(Desk, s2, Layout(home, shown, focus, p2, urgent))
    <3>1. Follows(Desk, WindowEvent("move", w, out), Layout(home, shown, focus, p2, urgent))
      BY <1>2, <2>2, SendFollows, OrderedTypes DEF Desk
    <3> QED  BY <2>3, <3>1, LeadsByOne DEF Desk
  <2>7. Leads(Layout(home, shown, focus, p2, urgent), s3, Layout(home, shown, focus, p2, urgent))
    <3>1. next # None => Follows(Layout(home, shown, focus, p2, urgent),
                                 WindowEvent("focus", next, home[focus]),
                                 Layout(home, shown, focus, p2, urgent))
      BY <2>4, VisibleFollows
    <3> QED  BY <2>3, <3>1, LeadsIf
  <2> HIDE DEF s1, s2, s3
  <2>8. Leads(Desk, s1 \o s2, Layout(home, shown, focus, p2, urgent))
    BY <1>6, <2>5, <2>6, LeadsOn
  <2>9. Leads(Desk, s1 \o s2 \o s3, Layout(home, shown, focus, p2, urgent))
    BY <1>6, <2>7, <2>8, LeadsOn, SequenceTyped
  <2>10. Desk' = Layout(home, shown, focus, p2, urgent)
    BY <1>2, <2>1 DEF Desk
  <2> QED  BY <1>7, <1>8, <2>9, <2>10 DEF Told
<1> QED  BY <1>2, <1>9, <1>10

LEMMA MoveWorkspaceStep ==
  ASSUME Ordered, NEW m \in Workspaces, NEW o \in Outputs, MoveWorkspace(m, o)
  PROVE  Ordered' /\ Told
<1> DEFINE from   == home[focus]
           old    == shown[o]
           closes == On(old) = {}
           sh1    == [shown EXCEPT ![from] = m]
           sh2    == [shown EXCEPT ![from] = m, ![o] = focus]
           h1     == [home EXCEPT ![m] = from]
           h2     == [h1 EXCEPT ![focus] = o]
           h3     == [n \in Workspaces |->
                        IF n = focus THEN o ELSE IF n = m THEN from
                        ELSE IF n = old /\ closes THEN None ELSE home[n]]
           e2     == WorkspaceEvent("focus", m, from)
           e3     == WorkspaceEvent("move", focus, o)
           e4     == WorkspaceEvent("focus", focus, o)
           s1     == If(~Exists(m), WorkspaceEvent("init", m, from))
           s5     == If(closes, WorkspaceEvent("empty", old, o))
<1>1. /\ from # o /\ m # focus /\ (home[m] = from \/ home[m] = None)
      /\ shown' = sh2 /\ home' = h3 /\ Send(s1 \o <<e2, e3, e4>> \o s5)
      /\ UNCHANGED <<focus, place, top, urgent>>
  BY DEF MoveWorkspace, Exists
<1>2. /\ from \in Outputs /\ from # None /\ shown[from] = focus /\ focus \in Workspaces
      /\ old \in Workspaces /\ home[old] = o /\ o # None
      /\ old # focus /\ old # m
  BY <1>1, HomeTyped, OrderedTypes DEF Ordered
<1>3. /\ h1 \in [Workspaces -> Outputs \cup {None}] /\ h2 \in [Workspaces -> Outputs \cup {None}]
      /\ h3 \in [Workspaces -> Outputs \cup {None}]
      /\ sh1 \in [Outputs -> Workspaces] /\ sh2 \in [Outputs -> Workspaces]
  BY <1>2, OrderedTypes
<1>4. /\ Layout(home, shown, focus, place, urgent) \in Layouts
      /\ Layout(h1, shown, focus, place, urgent) \in Layouts
      /\ Layout(h1, sh1, m, place, urgent) \in Layouts
      /\ Layout(h2, sh1, m, place, urgent) \in Layouts
      /\ Layout(h2, sh2, focus, place, urgent) \in Layouts
      /\ Layout(h3, sh2, focus, place, urgent) \in Layouts
  BY <1>2, <1>3, OrderedTypes, LayoutTyped
<1>5. /\ (Exists(m) => h1 = home) /\ h1[m] = from /\ h1[focus] # None
      /\ h2[focus] = o /\ sh2 = [sh1 EXCEPT ![o] = focus]
  BY <1>1, <1>2, OrderedTypes DEF Exists
<1>6. closes => /\ h2[old] # None /\ h3 = [h2 EXCEPT ![old] = None]
                /\ \A q \in Outputs : sh2[q] # old
                /\ \A w \in Windows : place[w] # old
  <2>1. SUFFICES ASSUME closes
                 PROVE  /\ h2[old] # None /\ h3 = [h2 EXCEPT ![old] = None]
                        /\ \A q \in Outputs : sh2[q] # old
                        /\ \A w \in Windows : place[w] # old
    OBVIOUS
  <2>2. \A w \in Windows : place[w] # old
    BY <2>1 DEF On
  <2>3. h2[old] = o
    BY <1>2, <1>3, OrderedTypes
  <2>4. h3 = [n \in Workspaces |-> IF n = old THEN None ELSE h2[n]]
    BY <1>1, <1>2, <2>1, OrderedTypes
  <2>5. h3 = [h2 EXCEPT ![old] = None]
    BY <1>3, <2>4
  <2>6. \A q \in Outputs : sh2[q] # old
    BY <1>2, OrderedTypes DEF Ordered
  <2> QED  BY <1>2, <2>2, <2>3, <2>5, <2>6
<1>7. ~closes => h3 = h2
  <2>1. ~closes => h3 = [n \in Workspaces |-> IF n = focus THEN o ELSE IF n = m THEN from
                                             ELSE home[n]]
    OBVIOUS
  <2>2. h2 = [n \in Workspaces |-> IF n = focus THEN o ELSE IF n = m THEN from ELSE home[n]]
    BY OrderedTypes
  <2> QED  BY <2>1, <2>2
<1>8. /\ s1 \in Seq(Messages) /\ s5 \in Seq(Messages)
      /\ e2 \in Messages /\ e3 \in Messages /\ e4 \in Messages
  <2>1. /\ e2 \in Messages /\ e3 \in Messages /\ e4 \in Messages
        /\ WorkspaceEvent("init", m, from) \in Messages
        /\ WorkspaceEvent("empty", old, o) \in Messages
    BY <1>2, EventTyped
  <2> QED  BY <2>1, SequenceTyped
<1> HIDE DEF sh1, sh2, h1, h2, h3, old, closes
<1>9. Leads(Desk, s1, Layout(h1, shown, focus, place, urgent))
  <2>1. ~Exists(m) => Follows(Desk, WorkspaceEvent("init", m, from),
                              Layout(h1, shown, focus, place, urgent))
    BY InitFollows DEF Exists, Desk, h1
  <2> QED  BY <1>4, <1>5, <2>1, LeadsIf DEF Desk
<1>10. Leads(Layout(h1, shown, focus, place, urgent), <<e2>>,
             Layout(h1, sh1, m, place, urgent))
  <2>1. sh1 = [shown EXCEPT ![h1[m]] = m] /\ h1[m] # None
    BY <1>2, <1>5 DEF sh1
  <2> QED  BY <1>4, <2>1, FocusFollows, LeadsByOne
<1>11. Leads(Layout(h1, sh1, m, place, urgent), <<e3>>, Layout(h2, sh1, m, place, urgent))
  <2>1. Follows(Layout(h1, sh1, m, place, urgent), e3, Layout(h2, sh1, m, place, urgent))
    BY <1>5, MoveFollows DEF h2
  <2> QED  BY <1>4, <2>1, LeadsByOne
<1>12. Leads(Layout(h2, sh1, m, place, urgent), <<e4>>, Layout(h2, sh2, focus, place, urgent))
  <2>1. Follows(Layout(h2, sh1, m, place, urgent), e4,
                Layout(h2, [sh1 EXCEPT ![h2[focus]] = focus], focus, place, urgent))
    BY <1>2, <1>5, FocusFollows
  <2> QED  BY <1>4, <1>5, <2>1, LeadsByOne
<1>13. Leads(Layout(h2, sh2, focus, place, urgent), s5, Layout(h3, sh2, focus, place, urgent))
  <2>1. closes => Follows(Layout(h2, sh2, focus, place, urgent), WorkspaceEvent("empty", old, o),
                          Layout(h3, sh2, focus, place, urgent))
    <3>1. SUFFICES ASSUME closes
                   PROVE  Follows(Layout(h2, sh2, focus, place, urgent),
                                  WorkspaceEvent("empty", old, o),
                                  Layout([h2 EXCEPT ![old] = None], sh2, focus, place, urgent))
      BY <1>6
    <3>2. /\ h2[old] # None /\ focus # old
          /\ \A q \in Outputs : sh2[q] # old
          /\ \A w \in Windows : place[w] # old
      BY <1>2, <1>6, <3>1
    <3> QED  BY <3>2, EmptyFollows
  <2> QED  BY <1>4, <1>7, <2>1, LeadsIf
<1> HIDE DEF s1, s5, e2, e3, e4
<1>14. <<e2, e3, e4>> = <<e2>> \o <<e3>> \o <<e4>> /\ <<e2, e3, e4>> \in Seq(Messages)
  BY <1>8, ThreeEvents
<1>15. <<e2>> \in Seq(Messages) /\ <<e3>> \in Seq(Messages) /\ <<e4>> \in Seq(Messages)
  BY <1>8, SequenceTyped
<1>16. Leads(Layout(h1, shown, focus, place, urgent), <<e2, e3, e4>>,
             Layout(h2, sh2, focus, place, urgent))
  <2>1. Leads(Layout(h1, shown, focus, place, urgent), <<e2>> \o <<e3>>,
              Layout(h2, sh1, m, place, urgent))
    BY <1>10, <1>11, <1>15, LeadsOn
  <2>2. <<e2>> \o <<e3>> \in Seq(Messages)
    BY <1>15, SequenceTyped
  <2>3. Leads(Layout(h1, shown, focus, place, urgent), <<e2>> \o <<e3>> \o <<e4>>,
              Layout(h2, sh2, focus, place, urgent))
    BY <1>12, <1>15, <2>1, <2>2, LeadsOn
  <2> QED  BY <1>14, <2>3
<1>17. Leads(Desk, s1 \o <<e2, e3, e4>> \o s5, Layout(h3, sh2, focus, place, urgent))
  <2>1. Leads(Desk, s1 \o <<e2, e3, e4>>, Layout(h2, sh2, focus, place, urgent))
    BY <1>8, <1>9, <1>14, <1>16, LeadsOn
  <2> QED  BY <1>8, <1>13, <1>14, <2>1, LeadsOn, SequenceTyped
<1>18. s1 \o <<e2, e3, e4>> \o s5 \in Seq(Messages)
  BY <1>8, <1>14, SequenceTyped
<1>19. Told /\ events' \in Seq(Messages) /\ Len(events') <= MaxEvents
  BY <1>1, <1>17, <1>18, EventsTyped DEF Told, Desk
<1>20. Ordered'
  <2>1. h3[focus] = o /\ sh2[o] = focus
    BY <1>2, OrderedTypes DEF h3, sh2
  <2>2. ASSUME NEW q \in Outputs
        PROVE  h3[sh2[q]] = q
    <3>1. CASE q = o
      BY <2>1, <3>1
    <3>2. CASE q = from
      <4>1. sh2[q] = m
        BY <1>1, <1>2, <3>2, OrderedTypes DEF sh2
      <4> QED  BY <1>1, <3>2, <4>1 DEF h3
    <3>3. CASE q # o /\ q # from
      <4>1. sh2[q] = shown[q] /\ home[shown[q]] = q /\ shown[q] \in Workspaces /\ q # None
        BY <1>2, <3>3, OrderedTypes DEF Ordered, sh2
      <4>2. shown[q] # focus /\ shown[q] # m /\ shown[q] # old
        BY <1>1, <1>2, <3>3, <4>1
      <4> QED  BY <4>1, <4>2 DEF h3
    <3> QED  BY <3>1, <3>2, <3>3
  <2>3. ASSUME NEW w \in Windows, place[w] # None
        PROVE  h3[place[w]] # None
    <3>1. place[w] \in Workspaces /\ home[place[w]] # None
      BY <2>3, OrderedTypes DEF Ordered
    <3> QED  BY <1>2, <1>6, <3>1 DEF h3
  <2>4. /\ \A n \in Workspaces : top[n] # None => place[top[n]] = n
        /\ \A w \in urgent : place[w] # None
    BY DEF Ordered
  <2> QED  BY <1>1, <1>2, <1>3, <1>19, <2>1, <2>2, <2>3, <2>4, OrderedTypes DEF Ordered
<1> QED  BY <1>19, <1>20

------------------------------------------------------------------------------
(* The desktop *)

\* Every desktop i3 comes to is in order, and its events tell how.
LEMMA ManagerStep ==
  ASSUME Ordered, WMNext
  PROVE  Ordered' /\ (HiddenMoves \/ Told)
BY SwitchStep, OpenStep, CloseStep, FocusStep, AlertStep, MoveWindowStep, MoveWorkspaceStep
   DEF WMNext

LEMMA ManagerInit == WMInit => Ordered
<1> SUFFICES ASSUME WMInit PROVE Ordered
  OBVIOUS
<1>1. /\ home = [n \in Workspaces |-> IF n \in Outputs THEN n ELSE None]
      /\ shown = [o \in Outputs |-> o] /\ focus = 1
      /\ place = [w \in Windows |-> None] /\ top = [n \in Workspaces |-> None]
      /\ urgent = {} /\ events = <<>>
  BY DEF WMInit
<1>2. /\ home \in [Workspaces -> Outputs \cup {None}] /\ shown \in [Outputs -> Workspaces]
      /\ focus \in Workspaces /\ place \in [Windows -> Workspaces \cup {None}]
      /\ top \in [Workspaces -> Windows \cup {None}] /\ urgent \in SUBSET Windows
  BY <1>1, Numbered
<1>3. events \in Seq(Messages) /\ Len(events) <= MaxEvents
  BY <1>1, ManagerAssumption
<1>4. \A o \in Outputs : home[shown[o]] = o
  BY <1>1, Numbered
<1>5. home[focus] # None /\ shown[home[focus]] = focus
  BY <1>1, Numbered
<1> QED  BY <1>1, <1>2, <1>3, <1>4, <1>5 DEF Ordered

------------------------------------------------------------------------------
(* Maps *)

LEMMA MapTyped ==
  ASSUME NEW K, NEW V, NEW f \in Partial(K, V)
  PROVE  /\ DOMAIN f \subseteq K
         /\ f = [x \in DOMAIN f |-> f[x]]
         /\ \A x \in DOMAIN f : f[x] \in V
BY DEF Partial

LEMMA MapOf ==
  ASSUME NEW K, NEW V, NEW D \in SUBSET K, NEW f \in [D -> V]
  PROVE  f \in Partial(K, V)
BY DEF Partial

LEMMA MapAdds ==
  ASSUME NEW K, NEW V, NEW f \in Partial(K, V), NEW k \in K, NEW v \in V
  PROVE  Emplace(f, k, v) \in Partial(K, V)
<1>1. Emplace(f, k, v) \in [DOMAIN f \cup {k} -> V] /\ DOMAIN f \cup {k} \in SUBSET K
  BY MapTyped DEF Emplace
<1> QED  BY <1>1, MapOf

LEMMA MapSets ==
  ASSUME NEW K, NEW V, NEW f \in Partial(K, V), NEW k \in DOMAIN f, NEW v \in V
  PROVE  [f EXCEPT ![k] = v] \in Partial(K, V)
BY DEF Partial

LEMMA MapCuts ==
  ASSUME NEW K, NEW V, NEW f \in Partial(K, V), NEW S \in SUBSET DOMAIN f
  PROVE  /\ Restrict(f, S) \in Partial(K, V)
         /\ DOMAIN Restrict(f, S) = S
         /\ \A x \in S : Restrict(f, S)[x] = f[x]
<1>1. Restrict(f, S) \in [S -> V] /\ S \in SUBSET K
  BY MapTyped DEF Restrict
<1>2. Restrict(f, S) \in Partial(K, V)
  BY <1>1, MapOf
<1> QED  BY <1>2 DEF Restrict

------------------------------------------------------------------------------
(* Trees *)

Tree(f, o, n, w, c) ==
  [fate |-> f, outputs |-> o, workspaces |-> n, windows |-> w, focused |-> c]

Struct == [output : Outputs, urgent : BOOLEAN, focused_window : ToWindow,
           last_urgent_window : ToWindow]

LEMMA TreeTyped ==
  ASSUME NEW t \in Trees
  PROVE  /\ t = Tree(t.fate, t.outputs, t.workspaces, t.windows, t.focused)
         /\ t.fate \in {"fine", "thrown", "wild"}
         /\ t.outputs \in Partial(Outputs, ToWorkspace)
         /\ t.workspaces \in Partial(Workspaces, Struct)
         /\ t.windows \in Partial(Windows, ToWorkspace)
         /\ t.focused \in ToWorkspace
BY DEF Trees, Tree, Struct

LEMMA TreeOf ==
  ASSUME NEW f \in {"fine", "thrown", "wild"},
         NEW o \in Partial(Outputs, ToWorkspace), NEW n \in Partial(Workspaces, Struct),
         NEW w \in Partial(Windows, ToWorkspace), NEW c \in ToWorkspace
  PROVE  Tree(f, o, n, w, c) \in Trees
BY DEF Trees, Tree, Struct

LEMMA TreeSetsBoth ==
  ASSUME NEW t \in Trees, NEW n, NEW w
  PROVE  [t EXCEPT !.workspaces = n, !.windows = w] = Tree(t.fate, t.outputs, n, w, t.focused)
<1>1. [t EXCEPT !.workspaces = n, !.windows = w] =
        [[t EXCEPT !.workspaces = n] EXCEPT !.windows = w]
  OBVIOUS
<1>2. [t EXCEPT !.workspaces = n] = Tree(t.fate, t.outputs, n, t.windows, t.focused)
  BY TreeTyped DEF Tree
<1>3. [Tree(t.fate, t.outputs, n, t.windows, t.focused) EXCEPT !.windows = w] =
        Tree(t.fate, t.outputs, n, w, t.focused)
  BY DEF Tree
<1> QED  BY <1>1, <1>2, <1>3

LEMMA InitEffect ==
  ASSUME NEW t \in Trees, NEW n, NEW o, o \in DOMAIN t.outputs
  PROVE  WorkspaceInit(t, n, o) =
           Tree(t.fate, t.outputs,
                Emplace(t.workspaces, n, [output |-> o, urgent |-> FALSE, focused_window |-> Null,
                                           last_urgent_window |-> Null]),
                t.windows, t.focused)
BY TreeTyped DEF WorkspaceInit, At, Tree

LEMMA VisibleEffect ==
  ASSUME NEW t \in Trees, NEW n, n \in DOMAIN t.workspaces
  PROVE  WorkspaceVisible(t, n) =
           Tree(t.fate, [t.outputs EXCEPT ![t.workspaces[n].output] = n],
                t.workspaces, t.windows, t.focused)
BY TreeTyped DEF WorkspaceVisible, At, Tree

LEMMA FocusEffect ==
  ASSUME NEW t \in Trees, NEW n, n \in DOMAIN t.workspaces
  PROVE  WorkspaceFocus(t, n) = Tree(t.fate, t.outputs, t.workspaces, t.windows, n)
BY TreeTyped DEF WorkspaceFocus, At, Tree

LEMMA UrgentEffect ==
  ASSUME NEW t \in Trees, NEW n, NEW flag, n \in DOMAIN t.workspaces
  PROVE  WorkspaceUrgent(t, n, flag) =
           Tree(t.fate, t.outputs,
                [t.workspaces EXCEPT ![n] = [@ EXCEPT !.urgent = flag]], t.windows, t.focused)
BY TreeTyped DEF WorkspaceUrgent, At, Tree

LEMMA MoveEffect ==
  ASSUME NEW t \in Trees, NEW n, NEW o, n \in DOMAIN t.workspaces, o \in DOMAIN t.outputs
  PROVE  WorkspaceMove(t, n, o) =
           Tree(t.fate, t.outputs,
                [t.workspaces EXCEPT ![n] = [@ EXCEPT !.output = o]], t.windows, t.focused)
BY TreeTyped DEF WorkspaceMove, At, Tree

LEMMA EmptyEffect ==
  ASSUME NEW t \in Trees, NEW n, n \in DOMAIN t.workspaces,
         ~IsWild(t.outputs[t.workspaces[n].output])
  PROVE  WorkspaceEmpty(t, n) =
           Tree(t.fate,
                [o \in DOMAIN t.outputs |-> Without(t.outputs[o], n)],
                Restrict(t.workspaces, DOMAIN t.workspaces \ {n}),
                [w \in DOMAIN t.windows |-> Without(t.windows[w], n)],
                Without(t.focused, n))
<1> DEFINE outputs    == [o \in DOMAIN t.outputs |-> Without(t.outputs[o], n)]
           workspaces == Restrict(t.workspaces, DOMAIN t.workspaces \ {n})
           windows    == [w \in DOMAIN t.windows |-> Without(t.windows[w], n)]
<1>1. WorkspaceEmpty(t, n) =
        [t EXCEPT !.workspaces = workspaces, !.outputs = outputs, !.windows = windows,
                  !.focused = Without(t.focused, n)]
  BY DEF WorkspaceEmpty, At, Follow
<1> HIDE DEF outputs, workspaces, windows
<1>2. [t EXCEPT !.workspaces = workspaces, !.outputs = outputs, !.windows = windows,
                !.focused = Without(t.focused, n)] =
        Tree(t.fate, outputs, workspaces, windows, Without(t.focused, n))
  <2>1. [t EXCEPT !.workspaces = workspaces, !.outputs = outputs, !.windows = windows,
                  !.focused = Without(t.focused, n)] =
        [[[[t EXCEPT !.workspaces = workspaces] EXCEPT !.outputs = outputs]
             EXCEPT !.windows = windows] EXCEPT !.focused = Without(t.focused, n)]
    OBVIOUS
  <2>2. [t EXCEPT !.workspaces = workspaces] =
          Tree(t.fate, t.outputs, workspaces, t.windows, t.focused)
    BY TreeTyped DEF Tree
  <2>3. [Tree(t.fate, t.outputs, workspaces, t.windows, t.focused) EXCEPT !.outputs = outputs] =
          Tree(t.fate, outputs, workspaces, t.windows, t.focused)
    BY DEF Tree
  <2>4. [Tree(t.fate, outputs, workspaces, t.windows, t.focused) EXCEPT !.windows = windows] =
          Tree(t.fate, outputs, workspaces, windows, t.focused)
    BY DEF Tree
  <2>5. [Tree(t.fate, outputs, workspaces, windows, t.focused)
           EXCEPT !.focused = Without(t.focused, n)] =
          Tree(t.fate, outputs, workspaces, windows, Without(t.focused, n))
    BY DEF Tree
  <2> QED  BY <2>1, <2>2, <2>3, <2>4, <2>5
<1> QED  BY <1>1, <1>2 DEF outputs, workspaces, windows

LEMMA OpenEffect ==
  ASSUME NEW t \in Trees, NEW w, NEW o, o \in DOMAIN t.outputs
  PROVE  WindowOpen(t, w, o) =
           Tree(t.fate, t.outputs, t.workspaces, Emplace(t.windows, w, t.outputs[o]), t.focused)
BY TreeTyped DEF WindowOpen, At, Tree

LEMMA ShowEffect ==
  ASSUME NEW t \in Trees, NEW w, w \in DOMAIN t.windows, ~IsWild(t.windows[w])
  PROVE  WindowVisible(t, w) =
           Tree(t.fate, t.outputs,
                [t.workspaces EXCEPT ![t.windows[w]] = [@ EXCEPT !.focused_window = w]],
                t.windows, t.focused)
BY TreeTyped DEF WindowVisible, At, Follow, Tree

LEMMA AlertEffect ==
  ASSUME NEW t \in Trees, NEW w, NEW flag, w \in DOMAIN t.windows, ~IsWild(t.windows[w])
  PROVE  WindowUrgent(t, w, flag) =
           Tree(t.fate, t.outputs,
                [t.workspaces EXCEPT ![t.windows[w]] =
                   [@ EXCEPT !.last_urgent_window =
                      LastUrgent(t.workspaces[t.windows[w]].last_urgent_window, w, flag)]],
                t.windows, t.focused)
<1> DEFINE workspaces == [t.workspaces EXCEPT ![t.windows[w]] =
                            [@ EXCEPT !.last_urgent_window =
                               LastUrgent(t.workspaces[t.windows[w]].last_urgent_window,
                                          w, flag)]]
<1>1. WindowUrgent(t, w, flag) = [t EXCEPT !.workspaces = workspaces]
  BY DEF WindowUrgent, At, Follow, LastUrgent
<1> HIDE DEF workspaces
<1>2. [t EXCEPT !.workspaces = workspaces] =
        Tree(t.fate, t.outputs, workspaces, t.windows, t.focused)
  BY TreeTyped DEF Tree
<1> QED  BY <1>1, <1>2 DEF workspaces

LEMMA SendEffect ==
  ASSUME NEW t \in Trees, NEW w, NEW o, w \in DOMAIN t.windows, ~IsWild(t.windows[w]),
         o \in DOMAIN t.outputs
  PROVE  WindowMove(t, w, o) =
           Tree(t.fate, t.outputs,
                [t.workspaces EXCEPT ![t.windows[w]] = [@ EXCEPT !.focused_window = Null]],
                [t.windows EXCEPT ![w] = t.outputs[o]], t.focused)
<1> DEFINE workspaces == [t.workspaces EXCEPT ![t.windows[w]] = [@ EXCEPT !.focused_window = Null]]
           windows    == [t.windows EXCEPT ![w] = t.outputs[o]]
<1>1. WindowMove(t, w, o) = [t EXCEPT !.workspaces = workspaces, !.windows = windows]
  BY DEF WindowMove, At, Follow
<1> HIDE DEF workspaces, windows
<1> QED  BY <1>1, TreeSetsBoth DEF workspaces, windows

Forgot(ws, w) == [ws EXCEPT !.focused_window = Without(@, w), !.last_urgent_window = Without(@, w)]

LEMMA CloseEffect ==
  ASSUME NEW t \in Trees, NEW w, w \in DOMAIN t.windows, ~IsWild(t.windows[w])
  PROVE  WindowClose(t, w) =
           Tree(t.fate, t.outputs,
                [n \in DOMAIN t.workspaces |->
                   Forgot(IF n # t.windows[w] THEN t.workspaces[n]
                          ELSE [t.workspaces[n] EXCEPT
                                  !.focused_window = Null,
                                  !.last_urgent_window = LastUrgent(@, w, FALSE)], w)],
                Restrict(t.windows, DOMAIN t.windows \ {w}), t.focused)
<1> DEFINE workspaces == [n \in DOMAIN t.workspaces |->
                            Forgot(IF n # t.windows[w] THEN t.workspaces[n]
                                   ELSE [t.workspaces[n] EXCEPT
                                           !.focused_window = Null,
                                           !.last_urgent_window = LastUrgent(@, w, FALSE)], w)]
           windows    == Restrict(t.windows, DOMAIN t.windows \ {w})
<1>1. WindowClose(t, w) = [t EXCEPT !.windows = windows, !.workspaces = workspaces]
  BY DEF WindowClose, At, Follow, Forgot
<1> HIDE DEF workspaces, windows
<1>2. [t EXCEPT !.windows = windows, !.workspaces = workspaces] =
        [t EXCEPT !.workspaces = workspaces, !.windows = windows]
  OBVIOUS
<1>3. WindowClose(t, w) = Tree(t.fate, t.outputs, workspaces, windows, t.focused)
  BY <1>1, <1>2, TreeSetsBoth
<1> QED  BY <1>3 DEF workspaces, windows

------------------------------------------------------------------------------
(* Well-formed trees *)

\* Where the pointers of a tree lead.
Sound(o, n, w, c) ==
  /\ PointsInto(c, n)
  /\ \A x \in DOMAIN o : PointsInto(o[x], n)
  /\ \A x \in DOMAIN w : PointsInto(w[x], n)
  /\ \A x \in DOMAIN n : /\ n[x].output \in DOMAIN o
                         /\ PointsInto(n[x].focused_window, w)
                         /\ PointsInto(n[x].last_urgent_window, w)

LEMMA WellFormedParts ==
  ASSUME NEW t, WellFormed(t)
  PROVE  /\ t \in Trees
         /\ t.fate \in {"fine", "thrown", "wild"}
         /\ t.outputs \in Partial(Outputs, ToWorkspace)
         /\ t.workspaces \in Partial(Workspaces, Struct)
         /\ t.windows \in Partial(Windows, ToWorkspace)
         /\ t.focused \in ToWorkspace
         /\ Sound(t.outputs, t.workspaces, t.windows, t.focused)
BY TreeTyped DEF WellFormed, Sound

LEMMA WellFormedOf ==
  ASSUME NEW f \in {"fine", "thrown", "wild"},
         NEW o \in Partial(Outputs, ToWorkspace), NEW n \in Partial(Workspaces, Struct),
         NEW w \in Partial(Windows, ToWorkspace), NEW c \in ToWorkspace,
         Sound(o, n, w, c)
  PROVE  WellFormed(Tree(f, o, n, w, c))
<1>1. Tree(f, o, n, w, c) \in Trees
  BY TreeOf
<1>2. /\ Tree(f, o, n, w, c).outputs = o /\ Tree(f, o, n, w, c).workspaces = n
      /\ Tree(f, o, n, w, c).windows = w /\ Tree(f, o, n, w, c).focused = c
  BY DEF Tree
<1> QED  BY <1>1, <1>2 DEF WellFormed, Sound

\* A miss, or following a pointer that leads nowhere, changes nothing but the fate.
LEMMA FateWellFormed ==
  ASSUME NEW t, WellFormed(t), NEW f \in {"fine", "thrown", "wild"}
  PROVE  WellFormed([t EXCEPT !.fate = f])
<1>1. [t EXCEPT !.fate = f] = Tree(f, t.outputs, t.workspaces, t.windows, t.focused)
  BY WellFormedParts, TreeTyped DEF Tree
<1> QED  BY <1>1, WellFormedParts, WellFormedOf

LEMMA StructTyped ==
  ASSUME NEW ws \in Struct
  PROVE  /\ ws.output \in Outputs /\ ws.urgent \in BOOLEAN
         /\ ws.focused_window \in ToWindow /\ ws.last_urgent_window \in ToWindow
<1>1. ws.urgent \in BOOLEAN
  BY DEF Struct
<1>2. /\ ws.output \in Outputs
      /\ ws.focused_window \in ToWindow /\ ws.last_urgent_window \in ToWindow
  BY DEF Struct
<1> QED  BY <1>1, <1>2

LEMMA StructSets ==
  ASSUME NEW ws \in Struct
  PROVE  /\ \A o \in Outputs :
              LET v == [ws EXCEPT !.output = o]
              IN  /\ v \in Struct /\ v.output = o
                  /\ v.focused_window = ws.focused_window
                  /\ v.last_urgent_window = ws.last_urgent_window
         /\ \A flag \in BOOLEAN :
              LET v == [ws EXCEPT !.urgent = flag]
              IN  /\ v \in Struct /\ v.output = ws.output
                  /\ v.focused_window = ws.focused_window
                  /\ v.last_urgent_window = ws.last_urgent_window
         /\ \A w \in ToWindow :
              LET v == [ws EXCEPT !.focused_window = w]
              IN  /\ v \in Struct /\ v.output = ws.output
                  /\ v.focused_window = w
                  /\ v.last_urgent_window = ws.last_urgent_window
         /\ \A w \in ToWindow :
              LET v == [ws EXCEPT !.last_urgent_window = w]
              IN  /\ v \in Struct /\ v.output = ws.output
                  /\ v.focused_window = ws.focused_window
                  /\ v.last_urgent_window = w
<1>1. \A o \in Outputs :
        LET v == [ws EXCEPT !.output = o]
        IN  /\ v \in Struct /\ v.output = o
            /\ v.focused_window = ws.focused_window
            /\ v.last_urgent_window = ws.last_urgent_window
  BY DEF Struct
<1>2. \A flag \in BOOLEAN :
        LET v == [ws EXCEPT !.urgent = flag]
        IN  /\ v \in Struct /\ v.output = ws.output
            /\ v.focused_window = ws.focused_window
            /\ v.last_urgent_window = ws.last_urgent_window
  BY DEF Struct
<1>3. \A w \in ToWindow :
        LET v == [ws EXCEPT !.focused_window = w]
        IN  /\ v \in Struct /\ v.output = ws.output
            /\ v.focused_window = w
            /\ v.last_urgent_window = ws.last_urgent_window
  BY DEF Struct
<1>4. \A w \in ToWindow :
        LET v == [ws EXCEPT !.last_urgent_window = w]
        IN  /\ v \in Struct /\ v.output = ws.output
            /\ v.focused_window = ws.focused_window
            /\ v.last_urgent_window = w
  BY DEF Struct
<1> QED  BY <1>1, <1>2, <1>3, <1>4

LEMMA PutWellFormed ==
  ASSUME NEW t, WellFormed(t), NEW k \in DOMAIN t.workspaces, NEW v \in Struct,
         v.output \in DOMAIN t.outputs,
         PointsInto(v.focused_window, t.windows), PointsInto(v.last_urgent_window, t.windows)
  PROVE  WellFormed(Tree(t.fate, t.outputs, [t.workspaces EXCEPT ![k] = v],
                         t.windows, t.focused))
<1> DEFINE n == [t.workspaces EXCEPT ![k] = v]
<1>1. n \in Partial(Workspaces, Struct)
  BY WellFormedParts, MapSets
<1>2. /\ DOMAIN n = DOMAIN t.workspaces /\ n[k] = v
      /\ \A x \in DOMAIN n : x # k => n[x] = t.workspaces[x]
  OBVIOUS
<1> HIDE DEF n
<1>3. Sound(t.outputs, n, t.windows, t.focused)
  BY <1>2, WellFormedParts DEF Sound, PointsInto
<1> QED  BY <1>1, <1>3, WellFormedParts, WellFormedOf DEF n

------------------------------------------------------------------------------
(* Operations on well-formed trees *)

LEMMA Pointers ==
  /\ Null \in ToWorkspace /\ Dangling \in ToWorkspace /\ Workspaces \subseteq ToWorkspace
  /\ Null \in ToWindow /\ Dangling \in ToWindow /\ Windows \subseteq ToWindow
  /\ IsWild(Null) /\ IsWild(Dangling)
  /\ \A n \in Workspaces : ~IsWild(n)
  /\ \A w \in Windows : ~IsWild(w)
BY PointerAssumption DEF ToWorkspace, ToWindow, IsWild

LEMMA WorkspaceInitWellFormed ==
  ASSUME NEW t, WellFormed(t), NEW n \in Workspaces, NEW o \in Outputs
  PROVE  WellFormed(WorkspaceInit(t, n, o))
<1> DEFINE ws         == [output |-> o, urgent |-> FALSE, focused_window |-> Null,
                          last_urgent_window |-> Null]
           workspaces == Emplace(t.workspaces, n, ws)
<1>1. CASE o \in DOMAIN t.outputs
  <2>1. ws \in Struct /\ ws.output = o /\ ws.focused_window = Null /\ ws.last_urgent_window = Null
    BY Pointers DEF Struct
  <2> HIDE DEF ws
  <2>2. /\ workspaces \in Partial(Workspaces, Struct)
        /\ DOMAIN workspaces = DOMAIN t.workspaces \cup {n}
        /\ \A x \in DOMAIN t.workspaces : workspaces[x] = t.workspaces[x]
        /\ n \notin DOMAIN t.workspaces => workspaces[n] = ws
    <3>1. t.workspaces \in Partial(Workspaces, Struct)
      BY WellFormedParts
    <3>2. workspaces \in Partial(Workspaces, Struct)
      BY <2>1, <3>1, MapAdds
    <3> QED  BY <3>2 DEF Emplace
  <2>3. WorkspaceInit(t, n, o) = Tree(t.fate, t.outputs, workspaces, t.windows, t.focused)
    BY <1>1, WellFormedParts, InitEffect DEF ws
  <2> HIDE DEF workspaces
  <2>4. Sound(t.outputs, workspaces, t.windows, t.focused)
    BY <1>1, <2>1, <2>2, WellFormedParts, Pointers DEF Sound, PointsInto
  <2> QED  BY <2>2, <2>3, <2>4, WellFormedParts, WellFormedOf
<1>2. CASE o \notin DOMAIN t.outputs
  BY <1>2, FateWellFormed DEF WorkspaceInit, At
<1> QED  BY <1>1, <1>2

LEMMA WorkspaceVisibleWellFormed ==
  ASSUME NEW t, WellFormed(t), NEW n \in Workspaces
  PROVE  WellFormed(WorkspaceVisible(t, n))
<1>1. CASE n \in DOMAIN t.workspaces
  <2> DEFINE outputs == [t.outputs EXCEPT ![t.workspaces[n].output] = n]
  <2>1. WorkspaceVisible(t, n) = Tree(t.fate, outputs, t.workspaces, t.windows, t.focused)
    BY <1>1, WellFormedParts, VisibleEffect
  <2>2. t.workspaces[n].output \in DOMAIN t.outputs
    BY <1>1, WellFormedParts DEF Sound
  <2>3. outputs \in Partial(Outputs, ToWorkspace)
    BY <2>2, WellFormedParts, MapSets, Pointers
  <2>4. /\ DOMAIN outputs = DOMAIN t.outputs
        /\ \A x \in DOMAIN outputs : outputs[x] \in {n, t.outputs[x]}
    OBVIOUS
  <2> HIDE DEF outputs
  <2>5. Sound(outputs, t.workspaces, t.windows, t.focused)
    BY <1>1, <2>4, WellFormedParts DEF Sound, PointsInto
  <2> QED  BY <2>1, <2>3, <2>5, WellFormedParts, WellFormedOf
<1>2. CASE n \notin DOMAIN t.workspaces
  BY <1>2, FateWellFormed DEF WorkspaceVisible, At
<1> QED  BY <1>1, <1>2

LEMMA WorkspaceFocusWellFormed ==
  ASSUME NEW t, WellFormed(t), NEW n \in Workspaces
  PROVE  WellFormed(WorkspaceFocus(t, n))
<1>1. CASE n \in DOMAIN t.workspaces
  <2>1. WorkspaceFocus(t, n) = Tree(t.fate, t.outputs, t.workspaces, t.windows, n)
    BY <1>1, WellFormedParts, FocusEffect
  <2>2. Sound(t.outputs, t.workspaces, t.windows, n)
    BY <1>1, WellFormedParts DEF Sound, PointsInto
  <2> QED  BY <2>1, <2>2, WellFormedParts, WellFormedOf, Pointers
<1>2. CASE n \notin DOMAIN t.workspaces
  BY <1>2, FateWellFormed DEF WorkspaceFocus, At
<1> QED  BY <1>1, <1>2

LEMMA WorkspaceUrgentWellFormed ==
  ASSUME NEW t, WellFormed(t), NEW n \in Workspaces, NEW flag \in BOOLEAN
  PROVE  WellFormed(WorkspaceUrgent(t, n, flag))
<1>1. CASE n \in DOMAIN t.workspaces
  <2> DEFINE v == [t.workspaces[n] EXCEPT !.urgent = flag]
  <2>1. WorkspaceUrgent(t, n, flag) =
          Tree(t.fate, t.outputs, [t.workspaces EXCEPT ![n] = v], t.windows, t.focused)
    BY <1>1, WellFormedParts, UrgentEffect
  <2>2. t.workspaces[n] \in Struct
    BY <1>1, WellFormedParts, MapTyped
  <2>3. /\ v \in Struct /\ v.output = t.workspaces[n].output
        /\ v.focused_window = t.workspaces[n].focused_window
        /\ v.last_urgent_window = t.workspaces[n].last_urgent_window
    BY <2>2, StructSets
  <2> HIDE DEF v
  <2>4. /\ v.output \in DOMAIN t.outputs
        /\ PointsInto(v.focused_window, t.windows) /\ PointsInto(v.last_urgent_window, t.windows)
    BY <1>1, <2>3, WellFormedParts DEF Sound
  <2> QED  BY <1>1, <2>1, <2>3, <2>4, PutWellFormed
<1>2. CASE n \notin DOMAIN t.workspaces
  BY <1>2, FateWellFormed DEF WorkspaceUrgent, At
<1> QED  BY <1>1, <1>2

LEMMA WorkspaceMoveWellFormed ==
  ASSUME NEW t, WellFormed(t), NEW n \in Workspaces, NEW o \in Outputs
  PROVE  WellFormed(WorkspaceMove(t, n, o))
<1>1. CASE n \in DOMAIN t.workspaces /\ o \in DOMAIN t.outputs
  <2> DEFINE v == [t.workspaces[n] EXCEPT !.output = o]
  <2>1. WorkspaceMove(t, n, o) =
          Tree(t.fate, t.outputs, [t.workspaces EXCEPT ![n] = v], t.windows, t.focused)
    BY <1>1, WellFormedParts, MoveEffect
  <2>2. t.workspaces[n] \in Struct
    BY <1>1, WellFormedParts, MapTyped
  <2>3. /\ v \in Struct /\ v.output = o
        /\ v.focused_window = t.workspaces[n].focused_window
        /\ v.last_urgent_window = t.workspaces[n].last_urgent_window
    BY <2>2, StructSets
  <2> HIDE DEF v
  <2>4. /\ v.output \in DOMAIN t.outputs
        /\ PointsInto(v.focused_window, t.windows) /\ PointsInto(v.last_urgent_window, t.windows)
    BY <1>1, <2>3, WellFormedParts DEF Sound
  <2> QED  BY <1>1, <2>1, <2>3, <2>4, PutWellFormed
<1>2. CASE ~(n \in DOMAIN t.workspaces /\ o \in DOMAIN t.outputs)
  BY <1>2, FateWellFormed DEF WorkspaceMove, At
<1> QED  BY <1>1, <1>2

LEMMA WorkspaceEmptyWellFormed ==
  ASSUME NEW t, WellFormed(t), NEW n \in Workspaces
  PROVE  WellFormed(WorkspaceEmpty(t, n))
<1>1. CASE n \in DOMAIN t.workspaces /\ ~IsWild(t.outputs[t.workspaces[n].output])
  <2> DEFINE outputs    == [o \in DOMAIN t.outputs |-> Without(t.outputs[o], n)]
             workspaces == Restrict(t.workspaces, DOMAIN t.workspaces \ {n})
             windows    == [w \in DOMAIN t.windows |-> Without(t.windows[w], n)]
             focused    == Without(t.focused, n)
  <2>1. WorkspaceEmpty(t, n) = Tree(t.fate, outputs, workspaces, windows, focused)
    BY <1>1, WellFormedParts, EmptyEffect
  <2>2. /\ workspaces \in Partial(Workspaces, Struct)
        /\ DOMAIN workspaces = DOMAIN t.workspaces \ {n}
        /\ \A x \in DOMAIN workspaces : workspaces[x] = t.workspaces[x]
    BY WellFormedParts, MapCuts
  <2>3. outputs \in Partial(Outputs, ToWorkspace)
    <3>1. outputs \in [DOMAIN t.outputs -> ToWorkspace] /\ DOMAIN t.outputs \in SUBSET Outputs
      BY WellFormedParts, MapTyped, Pointers DEF Without
    <3> HIDE DEF outputs
    <3> QED  BY <3>1, MapOf
  <2>4. windows \in Partial(Windows, ToWorkspace)
    <3>1. windows \in [DOMAIN t.windows -> ToWorkspace] /\ DOMAIN t.windows \in SUBSET Windows
      BY WellFormedParts, MapTyped, Pointers DEF Without
    <3> HIDE DEF windows
    <3> QED  BY <3>1, MapOf
  <2>5. focused \in ToWorkspace
    BY WellFormedParts, Pointers DEF Without
  <2>6. Sound(outputs, workspaces, windows, focused)
    <3>1. \A ptr : PointsInto(ptr, t.workspaces) => PointsInto(Without(ptr, n), workspaces)
      <4> HIDE DEF workspaces
      <4> QED  BY <2>2, Pointers DEF PointsInto, Without
    <3>2. /\ DOMAIN outputs = DOMAIN t.outputs /\ DOMAIN windows = DOMAIN t.windows
          /\ \A x \in DOMAIN outputs : outputs[x] = Without(t.outputs[x], n)
          /\ \A x \in DOMAIN windows : windows[x] = Without(t.windows[x], n)
      OBVIOUS
    <3> HIDE DEF outputs, workspaces, windows
    <3>3. \A x \in DOMAIN workspaces : /\ workspaces[x].output \in DOMAIN outputs
                                       /\ PointsInto(workspaces[x].focused_window, windows)
                                       /\ PointsInto(workspaces[x].last_urgent_window, windows)
      BY <2>2, <3>2, WellFormedParts DEF Sound, PointsInto
    <3> QED  BY <3>1, <3>2, <3>3, WellFormedParts DEF Sound
  <2> HIDE DEF outputs, workspaces, windows, focused
  <2> QED  BY <2>1, <2>2, <2>3, <2>4, <2>5, <2>6, WellFormedParts, WellFormedOf
<1>2. CASE ~(n \in DOMAIN t.workspaces /\ ~IsWild(t.outputs[t.workspaces[n].output]))
  BY <1>2, FateWellFormed DEF WorkspaceEmpty, At, Follow
<1> QED  BY <1>1, <1>2

LEMMA WindowOpenWellFormed ==
  ASSUME NEW t, WellFormed(t), NEW w \in Windows, NEW o \in Outputs
  PROVE  WellFormed(WindowOpen(t, w, o))
<1> DEFINE windows == Emplace(t.windows, w, t.outputs[o])
<1>1. CASE o \in DOMAIN t.outputs
  <2>1. t.outputs[o] \in ToWorkspace /\ PointsInto(t.outputs[o], t.workspaces)
    BY <1>1, WellFormedParts, MapTyped DEF Sound
  <2>2. /\ windows \in Partial(Windows, ToWorkspace)
        /\ DOMAIN windows = DOMAIN t.windows \cup {w}
        /\ \A x \in DOMAIN t.windows : windows[x] = t.windows[x]
        /\ w \notin DOMAIN t.windows => windows[w] = t.outputs[o]
    <3>1. t.windows \in Partial(Windows, ToWorkspace)
      BY WellFormedParts
    <3>2. windows \in Partial(Windows, ToWorkspace)
      BY <2>1, <3>1, MapAdds
    <3> QED  BY <3>2 DEF Emplace
  <2>3. WindowOpen(t, w, o) = Tree(t.fate, t.outputs, t.workspaces, windows, t.focused)
    BY <1>1, WellFormedParts, OpenEffect
  <2> HIDE DEF windows
  <2>4. Sound(t.outputs, t.workspaces, windows, t.focused)
    BY <2>1, <2>2, WellFormedParts DEF Sound, PointsInto
  <2> QED  BY <2>2, <2>3, <2>4, WellFormedParts, WellFormedOf
<1>2. CASE o \notin DOMAIN t.outputs
  BY <1>2, FateWellFormed DEF WindowOpen, At
<1> QED  BY <1>1, <1>2

\* Where a window is, if its pointer is good.
LEMMA OwnerTyped ==
  ASSUME NEW t, WellFormed(t), NEW w \in DOMAIN t.windows, ~IsWild(t.windows[w])
  PROVE  /\ t.windows[w] \in DOMAIN t.workspaces
         /\ t.workspaces[t.windows[w]] \in Struct
         /\ t.workspaces[t.windows[w]].output \in DOMAIN t.outputs
         /\ PointsInto(t.workspaces[t.windows[w]].focused_window, t.windows)
         /\ PointsInto(t.workspaces[t.windows[w]].last_urgent_window, t.windows)
<1>1. t.windows[w] \in DOMAIN t.workspaces
  BY WellFormedParts DEF Sound, PointsInto
<1> QED  BY <1>1, WellFormedParts, MapTyped DEF Sound

LEMMA WindowVisibleWellFormed ==
  ASSUME NEW t, WellFormed(t), NEW w \in Windows
  PROVE  WellFormed(WindowVisible(t, w))
<1>1. CASE w \in DOMAIN t.windows /\ ~IsWild(t.windows[w])
  <2> DEFINE k == t.windows[w]
             v == [t.workspaces[k] EXCEPT !.focused_window = w]
  <2>1. WindowVisible(t, w) =
          Tree(t.fate, t.outputs, [t.workspaces EXCEPT ![k] = v], t.windows, t.focused)
    BY <1>1, WellFormedParts, ShowEffect
  <2>2. k \in DOMAIN t.workspaces /\ t.workspaces[k] \in Struct
    BY <1>1, OwnerTyped
  <2>3. /\ v \in Struct /\ v.output = t.workspaces[k].output
        /\ v.focused_window = w
        /\ v.last_urgent_window = t.workspaces[k].last_urgent_window
    BY <2>2, StructSets, Pointers
  <2>4. /\ t.workspaces[k].output \in DOMAIN t.outputs
        /\ PointsInto(t.workspaces[k].last_urgent_window, t.windows)
    BY <1>1, OwnerTyped
  <2> HIDE DEF v, k
  <2>5. PointsInto(v.focused_window, t.windows)
    BY <1>1, <2>3 DEF PointsInto
  <2> QED  BY <2>1, <2>2, <2>3, <2>4, <2>5, PutWellFormed
<1>2. CASE ~(w \in DOMAIN t.windows /\ ~IsWild(t.windows[w]))
  BY <1>2, FateWellFormed DEF WindowVisible, At, Follow
<1> QED  BY <1>1, <1>2

LEMMA WindowUrgentWellFormed ==
  ASSUME NEW t, WellFormed(t), NEW w \in Windows, NEW flag
  PROVE  WellFormed(WindowUrgent(t, w, flag))
<1>1. CASE w \in DOMAIN t.windows /\ ~IsWild(t.windows[w])
  <2> DEFINE k    == t.windows[w]
             last == LastUrgent(t.workspaces[k].last_urgent_window, w, flag)
             v    == [t.workspaces[k] EXCEPT !.last_urgent_window = last]
  <2>1. WindowUrgent(t, w, flag) =
          Tree(t.fate, t.outputs, [t.workspaces EXCEPT ![k] = v], t.windows, t.focused)
    BY <1>1, WellFormedParts, AlertEffect
  <2>2. /\ k \in DOMAIN t.workspaces /\ t.workspaces[k] \in Struct
        /\ t.workspaces[k].output \in DOMAIN t.outputs
        /\ PointsInto(t.workspaces[k].focused_window, t.windows)
        /\ PointsInto(t.workspaces[k].last_urgent_window, t.windows)
    BY <1>1, OwnerTyped
  <2>3. last \in ToWindow
    BY <2>2, StructTyped, Pointers DEF LastUrgent
  <2>4. PointsInto(last, t.windows)
    BY <1>1, <2>2, Pointers DEF LastUrgent, PointsInto
  <2> HIDE DEF last
  <2>5. /\ v \in Struct /\ v.output = t.workspaces[k].output
        /\ v.focused_window = t.workspaces[k].focused_window
        /\ v.last_urgent_window = last
    BY <2>2, <2>3, StructSets
  <2> HIDE DEF v, k
  <2> QED  BY <2>1, <2>2, <2>4, <2>5, PutWellFormed
<1>2. CASE ~(w \in DOMAIN t.windows /\ ~IsWild(t.windows[w]))
  BY <1>2, FateWellFormed DEF WindowUrgent, At, Follow
<1> QED  BY <1>1, <1>2

LEMMA WindowMoveWellFormed ==
  ASSUME NEW t, WellFormed(t), NEW w \in Windows, NEW o \in Outputs
  PROVE  WellFormed(WindowMove(t, w, o))
<1>1. CASE w \in DOMAIN t.windows /\ ~IsWild(t.windows[w]) /\ o \in DOMAIN t.outputs
  <2> DEFINE k          == t.windows[w]
             v          == [t.workspaces[k] EXCEPT !.focused_window = Null]
             workspaces == [t.workspaces EXCEPT ![k] = v]
             windows    == [t.windows EXCEPT ![w] = t.outputs[o]]
  <2>1. WindowMove(t, w, o) = Tree(t.fate, t.outputs, workspaces, windows, t.focused)
    BY <1>1, WellFormedParts, SendEffect
  <2>2. /\ k \in DOMAIN t.workspaces /\ t.workspaces[k] \in Struct
        /\ t.workspaces[k].output \in DOMAIN t.outputs
        /\ PointsInto(t.workspaces[k].last_urgent_window, t.windows)
    BY <1>1, OwnerTyped
  <2>3. /\ v \in Struct /\ v.output = t.workspaces[k].output
        /\ v.focused_window = Null
        /\ v.last_urgent_window = t.workspaces[k].last_urgent_window
    BY <2>2, StructSets, Pointers
  <2> HIDE DEF v, k
  <2>4. workspaces \in Partial(Workspaces, Struct)
    BY <2>2, <2>3, WellFormedParts, MapSets
  <2>5. t.outputs[o] \in ToWorkspace /\ PointsInto(t.outputs[o], t.workspaces)
    BY <1>1, WellFormedParts, MapTyped DEF Sound
  <2>6. windows \in Partial(Windows, ToWorkspace)
    BY <1>1, <2>5, WellFormedParts, MapSets
  <2>7. /\ DOMAIN workspaces = DOMAIN t.workspaces /\ workspaces[k] = v
        /\ \A x \in DOMAIN workspaces : x # k => workspaces[x] = t.workspaces[x]
        /\ DOMAIN windows = DOMAIN t.windows
        /\ \A x \in DOMAIN windows : windows[x] \in {t.windows[x], t.outputs[o]}
    BY <2>2
  <2> HIDE DEF workspaces, windows
  <2>8. Sound(t.outputs, workspaces, windows, t.focused)
    <3>1. \A x \in DOMAIN workspaces : /\ workspaces[x].output \in DOMAIN t.outputs
                                       /\ PointsInto(workspaces[x].focused_window, windows)
                                       /\ PointsInto(workspaces[x].last_urgent_window, windows)
      BY <2>2, <2>3, <2>7, WellFormedParts, Pointers DEF Sound, PointsInto
    <3> QED  BY <2>5, <2>7, <3>1, WellFormedParts DEF Sound, PointsInto
  <2> QED  BY <2>1, <2>4, <2>6, <2>8, WellFormedParts, WellFormedOf
<1>2. CASE ~(w \in DOMAIN t.windows /\ ~IsWild(t.windows[w]) /\ o \in DOMAIN t.outputs)
  BY <1>2, FateWellFormed DEF WindowMove, At, Follow
<1> QED  BY <1>1, <1>2

\* What a closed window leaves of a struct.
LEMMA ForgotTyped ==
  ASSUME NEW ws \in Struct, NEW w \in Windows
  PROVE  /\ Forgot(ws, w) \in Struct
         /\ Forgot(ws, w).output = ws.output
         /\ Forgot(ws, w).focused_window = Without(ws.focused_window, w)
         /\ Forgot(ws, w).last_urgent_window = Without(ws.last_urgent_window, w)
<1>1. \A ptr \in ToWindow : Without(ptr, w) \in ToWindow
  BY Pointers DEF Without
<1>2. Forgot(ws, w) = [[ws EXCEPT !.focused_window = Without(ws.focused_window, w)]
                         EXCEPT !.last_urgent_window = Without(ws.last_urgent_window, w)]
  BY DEF Forgot
<1> DEFINE v == [ws EXCEPT !.focused_window = Without(ws.focused_window, w)]
<1>3. /\ v \in Struct /\ v.output = ws.output
      /\ v.focused_window = Without(ws.focused_window, w)
      /\ v.last_urgent_window = ws.last_urgent_window
  BY <1>1, StructTyped, StructSets
<1> HIDE DEF v
<1>4. /\ [v EXCEPT !.last_urgent_window = Without(ws.last_urgent_window, w)] \in Struct
      /\ [v EXCEPT !.last_urgent_window = Without(ws.last_urgent_window, w)].output = ws.output
      /\ [v EXCEPT !.last_urgent_window = Without(ws.last_urgent_window, w)].focused_window =
           Without(ws.focused_window, w)
      /\ [v EXCEPT !.last_urgent_window = Without(ws.last_urgent_window, w)].last_urgent_window =
           Without(ws.last_urgent_window, w)
  BY <1>1, <1>3, StructTyped, StructSets
<1> QED  BY <1>2, <1>4 DEF v

\* ... and of the one it was on.
LEMMA OwnerForgets ==
  ASSUME NEW ws \in Struct, NEW w \in Windows
  PROVE  LET v == [ws EXCEPT !.focused_window = Null,
                             !.last_urgent_window = LastUrgent(@, w, FALSE)]
         IN  /\ v \in Struct /\ v.output = ws.output /\ v.focused_window = Null
             /\ v.last_urgent_window = IF ws.last_urgent_window = w THEN Null
                                       ELSE ws.last_urgent_window
<1> DEFINE v    == [ws EXCEPT !.focused_window = Null]
           last == IF ws.last_urgent_window = w THEN Null ELSE ws.last_urgent_window
<1>1. v \in Struct /\ v.output = ws.output /\ v.focused_window = Null
  BY StructSets, Pointers
<1>2. last \in ToWindow
  BY StructTyped, Pointers
<1>3. [ws EXCEPT !.focused_window = Null, !.last_urgent_window = LastUrgent(@, w, FALSE)] =
        [v EXCEPT !.last_urgent_window = last]
  BY DEF LastUrgent
<1> HIDE DEF v, last
<1>4. /\ [v EXCEPT !.last_urgent_window = last] \in Struct
      /\ [v EXCEPT !.last_urgent_window = last].output = ws.output
      /\ [v EXCEPT !.last_urgent_window = last].focused_window = Null
      /\ [v EXCEPT !.last_urgent_window = last].last_urgent_window = last
  BY <1>1, <1>2, StructSets
<1> QED  BY <1>3, <1>4 DEF last

\* The structs once w was closed.
Remaining(t, w) ==
  [n \in DOMAIN t.workspaces |->
     Forgot(IF n # t.windows[w] THEN t.workspaces[n]
            ELSE [t.workspaces[n] EXCEPT
                    !.focused_window = Null,
                    !.last_urgent_window = LastUrgent(@, w, FALSE)], w)]

LEMMA RemainingTyped ==
  ASSUME NEW t \in Trees, NEW w \in Windows
  PROVE  /\ Remaining(t, w) \in Partial(Workspaces, Struct)
         /\ DOMAIN Remaining(t, w) = DOMAIN t.workspaces
         /\ \A n \in DOMAIN t.workspaces :
              LET ws == t.workspaces[n]
                  v  == Remaining(t, w)[n]
              IN  /\ v.output = ws.output
                  /\ v.focused_window = IF n = t.windows[w] THEN Null
                                        ELSE Without(ws.focused_window, w)
                  /\ v.last_urgent_window =
                       IF n # t.windows[w] THEN Without(ws.last_urgent_window, w)
                       ELSE IF ws.last_urgent_window = w THEN Null
                       ELSE ws.last_urgent_window
<1>1. ASSUME NEW n \in DOMAIN t.workspaces
      PROVE  LET ws == t.workspaces[n]
                 v  == Remaining(t, w)[n]
             IN  /\ v \in Struct
                 /\ v.output = ws.output
                 /\ v.focused_window = IF n = t.windows[w] THEN Null
                                       ELSE Without(ws.focused_window, w)
                 /\ v.last_urgent_window =
                      IF n # t.windows[w] THEN Without(ws.last_urgent_window, w)
                      ELSE IF ws.last_urgent_window = w THEN Null
                      ELSE ws.last_urgent_window
  <2>1. t.workspaces[n] \in Struct
    BY TreeTyped, MapTyped
  <2>2. CASE n # t.windows[w]
    <3>1. Remaining(t, w)[n] = Forgot(t.workspaces[n], w)
      BY <2>2 DEF Remaining
    <3> QED  BY <2>1, <2>2, <3>1, ForgotTyped
  <2>3. CASE n = t.windows[w]
    <3> DEFINE v == [t.workspaces[n] EXCEPT !.focused_window = Null,
                                            !.last_urgent_window = LastUrgent(@, w, FALSE)]
    <3>1. Remaining(t, w)[n] = Forgot(v, w)
      BY <2>3 DEF Remaining
    <3>2. /\ v \in Struct /\ v.output = t.workspaces[n].output /\ v.focused_window = Null
          /\ v.last_urgent_window = IF t.workspaces[n].last_urgent_window = w THEN Null
                                    ELSE t.workspaces[n].last_urgent_window
      BY <2>1, OwnerForgets
    <3> HIDE DEF v
    <3>3. /\ Forgot(v, w) \in Struct
          /\ Forgot(v, w).output = v.output
          /\ Forgot(v, w).focused_window = Without(v.focused_window, w)
          /\ Forgot(v, w).last_urgent_window = Without(v.last_urgent_window, w)
      BY <3>2, ForgotTyped
    <3>4. Null # w
      BY Pointers
    <3> QED  BY <2>3, <3>1, <3>2, <3>3, <3>4 DEF Without
  <2> QED  BY <2>2, <2>3
<1>2. Remaining(t, w) \in [DOMAIN t.workspaces -> Struct]
      /\ DOMAIN t.workspaces \in SUBSET Workspaces
  <2>1. Remaining(t, w) = [n \in DOMAIN t.workspaces |-> Remaining(t, w)[n]]
    BY DEF Remaining
  <2>2. DOMAIN t.workspaces \in SUBSET Workspaces
    BY TreeTyped, MapTyped
  <2> QED  BY <1>1, <2>1, <2>2
<1>3. DOMAIN Remaining(t, w) = DOMAIN t.workspaces
  BY DEF Remaining
<1> QED  BY <1>1, <1>2, <1>3, MapOf

LEMMA WindowCloseWellFormed ==
  ASSUME NEW t, WellFormed(t), NEW w \in Windows
  PROVE  WellFormed(WindowClose(t, w))
<1>1. CASE w \in DOMAIN t.windows /\ ~IsWild(t.windows[w])
  <2> DEFINE windows == Restrict(t.windows, DOMAIN t.windows \ {w})
  <2>1. WindowClose(t, w) =
          Tree(t.fate, t.outputs, Remaining(t, w), windows, t.focused)
    BY <1>1, WellFormedParts, CloseEffect DEF Remaining
  <2>2. /\ windows \in Partial(Windows, ToWorkspace)
        /\ DOMAIN windows = DOMAIN t.windows \ {w}
        /\ \A x \in DOMAIN windows : windows[x] = t.windows[x]
    BY WellFormedParts, MapCuts
  <2> HIDE DEF windows
  <2>3. Sound(t.outputs, Remaining(t, w), windows, t.focused)
    <3>1. \A ptr : PointsInto(ptr, t.windows) => PointsInto(Without(ptr, w), windows)
      BY <2>2, Pointers DEF PointsInto, Without
    <3>2. ASSUME NEW n \in DOMAIN t.workspaces
          PROVE  /\ Remaining(t, w)[n].output \in DOMAIN t.outputs
                 /\ PointsInto(Remaining(t, w)[n].focused_window, windows)
                 /\ PointsInto(Remaining(t, w)[n].last_urgent_window, windows)
      <4>1. /\ t.workspaces[n].output \in DOMAIN t.outputs
            /\ PointsInto(t.workspaces[n].focused_window, t.windows)
            /\ PointsInto(t.workspaces[n].last_urgent_window, t.windows)
        BY WellFormedParts DEF Sound
      <4>2. PointsInto(Null, windows)
        BY Pointers DEF PointsInto
      <4>3. t.workspaces[n].last_urgent_window # w =>
              PointsInto(t.workspaces[n].last_urgent_window, windows)
        BY <2>2, <4>1 DEF PointsInto
      <4>4. LET ws == t.workspaces[n]
                v  == Remaining(t, w)[n]
            IN  /\ v.output = ws.output
                /\ v.focused_window \in {Null, Without(ws.focused_window, w)}
                /\ \/ v.last_urgent_window \in {Null, Without(ws.last_urgent_window, w)}
                   \/ /\ v.last_urgent_window = ws.last_urgent_window
                      /\ ws.last_urgent_window # w
        BY WellFormedParts, RemainingTyped
      <4> QED  BY <3>1, <4>1, <4>2, <4>3, <4>4
    <3>3. DOMAIN Remaining(t, w) = DOMAIN t.workspaces
      BY WellFormedParts, RemainingTyped
    <3> QED  BY <2>2, <3>2, <3>3, WellFormedParts DEF Sound, PointsInto
  <2>4. Remaining(t, w) \in Partial(Workspaces, Struct)
    BY WellFormedParts, RemainingTyped
  <2> QED  BY <2>1, <2>2, <2>3, <2>4, WellFormedParts, WellFormedOf
<1>2. CASE ~(w \in DOMAIN t.windows /\ ~IsWild(t.windows[w]))
  BY <1>2, FateWellFormed DEF WindowClose, At, Follow
<1> QED  BY <1>1, <1>2

LEMMA MessageTyped ==
  ASSUME NEW e \in Messages
  PROVE  \/ /\ e.about = "workspace" /\ e.id \in Workspaces /\ e.output \in Outputs
            /\ e.change \in {"init", "focus", "urgent", "move", "empty"} /\ e.urgent \in BOOLEAN
         \/ /\ e.about = "window" /\ e.id \in Windows /\ e.output \in Outputs
            /\ e.change \in {"new", "focus", "urgent", "move", "close"} /\ e.urgent \in BOOLEAN
<1>1. e.urgent \in BOOLEAN
  BY DEF Messages
<1>2. \/ /\ e.about = "workspace" /\ e.id \in Workspaces /\ e.output \in Outputs
         /\ e.change \in {"init", "focus", "urgent", "move", "empty"}
      \/ /\ e.about = "window" /\ e.id \in Windows /\ e.output \in Outputs
         /\ e.change \in {"new", "focus", "urgent", "move", "close"}
  BY DEF Messages
<1> QED  BY <1>1, <1>2

Handled(t, e) ==
  IF e.about = "workspace" THEN WorkspaceHandled(t, e) ELSE WindowHandled(t, e)

\* Whatever an event says, handling it leaves a tree whose pointers lead into its maps
\* or nowhere.
LEMMA HandledWellFormed ==
  ASSUME NEW t, WellFormed(t), NEW e \in Messages
  PROVE  WellFormed(Handled(t, e))
<1>1. CASE e.about = "workspace"
  <2>1. /\ e.id \in Workspaces /\ e.output \in Outputs
        /\ e.change \in {"init", "focus", "urgent", "move", "empty"}
    BY <1>1, MessageTyped
  <2>2. e.urgent \in BOOLEAN
    BY MessageTyped
  <2>3. CASE e.change = "init"
    BY <1>1, <2>1, <2>3, WorkspaceInitWellFormed DEF Handled, WorkspaceHandled
  <2>4. CASE e.change = "focus"
    BY <1>1, <2>1, <2>4, WorkspaceVisibleWellFormed, WorkspaceFocusWellFormed
       DEF Handled, WorkspaceHandled
  <2>5. CASE e.change = "urgent"
    BY <1>1, <2>1, <2>2, <2>5, WorkspaceUrgentWellFormed DEF Handled, WorkspaceHandled
  <2>6. CASE e.change = "move"
    BY <1>1, <2>1, <2>6, WorkspaceMoveWellFormed DEF Handled, WorkspaceHandled
  <2>7. CASE e.change = "empty"
    BY <1>1, <2>1, <2>7, WorkspaceEmptyWellFormed DEF Handled, WorkspaceHandled
  <2> QED  BY <2>1, <2>3, <2>4, <2>5, <2>6, <2>7
<1>2. CASE e.about # "workspace"
  <2>1. /\ e.id \in Windows /\ e.output \in Outputs
        /\ e.change \in {"new", "focus", "urgent", "move", "close"}
    BY <1>2, MessageTyped
  <2> DEFINE opened == IF e.id \in DOMAIN t.windows THEN t ELSE WindowOpen(t, e.id, e.output)
  <2>2. WellFormed(opened)
    BY <2>1, WindowOpenWellFormed
  <2>3. Handled(t, e) =
          IF Fine(opened)
          THEN CASE e.change = "new"      -> opened
                 [] e.change = "focus"    -> WindowVisible(opened, e.id)
                 [] e.change = "urgent"   -> WindowUrgent(opened, e.id, e.urgent)
                 [] e.change = "move"     -> WindowMove(opened, e.id, e.output)
                 [] e.change = "close"    -> WindowClose(opened, e.id)
          ELSE opened
    BY <1>2 DEF Handled, WindowHandled
  <2> HIDE DEF opened
  <2>4. CASE ~Fine(opened)
    BY <2>2, <2>3, <2>4
  <2>5. CASE Fine(opened) /\ e.change = "new"
    BY <2>2, <2>3, <2>5
  <2>6. CASE Fine(opened) /\ e.change = "focus"
    BY <2>1, <2>2, <2>3, <2>6, WindowVisibleWellFormed
  <2>7. CASE Fine(opened) /\ e.change = "urgent"
    BY <2>1, <2>2, <2>3, <2>7, WindowUrgentWellFormed
  <2>8. CASE Fine(opened) /\ e.change = "move"
    BY <2>1, <2>2, <2>3, <2>8, WindowMoveWellFormed
  <2>9. CASE Fine(opened) /\ e.change = "close"
    BY <2>1, <2>2, <2>3, <2>9, WindowCloseWellFormed
  <2> QED  BY <2>1, <2>4, <2>5, <2>6, <2>7, <2>8, <2>9
<1> QED  BY <1>1, <1>2

------------------------------------------------------------------------------
(* The fold of the second query *)

\* The tree with every workspace of a sequence made visible.
Shown(t, s) == FoldLeft(WorkspaceVisible, t, s)

\* What the fold computes of the first so many elements, given f for the sets below.
Fold(base, seq, f, s) ==
  IF s = {} THEN base ELSE WorkspaceVisible(f[s \ {Max(s)}], seq[Max(s)])

LEMMA FoldExtends ==
  ASSUME NEW base, NEW seq, NEW n \in Nat,
         \E f : f = [s \in SUBSET (1 .. n) |-> Fold(base, seq, f, s)]
  PROVE  \E f : f = [s \in SUBSET (1 .. n + 1) |-> Fold(base, seq, f, s)]
<1>1. PICK f : f = [s \in SUBSET (1 .. n) |-> Fold(base, seq, f, s)]
  OBVIOUS
<1> DEFINE g == [s \in SUBSET (1 .. n + 1) |->
                   IF n + 1 \in s THEN WorkspaceVisible(f[s \ {n + 1}], seq[n + 1]) ELSE f[s]]
<1>2. ASSUME NEW s \in SUBSET (1 .. n + 1)
      PROVE  g[s] = Fold(base, seq, g, s)
  <2>1. CASE n + 1 \in s
    <3>1. s \ {n + 1} \in SUBSET (1 .. n + 1) /\ n + 1 \notin s \ {n + 1} /\ s # {}
      BY <2>1
    <3>2. g[s \ {n + 1}] = f[s \ {n + 1}] /\ g[s] = WorkspaceVisible(f[s \ {n + 1}], seq[n + 1])
      BY <2>1, <3>1
    <3>3. Max(s) = n + 1
      BY <2>1, LastIsMax
    <3> HIDE DEF g
    <3> QED  BY <3>1, <3>2, <3>3 DEF Fold
  <2>2. CASE n + 1 \notin s
    <3>1. s \in SUBSET (1 .. n)
      BY <2>2
    <3>2. g[s] = f[s] /\ f[s] = Fold(base, seq, f, s)
      BY <1>1, <2>2, <3>1
    <3>3. ASSUME NEW x PROVE g[s \ {x}] = f[s \ {x}]
      <4>1. s \ {x} \in SUBSET (1 .. n + 1) /\ n + 1 \notin s \ {x}
        BY <2>2
      <4> QED  BY <4>1
    <3> HIDE DEF g
    <3> QED  BY <3>2, <3>3 DEF Fold
  <2> QED  BY <2>1, <2>2
<1>3. g = [s \in SUBSET (1 .. n + 1) |-> g[s]]
  OBVIOUS
<1> HIDE DEF g
<1>4. g = [s \in SUBSET (1 .. n + 1) |-> Fold(base, seq, g, s)]
  BY <1>2, <1>3
<1> QED  BY <1>4

LEMMA FoldExists ==
  ASSUME NEW base, NEW seq, NEW n \in Nat
  PROVE  \E f : f = [s \in SUBSET (1 .. n) |-> Fold(base, seq, f, s)]
<1> DEFINE Computed(k) == \E f : f = [s \in SUBSET (1 .. k) |-> Fold(base, seq, f, s)]
           S           == {k \in Nat : ~Computed(k)}
<1>1. Computed(0)
  <2> DEFINE f == [s \in SUBSET (1 .. 0) |-> base]
  <2>1. \A s \in SUBSET (1 .. 0) : s = {}
    OBVIOUS
  <2>2. f = [s \in SUBSET (1 .. 0) |-> Fold(base, seq, f, s)]
    BY <2>1 DEF Fold
  <2> HIDE DEF f
  <2> QED  BY <2>2
<1>2. ASSUME NEW k \in Nat, Computed(k)
      PROVE  Computed(k + 1)
  BY <1>2, FoldExtends
<1> HIDE DEF Computed
<1>3. S = {}
  <2> SUFFICES ASSUME S # {} PROVE FALSE
    OBVIOUS
  <2>1. PICK m \in S : \A k \in S : m <= k
    <3>1. S \subseteq Nat /\ S # {}
      OBVIOUS
    <3> HIDE DEF S
    <3> QED  BY <3>1, LeastExists
  <2>2. m \in Nat /\ ~Computed(m) /\ m # 0
    BY <1>1
  <2>3. m - 1 \in Nat /\ ~(m <= m - 1) /\ (m - 1) + 1 = m
    BY <2>2
  <2>4. Computed(m - 1)
    BY <2>1, <2>3
  <2> QED  BY <1>2, <2>2, <2>3, <2>4
<1>4. Computed(n)
  BY <1>3
<1> QED  BY <1>4 DEF Computed

LEMMA FoldIs ==
  ASSUME NEW base, NEW seq, NEW n \in Nat, DOMAIN seq = 1 .. n
  PROVE  \E f : /\ f = [s \in SUBSET (1 .. n) |-> Fold(base, seq, f, s)]
               /\ Shown(base, seq) = f[1 .. n]
<1> DEFINE f == CHOOSE f : f = [s \in SUBSET (1 .. n) |-> Fold(base, seq, f, s)]
<1>1. f = [s \in SUBSET (1 .. n) |-> Fold(base, seq, f, s)]
  BY FoldExists
<1>2. Shown(base, seq) = f[DOMAIN seq]
  BY DEF Shown, FoldLeft, MapThenFoldSet, Fold
<1> HIDE DEF f
<1> QED  BY <1>1, <1>2

\* The trees a fold comes to, step by step.
Passes(a, base, seq, n) ==
  /\ a[0] = base
  /\ \A k \in 1 .. n : a[k] = WorkspaceVisible(a[k - 1], seq[k])
  /\ Shown(base, seq) = a[n]

LEMMA FoldSteps ==
  ASSUME NEW base, NEW seq, NEW n \in Nat, DOMAIN seq = 1 .. n
  PROVE  \E a : Passes(a, base, seq, n)
<1>1. PICK f : /\ f = [s \in SUBSET (1 .. n) |-> Fold(base, seq, f, s)]
               /\ Shown(base, seq) = f[1 .. n]
  BY FoldIs
<1> DEFINE a == [k \in 0 .. n |-> f[1 .. k]]
<1>2. a[0] = base
  <2>1. 1 .. 0 = {} /\ {} \in SUBSET (1 .. n)
    OBVIOUS
  <2>2. f[{}] = Fold(base, seq, f, {})
    BY <1>1, <2>1
  <2> QED  BY <2>1, <2>2 DEF Fold
<1>3. ASSUME NEW k \in 1 .. n
      PROVE  a[k] = WorkspaceVisible(a[k - 1], seq[k])
  <2>1. /\ k - 1 \in Nat /\ (k - 1) + 1 = k /\ 1 .. k \in SUBSET (1 .. n) /\ k \in 1 .. k
        /\ 1 .. k # {} /\ (1 .. k) \ {k} = 1 .. k - 1
    OBVIOUS
  <2>2. Max(1 .. k) = k
    BY <2>1, LastIsMax
  <2>3. f[1 .. k] = Fold(base, seq, f, 1 .. k)
    BY <1>1, <2>1
  <2>4. a[k] = f[1 .. k] /\ a[k - 1] = f[1 .. k - 1]
    OBVIOUS
  <2> HIDE DEF a
  <2> QED  BY <2>1, <2>2, <2>3, <2>4 DEF Fold
<1>4. a[n] = f[1 .. n]
  OBVIOUS
<1> HIDE DEF a
<1>5. Passes(a, base, seq, n)
  BY <1>1, <1>2, <1>3, <1>4 DEF Passes
<1> QED  BY <1>5

------------------------------------------------------------------------------
(* Mirrors *)

\* What a struct calls the focused window of workspace n is on it, and so is what it
\* calls the last urgent one, which is still urgent.
Names(ws, n, places, flagged) ==
  /\ ws.focused_window # Null =>
       ws.focused_window \in Windows /\ places[ws.focused_window] = n
  /\ ws.last_urgent_window # Null =>
       ws.last_urgent_window \in flagged /\ places[ws.last_urgent_window] = n

HasWindows(windows, places) ==
  /\ DOMAIN windows = {w \in Windows : places[w] # None}
  /\ \A w \in DOMAIN windows : windows[w] = places[w]

HasWorkspaces(workspaces, homes, places, flagged) ==
  /\ DOMAIN workspaces = {n \in Workspaces : homes[n] # None}
  /\ \A n \in DOMAIN workspaces :
       workspaces[n].output = homes[n] /\ Names(workspaces[n], n, places, flagged)

\* The tree is what is known of the desktop in layout l.
Mirrors(t, l) ==
  /\ Fine(t)
  /\ t.outputs = l.shown /\ t.focused = l.focus
  /\ HasWindows(t.windows, l.place)
  /\ HasWorkspaces(t.workspaces, l.home, l.place, l.urgent)

LEMMA LayoutParts ==
  ASSUME NEW l \in Layouts
  PROVE  /\ l.home \in [Workspaces -> Outputs \cup {None}] /\ l.shown \in [Outputs -> Workspaces]
         /\ l.focus \in Workspaces /\ l.place \in [Windows -> Workspaces \cup {None}]
         /\ l.urgent \in SUBSET Windows
         /\ l = Layout(l.home, l.shown, l.focus, l.place, l.urgent)
BY DEF Layouts, Layout

LEMMA MirrorsParts ==
  ASSUME NEW t, WellFormed(t), NEW l \in Layouts, Mirrors(t, l)
  PROVE  /\ t \in Trees
         /\ t.fate = "fine"
         /\ DOMAIN t.outputs = Outputs
         /\ \A o \in Outputs : ~IsWild(t.outputs[o])
         /\ \A w \in DOMAIN t.windows : ~IsWild(t.windows[w])
         /\ \A n \in DOMAIN t.workspaces : t.workspaces[n] \in Struct
<1>1. t \in Trees /\ t.fate = "fine"
  BY WellFormedParts DEF Mirrors, Fine
<1>2. DOMAIN t.outputs = Outputs /\ \A o \in Outputs : ~IsWild(t.outputs[o])
  BY LayoutParts, Pointers DEF Mirrors, HasWindows
<1>3. \A w \in DOMAIN t.windows : ~IsWild(t.windows[w])
  BY LayoutParts, Pointers DEF Mirrors, HasWindows
<1>4. \A n \in DOMAIN t.workspaces : t.workspaces[n] \in Struct
  BY WellFormedParts, MapTyped
<1> QED  BY <1>1, <1>2, <1>3, <1>4

LEMMA TreeParts ==
  ASSUME NEW f, NEW o, NEW n, NEW w, NEW c
  PROVE  /\ Tree(f, o, n, w, c).fate = f /\ Tree(f, o, n, w, c).outputs = o
         /\ Tree(f, o, n, w, c).workspaces = n /\ Tree(f, o, n, w, c).windows = w
         /\ Tree(f, o, n, w, c).focused = c
BY DEF Tree

LEMMA TreeMirrors ==
  ASSUME NEW o, NEW n, NEW w, NEW c, NEW h, NEW p, NEW u,
         HasWindows(w, p), HasWorkspaces(n, h, p, u)
  PROVE  Mirrors(Tree("fine", o, n, w, c), Layout(h, o, c, p, u))
BY TreeParts DEF Mirrors, Fine, Layout

LEMMA WorkspaceInitMirrors ==
  ASSUME NEW t, WellFormed(t), NEW l \in Layouts, Mirrors(t, l),
         NEW n \in Workspaces, NEW o \in Outputs, l.home[n] = None
  PROVE  Mirrors(WorkspaceInit(t, n, o),
                 Layout([l.home EXCEPT ![n] = o], l.shown, l.focus, l.place, l.urgent))
<1> DEFINE ws         == [output |-> o, urgent |-> FALSE, focused_window |-> Null,
                          last_urgent_window |-> Null]
           workspaces == Emplace(t.workspaces, n, ws)
           homes      == [l.home EXCEPT ![n] = o]
<1>1. WorkspaceInit(t, n, o) = Tree("fine", t.outputs, workspaces, t.windows, t.focused)
  BY MirrorsParts, InitEffect
<1>2. n \notin DOMAIN t.workspaces /\ o # None
  BY Numbered DEF Mirrors, HasWorkspaces
<1>3. /\ DOMAIN workspaces = DOMAIN t.workspaces \cup {n} /\ workspaces[n] = ws
      /\ \A x \in DOMAIN t.workspaces : workspaces[x] = t.workspaces[x]
  BY <1>2 DEF Emplace
<1>4. ws.output = o /\ ws.focused_window = Null /\ ws.last_urgent_window = Null
  OBVIOUS
<1>5. homes[n] = o /\ \A x \in Workspaces : x # n => homes[x] = l.home[x]
  BY LayoutParts
<1> HIDE DEF workspaces, ws, homes
<1>6. HasWorkspaces(workspaces, homes, l.place, l.urgent)
  BY <1>2, <1>3, <1>4, <1>5 DEF Mirrors, HasWorkspaces, Names
<1>7. Mirrors(Tree("fine", l.shown, workspaces, t.windows, l.focus),
              Layout(homes, l.shown, l.focus, l.place, l.urgent))
  BY <1>6, TreeMirrors DEF Mirrors
<1> QED  BY <1>1, <1>7 DEF homes, Mirrors

LEMMA WorkspaceFocusMirrors ==
  ASSUME NEW t, WellFormed(t), NEW l \in Layouts, Mirrors(t, l),
         NEW n \in Workspaces, l.home[n] # None
  PROVE  Mirrors(WorkspaceFocus(WorkspaceVisible(t, n), n),
                 Layout(l.home, [l.shown EXCEPT ![l.home[n]] = n], n, l.place, l.urgent))
<1> DEFINE outputs == [t.outputs EXCEPT ![t.workspaces[n].output] = n]
<1>1. n \in DOMAIN t.workspaces /\ t.workspaces[n].output = l.home[n]
  BY DEF Mirrors, HasWorkspaces
<1>2. WorkspaceVisible(t, n) = Tree("fine", outputs, t.workspaces, t.windows, t.focused)
  BY <1>1, MirrorsParts, VisibleEffect
<1>3. WorkspaceVisible(t, n) \in Trees
  BY WorkspaceVisibleWellFormed, WellFormedParts
<1>4. outputs = [l.shown EXCEPT ![l.home[n]] = n]
  BY <1>1 DEF Mirrors
<1> HIDE DEF outputs
<1>5. WorkspaceFocus(WorkspaceVisible(t, n), n) =
        Tree("fine", outputs, t.workspaces, t.windows, n)
  <2>1. /\ WorkspaceVisible(t, n).workspaces = t.workspaces
        /\ WorkspaceVisible(t, n).fate = "fine" /\ WorkspaceVisible(t, n).outputs = outputs
        /\ WorkspaceVisible(t, n).windows = t.windows
    BY <1>2, TreeParts
  <2> QED  BY <1>1, <1>3, <2>1, FocusEffect
<1>6. HasWindows(t.windows, l.place) /\ HasWorkspaces(t.workspaces, l.home, l.place, l.urgent)
  BY DEF Mirrors
<1>7. Mirrors(Tree("fine", outputs, t.workspaces, t.windows, n),
              Layout(l.home, outputs, n, l.place, l.urgent))
  BY <1>6, TreeMirrors
<1> QED  BY <1>4, <1>5, <1>7

LEMMA WorkspaceUrgentMirrors ==
  ASSUME NEW t, WellFormed(t), NEW l \in Layouts, Mirrors(t, l),
         NEW n \in Workspaces, NEW flag \in BOOLEAN, l.home[n] # None
  PROVE  Mirrors(WorkspaceUrgent(t, n, flag), l)
<1> DEFINE v          == [t.workspaces[n] EXCEPT !.urgent = flag]
           workspaces == [t.workspaces EXCEPT ![n] = v]
<1>1. n \in DOMAIN t.workspaces
  BY DEF Mirrors, HasWorkspaces
<1>2. WorkspaceUrgent(t, n, flag) = Tree("fine", t.outputs, workspaces, t.windows, t.focused)
  BY <1>1, MirrorsParts, UrgentEffect
<1>3. /\ v.output = t.workspaces[n].output
      /\ v.focused_window = t.workspaces[n].focused_window
      /\ v.last_urgent_window = t.workspaces[n].last_urgent_window
  BY <1>1, MirrorsParts, StructSets
<1> HIDE DEF v
<1>4. /\ DOMAIN workspaces = DOMAIN t.workspaces /\ workspaces[n] = v
      /\ \A x \in DOMAIN workspaces : x # n => workspaces[x] = t.workspaces[x]
  BY <1>1
<1> HIDE DEF workspaces
<1>5. HasWorkspaces(workspaces, l.home, l.place, l.urgent)
  BY <1>1, <1>3, <1>4 DEF Mirrors, HasWorkspaces, Names
<1>6. Mirrors(Tree("fine", l.shown, workspaces, t.windows, l.focus),
              Layout(l.home, l.shown, l.focus, l.place, l.urgent))
  BY <1>5, TreeMirrors DEF Mirrors
<1> QED  BY <1>2, <1>6, LayoutParts DEF Mirrors

LEMMA WorkspaceMoveMirrors ==
  ASSUME NEW t, WellFormed(t), NEW l \in Layouts, Mirrors(t, l),
         NEW n \in Workspaces, NEW o \in Outputs, l.home[n] # None
  PROVE  Mirrors(WorkspaceMove(t, n, o),
                 Layout([l.home EXCEPT ![n] = o], l.shown, l.focus, l.place, l.urgent))
<1> DEFINE v          == [t.workspaces[n] EXCEPT !.output = o]
           workspaces == [t.workspaces EXCEPT ![n] = v]
           homes      == [l.home EXCEPT ![n] = o]
<1>1. n \in DOMAIN t.workspaces /\ o # None
  BY Numbered DEF Mirrors, HasWorkspaces
<1>2. WorkspaceMove(t, n, o) = Tree("fine", t.outputs, workspaces, t.windows, t.focused)
  BY <1>1, MirrorsParts, MoveEffect
<1>3. /\ v.output = o
      /\ v.focused_window = t.workspaces[n].focused_window
      /\ v.last_urgent_window = t.workspaces[n].last_urgent_window
  BY <1>1, MirrorsParts, StructSets
<1> HIDE DEF v
<1>4. /\ DOMAIN workspaces = DOMAIN t.workspaces /\ workspaces[n] = v
      /\ \A x \in DOMAIN workspaces : x # n => workspaces[x] = t.workspaces[x]
  BY <1>1
<1>5. homes[n] = o /\ \A x \in Workspaces : x # n => homes[x] = l.home[x]
  BY LayoutParts
<1> HIDE DEF workspaces, homes
<1>6. HasWorkspaces(workspaces, homes, l.place, l.urgent)
  BY <1>1, <1>3, <1>4, <1>5 DEF Mirrors, HasWorkspaces, Names
<1>7. Mirrors(Tree("fine", l.shown, workspaces, t.windows, l.focus),
              Layout(homes, l.shown, l.focus, l.place, l.urgent))
  BY <1>6, TreeMirrors DEF Mirrors
<1> QED  BY <1>2, <1>7 DEF homes, Mirrors

LEMMA WorkspaceEmptyMirrors ==
  ASSUME NEW t, WellFormed(t), NEW l \in Layouts, Mirrors(t, l),
         NEW n \in Workspaces, l.home[n] # None, l.focus # n,
         \A o \in Outputs : l.shown[o] # n, \A w \in Windows : l.place[w] # n
  PROVE  Mirrors(WorkspaceEmpty(t, n),
                 Layout([l.home EXCEPT ![n] = None], l.shown, l.focus, l.place, l.urgent))
<1> DEFINE outputs    == [o \in DOMAIN t.outputs |-> Without(t.outputs[o], n)]
           workspaces == Restrict(t.workspaces, DOMAIN t.workspaces \ {n})
           windows    == [w \in DOMAIN t.windows |-> Without(t.windows[w], n)]
           focused    == Without(t.focused, n)
           homes      == [l.home EXCEPT ![n] = None]
<1>1. n \in DOMAIN t.workspaces /\ t.workspaces[n].output = l.home[n] /\ l.home[n] \in Outputs
  BY LayoutParts DEF Mirrors, HasWorkspaces
<1>2. WorkspaceEmpty(t, n) = Tree("fine", outputs, workspaces, windows, focused)
  BY <1>1, MirrorsParts, EmptyEffect
<1>3. outputs = l.shown
  BY LayoutParts DEF Without, Mirrors
<1>4. /\ DOMAIN windows = DOMAIN t.windows
      /\ \A w \in DOMAIN windows : windows[w] = t.windows[w]
  BY DEF Without, Mirrors, HasWindows
<1>5. focused = l.focus
  BY DEF Without, Mirrors
<1>6. /\ DOMAIN workspaces = DOMAIN t.workspaces \ {n}
      /\ \A x \in DOMAIN workspaces : workspaces[x] = t.workspaces[x]
  BY DEF Restrict
<1>7. homes[n] = None /\ \A x \in Workspaces : x # n => homes[x] = l.home[x]
  BY LayoutParts
<1> HIDE DEF outputs, workspaces, windows, focused, homes
<1>8. HasWorkspaces(workspaces, homes, l.place, l.urgent)
  BY <1>6, <1>7 DEF Mirrors, HasWorkspaces, Names
<1>9. HasWindows(windows, l.place)
  BY <1>4 DEF Mirrors, HasWindows
<1>10. Mirrors(Tree("fine", l.shown, workspaces, windows, l.focus),
               Layout(homes, l.shown, l.focus, l.place, l.urgent))
  BY <1>8, <1>9, TreeMirrors
<1> QED  BY <1>2, <1>3, <1>5, <1>10 DEF homes

LEMMA WindowOpenMirrors ==
  ASSUME NEW t, WellFormed(t), NEW l \in Layouts, Mirrors(t, l),
         NEW w \in Windows, NEW o \in Outputs, l.place[w] = None
  PROVE  Mirrors(WindowOpen(t, w, o),
                 Layout(l.home, l.shown, l.focus, [l.place EXCEPT ![w] = l.shown[o]], l.urgent))
<1> DEFINE windows == Emplace(t.windows, w, t.outputs[o])
           places  == [l.place EXCEPT ![w] = l.shown[o]]
<1>1. WindowOpen(t, w, o) = Tree("fine", t.outputs, t.workspaces, windows, t.focused)
  BY MirrorsParts, OpenEffect
<1>2. w \notin DOMAIN t.windows /\ t.outputs[o] = l.shown[o] /\ l.shown[o] # None
  BY LayoutParts, Numbered DEF Mirrors, HasWindows
<1>3. /\ DOMAIN windows = DOMAIN t.windows \cup {w} /\ windows[w] = l.shown[o]
      /\ \A x \in DOMAIN t.windows : windows[x] = t.windows[x]
  BY <1>2 DEF Emplace
<1>4. places[w] = l.shown[o] /\ \A x \in Windows : x # w => places[x] = l.place[x]
  BY LayoutParts
<1> HIDE DEF windows, places
<1>5. HasWindows(windows, places)
  BY <1>2, <1>3, <1>4 DEF Mirrors, HasWindows
<1>6. HasWorkspaces(t.workspaces, l.home, places, l.urgent)
  <2>1. HasWorkspaces(t.workspaces, l.home, l.place, l.urgent)
    BY DEF Mirrors
  <2>2. ASSUME NEW n \in DOMAIN t.workspaces
        PROVE  Names(t.workspaces[n], n, places, l.urgent)
    <3>1. n # None /\ Names(t.workspaces[n], n, l.place, l.urgent)
      BY <2>1, Numbered DEF HasWorkspaces
    <3> QED  BY <1>4, <3>1, LayoutParts DEF Names
  <2> QED  BY <2>1, <2>2 DEF HasWorkspaces
<1>7. Mirrors(Tree("fine", l.shown, t.workspaces, windows, l.focus),
              Layout(l.home, l.shown, l.focus, places, l.urgent))
  BY <1>5, <1>6, TreeMirrors
<1> QED  BY <1>1, <1>7 DEF places, Mirrors

LEMMA WindowVisibleMirrors ==
  ASSUME NEW t, WellFormed(t), NEW l \in Layouts, Mirrors(t, l),
         NEW w \in Windows, l.place[w] # None
  PROVE  Mirrors(WindowVisible(t, w), l)
<1> DEFINE k          == t.windows[w]
           v          == [t.workspaces[k] EXCEPT !.focused_window = w]
           workspaces == [t.workspaces EXCEPT ![k] = v]
<1>1. w \in DOMAIN t.windows /\ k = l.place[w]
  BY DEF Mirrors, HasWindows
<1>2. WindowVisible(t, w) = Tree("fine", t.outputs, workspaces, t.windows, t.focused)
  BY <1>1, MirrorsParts, ShowEffect
<1>3. k \in DOMAIN t.workspaces
  BY <1>1, MirrorsParts, OwnerTyped
<1>4. /\ v.output = t.workspaces[k].output
      /\ v.focused_window = w
      /\ v.last_urgent_window = t.workspaces[k].last_urgent_window
  BY <1>3, MirrorsParts, StructSets, Pointers
<1> HIDE DEF v, k
<1>5. /\ DOMAIN workspaces = DOMAIN t.workspaces /\ workspaces[k] = v
      /\ \A x \in DOMAIN workspaces : x # k => workspaces[x] = t.workspaces[x]
  BY <1>3
<1> HIDE DEF workspaces
<1>6. HasWorkspaces(workspaces, l.home, l.place, l.urgent)
  BY <1>1, <1>3, <1>4, <1>5 DEF Mirrors, HasWorkspaces, Names
<1>7. Mirrors(Tree("fine", l.shown, workspaces, t.windows, l.focus),
              Layout(l.home, l.shown, l.focus, l.place, l.urgent))
  BY <1>6, TreeMirrors DEF Mirrors
<1> QED  BY <1>2, <1>7, LayoutParts DEF Mirrors

LEMMA WindowUrgentMirrors ==
  ASSUME NEW t, WellFormed(t), NEW l \in Layouts, Mirrors(t, l),
         NEW w \in Windows, NEW flag \in BOOLEAN, l.place[w] # None
  PROVE  Mirrors(WindowUrgent(t, w, flag),
                 Layout(l.home, l.shown, l.focus, l.place,
                        IF flag THEN l.urgent \cup {w} ELSE l.urgent \ {w}))
<1> DEFINE k          == t.windows[w]
           last       == LastUrgent(t.workspaces[k].last_urgent_window, w, flag)
           v          == [t.workspaces[k] EXCEPT !.last_urgent_window = last]
           workspaces == [t.workspaces EXCEPT ![k] = v]
           flagged    == IF flag THEN l.urgent \cup {w} ELSE l.urgent \ {w}
<1>1. w \in DOMAIN t.windows /\ k = l.place[w]
  BY DEF Mirrors, HasWindows
<1>2. WindowUrgent(t, w, flag) = Tree("fine", t.outputs, workspaces, t.windows, t.focused)
  BY <1>1, MirrorsParts, AlertEffect
<1>3. k \in DOMAIN t.workspaces /\ t.workspaces[k] \in Struct
  BY <1>1, MirrorsParts, OwnerTyped
<1>4. last \in ToWindow
  BY <1>3, StructTyped, Pointers DEF LastUrgent
<1>5. \/ last = Null
      \/ last = w /\ w \in flagged
      \/ last = t.workspaces[k].last_urgent_window /\ last # w /\ last # Null
  <2>1. CASE flag
    <3>1. last = w /\ flagged = l.urgent \cup {w}
      BY <2>1 DEF LastUrgent
    <3> QED  BY <3>1
  <2>2. CASE ~flag
    <3> DEFINE former == t.workspaces[k].last_urgent_window
    <3>1. last = IF former = w THEN Null ELSE former
      BY <2>2 DEF LastUrgent
    <3>2. last = Null \/ (last = former /\ last # w /\ last # Null)
      <4> HIDE DEF last, former
      <4> QED  BY <3>1
    <3> HIDE DEF last, flagged
    <3> QED  BY <3>2
  <2> QED  BY <2>1, <2>2
<1>6. \A x \in l.urgent : x # w => x \in flagged
  OBVIOUS
<1> HIDE DEF last, k, flagged
<1>7. /\ v.output = t.workspaces[k].output
      /\ v.focused_window = t.workspaces[k].focused_window
      /\ v.last_urgent_window = last
  BY <1>3, <1>4, StructSets
<1> HIDE DEF v
<1>8. /\ DOMAIN workspaces = DOMAIN t.workspaces /\ workspaces[k] = v
      /\ \A x \in DOMAIN workspaces : x # k => workspaces[x] = t.workspaces[x]
  BY <1>3
<1> HIDE DEF workspaces
<1>9. ASSUME NEW x \in DOMAIN workspaces
      PROVE  /\ workspaces[x].output = l.home[x]
             /\ Names(workspaces[x], x, l.place, flagged)
  <2>1. /\ x \in DOMAIN t.workspaces /\ t.workspaces[x].output = l.home[x]
        /\ Names(t.workspaces[x], x, l.place, l.urgent)
    BY <1>8 DEF Mirrors, HasWorkspaces
  <2>2. CASE x # k
    <3>1. t.workspaces[x].last_urgent_window # w \/ t.workspaces[x].last_urgent_window = Null
      BY <1>1, <2>1, <2>2 DEF Names
    <3> QED  BY <1>6, <1>8, <2>1, <2>2, <3>1 DEF Names
  <2>3. CASE x = k
    BY <1>1, <1>5, <1>6, <1>7, <1>8, <2>1, <2>3 DEF Names
  <2> QED  BY <2>2, <2>3
<1>10. HasWorkspaces(workspaces, l.home, l.place, flagged)
  BY <1>8, <1>9 DEF Mirrors, HasWorkspaces
<1>11. Mirrors(Tree("fine", l.shown, workspaces, t.windows, l.focus),
               Layout(l.home, l.shown, l.focus, l.place, flagged))
  BY <1>10, TreeMirrors DEF Mirrors
<1> QED  BY <1>2, <1>11 DEF Mirrors, flagged

LEMMA WindowMoveMirrors ==
  ASSUME NEW t, WellFormed(t), NEW l \in Layouts, Mirrors(t, l),
         NEW w \in Windows, NEW o \in Outputs, l.place[w] # None, w \notin l.urgent
  PROVE  Mirrors(WindowMove(t, w, o),
                 Layout(l.home, l.shown, l.focus, [l.place EXCEPT ![w] = l.shown[o]], l.urgent))
<1> DEFINE k          == t.windows[w]
           v          == [t.workspaces[k] EXCEPT !.focused_window = Null]
           workspaces == [t.workspaces EXCEPT ![k] = v]
           windows    == [t.windows EXCEPT ![w] = t.outputs[o]]
           places     == [l.place EXCEPT ![w] = l.shown[o]]
<1>1. w \in DOMAIN t.windows /\ k = l.place[w]
  BY DEF Mirrors, HasWindows
<1>2. WindowMove(t, w, o) = Tree("fine", t.outputs, workspaces, windows, t.focused)
  BY <1>1, MirrorsParts, SendEffect
<1>3. k \in DOMAIN t.workspaces /\ t.workspaces[k] \in Struct
  BY <1>1, MirrorsParts, OwnerTyped
<1> HIDE DEF k
<1>4. /\ v.output = t.workspaces[k].output
      /\ v.focused_window = Null
      /\ v.last_urgent_window = t.workspaces[k].last_urgent_window
  BY <1>3, StructSets, Pointers
<1> HIDE DEF v
<1>5. /\ DOMAIN workspaces = DOMAIN t.workspaces /\ workspaces[k] = v
      /\ \A x \in DOMAIN workspaces : x # k => workspaces[x] = t.workspaces[x]
  BY <1>3
<1> HIDE DEF workspaces
<1>6. l.shown[o] # None /\ t.outputs[o] = l.shown[o]
  BY LayoutParts, Numbered DEF Mirrors
<1>7. places[w] = l.shown[o] /\ \A x \in Windows : x # w => places[x] = l.place[x]
  BY LayoutParts
<1>8. /\ DOMAIN windows = DOMAIN t.windows /\ windows[w] = l.shown[o]
      /\ \A x \in DOMAIN windows : x # w => windows[x] = t.windows[x]
  BY <1>1, <1>6
<1> HIDE DEF windows, places
<1>9. HasWindows(windows, places)
  BY <1>1, <1>6, <1>7, <1>8 DEF Mirrors, HasWindows
<1>10. ASSUME NEW x \in DOMAIN workspaces
       PROVE  /\ workspaces[x].output = l.home[x]
              /\ Names(workspaces[x], x, places, l.urgent)
  <2>1. /\ x \in DOMAIN t.workspaces /\ t.workspaces[x].output = l.home[x]
        /\ Names(t.workspaces[x], x, l.place, l.urgent)
    BY <1>5 DEF Mirrors, HasWorkspaces
  <2>2. CASE x # k
    <3>1. t.workspaces[x].focused_window # w \/ t.workspaces[x].focused_window = Null
      BY <1>1, <2>1, <2>2 DEF Names
    <3> QED  BY <1>5, <1>7, <2>1, <2>2, <3>1, LayoutParts DEF Names
  <2>3. CASE x = k
    BY <1>4, <1>5, <1>7, <2>1, <2>3, LayoutParts DEF Names
  <2> QED  BY <2>2, <2>3
<1>11. HasWorkspaces(workspaces, l.home, places, l.urgent)
  BY <1>5, <1>10 DEF Mirrors, HasWorkspaces
<1>12. Mirrors(Tree("fine", l.shown, workspaces, windows, l.focus),
               Layout(l.home, l.shown, l.focus, places, l.urgent))
  BY <1>9, <1>11, TreeMirrors
<1> QED  BY <1>2, <1>12 DEF Mirrors, places

LEMMA WindowCloseMirrors ==
  ASSUME NEW t, WellFormed(t), NEW l \in Layouts, Mirrors(t, l),
         NEW w \in Windows, l.place[w] # None, w \notin l.urgent
  PROVE  Mirrors(WindowClose(t, w),
                 Layout(l.home, l.shown, l.focus, [l.place EXCEPT ![w] = None], l.urgent))
<1> DEFINE windows    == Restrict(t.windows, DOMAIN t.windows \ {w})
           workspaces == Remaining(t, w)
           places     == [l.place EXCEPT ![w] = None]
<1>1. w \in DOMAIN t.windows /\ t.windows[w] = l.place[w]
  BY DEF Mirrors, HasWindows
<1>2. WindowClose(t, w) = Tree("fine", t.outputs, workspaces, windows, t.focused)
  BY <1>1, MirrorsParts, CloseEffect DEF Remaining
<1>3. /\ DOMAIN windows = DOMAIN t.windows \ {w}
      /\ \A x \in DOMAIN windows : windows[x] = t.windows[x]
  BY DEF Restrict
<1>4. /\ DOMAIN workspaces = DOMAIN t.workspaces
      /\ \A n \in DOMAIN t.workspaces :
           LET ws == t.workspaces[n]
               v  == workspaces[n]
           IN  /\ v.output = ws.output
               /\ v.focused_window = IF n = t.windows[w] THEN Null
                                     ELSE Without(ws.focused_window, w)
               /\ v.last_urgent_window =
                    IF n # t.windows[w] THEN Without(ws.last_urgent_window, w)
                    ELSE IF ws.last_urgent_window = w THEN Null
                    ELSE ws.last_urgent_window
  BY MirrorsParts, RemainingTyped
<1>5. places[w] = None /\ \A x \in Windows : x # w => places[x] = l.place[x]
  BY LayoutParts
<1> HIDE DEF windows, workspaces, places
<1>6. HasWindows(windows, places)
  BY <1>1, <1>3, <1>5 DEF Mirrors, HasWindows
<1>7. ASSUME NEW n \in DOMAIN workspaces
      PROVE  workspaces[n].output = l.home[n] /\ Names(workspaces[n], n, places, l.urgent)
  <2>1. /\ n \in DOMAIN t.workspaces /\ t.workspaces[n].output = l.home[n]
        /\ Names(t.workspaces[n], n, l.place, l.urgent)
    BY <1>4 DEF Mirrors, HasWorkspaces
  <2>2. t.workspaces[n].last_urgent_window # w
    BY <2>1, Pointers DEF Names
  <2>3. n # t.windows[w] => t.workspaces[n].focused_window # w
    BY <1>1, <2>1, Pointers DEF Names
  <2>4. /\ workspaces[n].output = l.home[n]
        /\ workspaces[n].focused_window \in {Null, t.workspaces[n].focused_window}
        /\ workspaces[n].focused_window # w
        /\ workspaces[n].last_urgent_window = t.workspaces[n].last_urgent_window
    BY <1>4, <2>1, <2>2, <2>3, Pointers DEF Without
  <2> QED  BY <1>5, <2>1, <2>2, <2>4, LayoutParts DEF Names
<1>8. HasWorkspaces(workspaces, l.home, places, l.urgent)
  BY <1>4, <1>7 DEF Mirrors, HasWorkspaces
<1>9. Mirrors(Tree("fine", l.shown, workspaces, windows, l.focus),
              Layout(l.home, l.shown, l.focus, places, l.urgent))
  BY <1>6, <1>8, TreeMirrors
<1> QED  BY <1>2, <1>9 DEF Mirrors, places

------------------------------------------------------------------------------
(* An event *)

\* An event that makes sense in a layout takes a tree that mirrors it to one that
\* mirrors the layout it leads to, and every key and pointer it needs is good.
LEMMA HandledMirrors ==
  ASSUME NEW t, WellFormed(t), NEW l \in Layouts, Mirrors(t, l), NEW m \in Layouts,
         NEW e \in Messages, Follows(l, e, m)
  PROVE  Mirrors(Handled(t, e), m)
<1>1. CASE e.about = "workspace"
  <2>1. /\ e.id \in Workspaces /\ e.output \in Outputs
        /\ WorkspaceFollows(l, e, m) /\ Handled(t, e) = WorkspaceHandled(t, e)
    BY <1>1, MessageTyped DEF Follows, Handled
  <2>2. e.urgent \in BOOLEAN
    BY MessageTyped
  <2>3. CASE /\ e.change = "init" /\ l.home[e.id] = None
             /\ m = Layout([l.home EXCEPT ![e.id] = e.output], l.shown, l.focus, l.place,
                           l.urgent)
    BY <2>1, <2>3, WorkspaceInitMirrors DEF WorkspaceHandled
  <2>4. CASE /\ e.change = "focus" /\ l.home[e.id] # None
             /\ m = Layout(l.home, [l.shown EXCEPT ![l.home[e.id]] = e.id], e.id, l.place,
                           l.urgent)
    BY <2>1, <2>4, WorkspaceFocusMirrors DEF WorkspaceHandled
  <2>5. CASE e.change = "urgent" /\ l.home[e.id] # None /\ m = l
    BY <2>1, <2>2, <2>5, WorkspaceUrgentMirrors DEF WorkspaceHandled
  <2>6. CASE /\ e.change = "move" /\ l.home[e.id] # None
             /\ m = Layout([l.home EXCEPT ![e.id] = e.output], l.shown, l.focus, l.place,
                           l.urgent)
    BY <2>1, <2>6, WorkspaceMoveMirrors DEF WorkspaceHandled
  <2>7. CASE /\ e.change = "empty" /\ l.home[e.id] # None /\ l.focus # e.id
             /\ \A o \in Outputs : l.shown[o] # e.id
             /\ \A w \in Windows : l.place[w] # e.id
             /\ m = Layout([l.home EXCEPT ![e.id] = None], l.shown, l.focus, l.place, l.urgent)
    BY <2>1, <2>7, WorkspaceEmptyMirrors DEF WorkspaceHandled
  <2> QED  BY <2>1, <2>3, <2>4, <2>5, <2>6, <2>7 DEF WorkspaceFollows
<1>2. CASE e.about # "workspace"
  <2>1. e.id \in Windows /\ e.output \in Outputs /\ WindowFollows(l, e, m)
    BY <1>2, MessageTyped DEF Follows
  <2>2. e.urgent \in BOOLEAN
    BY MessageTyped
  <2>3. Fine(t)
    BY DEF Mirrors
  <2>4. l.place[e.id] # None => e.id \in DOMAIN t.windows
    BY <2>1 DEF Mirrors, HasWindows
  <2>5. CASE e.change = "new" /\ l.place[e.id] = None /\ m = Placed(l, e.id, l.shown[e.output])
    <3>1. e.id \notin DOMAIN t.windows
      BY <2>5 DEF Mirrors, HasWindows
    <3>2. Mirrors(WindowOpen(t, e.id, e.output), m)
      BY <2>1, <2>5, WindowOpenMirrors DEF Placed
    <3>3. Fine(WindowOpen(t, e.id, e.output))
      BY <3>2 DEF Mirrors
    <3>4. Handled(t, e) = WindowOpen(t, e.id, e.output)
      BY <1>2, <2>5, <3>1, <3>3 DEF Handled, WindowHandled
    <3> QED  BY <3>2, <3>4
  <2>6. CASE e.change = "focus" /\ l.place[e.id] # None /\ m = l
    <3>1. Handled(t, e) = WindowVisible(t, e.id)
      BY <1>2, <2>3, <2>4, <2>6 DEF Handled, WindowHandled
    <3> QED  BY <2>1, <2>6, <3>1, WindowVisibleMirrors
  <2>7. CASE /\ e.change = "urgent" /\ l.place[e.id] # None
             /\ m = Layout(l.home, l.shown, l.focus, l.place,
                           IF e.urgent THEN l.urgent \cup {e.id} ELSE l.urgent \ {e.id})
    <3>1. Handled(t, e) = WindowUrgent(t, e.id, e.urgent)
      BY <1>2, <2>3, <2>4, <2>7 DEF Handled, WindowHandled
    <3>2. Mirrors(WindowUrgent(t, e.id, e.urgent),
                  Layout(l.home, l.shown, l.focus, l.place,
                         IF e.urgent THEN l.urgent \cup {e.id} ELSE l.urgent \ {e.id}))
      BY <2>1, <2>2, <2>7, WindowUrgentMirrors
    <3> QED  BY <2>7, <3>1, <3>2
  <2>8. CASE /\ e.change = "move" /\ l.place[e.id] # None /\ e.id \notin l.urgent
             /\ m = Placed(l, e.id, l.shown[e.output])
    <3>1. Handled(t, e) = WindowMove(t, e.id, e.output)
      BY <1>2, <2>3, <2>4, <2>8 DEF Handled, WindowHandled
    <3> QED  BY <2>1, <2>8, <3>1, WindowMoveMirrors DEF Placed
  <2>9. CASE /\ e.change = "close" /\ l.place[e.id] # None /\ e.id \notin l.urgent
             /\ m = Placed(l, e.id, None)
    <3>1. Handled(t, e) = WindowClose(t, e.id)
      BY <1>2, <2>3, <2>4, <2>9 DEF Handled, WindowHandled
    <3> QED  BY <2>1, <2>9, <3>1, WindowCloseMirrors DEF Placed
  <2> QED  BY <2>1, <2>5, <2>6, <2>7, <2>8, <2>9 DEF WindowFollows
<1> QED  BY <1>1, <1>2

------------------------------------------------------------------------------
(* An update *)

LEMMA QueryWellFormed ==
  ASSUME NEW t, WellFormed(t), NEW s \in [Outputs -> Workspaces]
  PROVE  WellFormed(Shown(t, s))
<1>1. PICK a : Passes(a, t, s, NumOutputs)
  <2>1. NumOutputs \in Nat /\ DOMAIN s = 1 .. NumOutputs
    BY ManagerAssumption DEF Outputs
  <2> QED  BY <2>1, FoldSteps
<1> DEFINE S == {k \in 0 .. NumOutputs : ~WellFormed(a[k])}
<1>2. S = {}
  <2> SUFFICES ASSUME S # {} PROVE FALSE
    OBVIOUS
  <2>1. PICK k \in S : \A j \in S : k <= j
    <3>1. S \subseteq Nat /\ S # {}
      BY ManagerAssumption
    <3> HIDE DEF S
    <3> QED  BY <3>1, LeastExists
  <2>2. k # 0
    BY <1>1 DEF Passes
  <2>3. k \in 1 .. NumOutputs /\ k - 1 \in 0 .. NumOutputs /\ ~(k <= k - 1)
    BY <2>2, ManagerAssumption
  <2>4. WellFormed(a[k - 1])
    BY <2>1, <2>3
  <2>5. WellFormed(WorkspaceVisible(a[k - 1], s[k]))
    BY <2>3, <2>4, WorkspaceVisibleWellFormed DEF Outputs
  <2> QED  BY <1>1, <2>3, <2>5 DEF Passes
<1>3. NumOutputs \in 0 .. NumOutputs
  BY ManagerAssumption
<1> QED  BY <1>1, <1>2, <1>3 DEF Passes

LEMMA ResetWellFormed == WellFormed(Reset)
<1> DEFINE nothing == <<>>
<1>1. /\ nothing \in Partial(Outputs, ToWorkspace) /\ nothing \in Partial(Workspaces, Struct)
      /\ nothing \in Partial(Windows, ToWorkspace)
  <2>1. \A V : nothing \in [{} -> V]
    OBVIOUS
  <2> HIDE DEF nothing
  <2> QED  BY <2>1, MapOf
<1>2. Sound(nothing, nothing, nothing, Null)
  BY Pointers DEF Sound, PointsInto
<1>3. Reset = Tree("fine", nothing, nothing, nothing, Null)
  BY DEF Reset, Tree
<1> HIDE DEF nothing
<1> QED  BY <1>1, <1>2, <1>3, WellFormedOf, Pointers

\* What the first query reads.
LEMMA ParsedTyped ==
  ASSUME Ordered
  PROVE  /\ WellFormed(Parsed)
         /\ Parsed = Tree("fine", Parsed.outputs, Parsed.workspaces, Parsed.windows, focus)
         /\ DOMAIN Parsed.outputs = Outputs
         /\ HasWindows(Parsed.windows, place)
         /\ \A u : HasWorkspaces(Parsed.workspaces, home, place, u)
<1> DEFINE Called(n) == IF top[n] = None THEN Null ELSE top[n]
           Read(n)   == [output |-> home[n], urgent |-> FALSE, focused_window |-> Called(n),
                         last_urgent_window |-> Null]
           outputs    == [o \in Outputs |-> IF home[focus] < o THEN focus ELSE Null]
           workspaces == [n \in {m \in Workspaces : Exists(m)} |-> Read(n)]
           windows    == [w \in {v \in Windows : place[v] # None} |-> place[w]]
<1>1. Parsed = Tree("fine", outputs, workspaces, windows, focus)
  BY DEF Parsed, Tree
<1>2. outputs \in Partial(Outputs, ToWorkspace)
  <2>1. outputs \in [Outputs -> ToWorkspace]
    BY OrderedTypes, Pointers
  <2> HIDE DEF outputs
  <2> QED  BY <2>1, MapOf
<1>3. ASSUME NEW n \in Workspaces, Exists(n)
      PROVE  /\ Read(n) \in Struct /\ Read(n).output = home[n]
             /\ Read(n).focused_window = Called(n) /\ Read(n).last_urgent_window = Null
             /\ Called(n) # Null => Called(n) \in Windows /\ place[Called(n)] = n
  <2>1. Called(n) \in ToWindow /\ home[n] \in Outputs
    BY <1>3, OrderedTypes, Pointers DEF Exists
  <2>2. Called(n) # Null => Called(n) \in Windows /\ place[Called(n)] = n
    BY OrderedTypes DEF Ordered
  <2> HIDE DEF Called
  <2>3. Read(n) \in Struct
    BY <2>1, Pointers DEF Struct
  <2> QED  BY <2>2, <2>3
<1>4. workspaces \in Partial(Workspaces, Struct)
  <2>1. workspaces \in [{m \in Workspaces : Exists(m)} -> Struct]
    <3> HIDE DEF Read
    <3> QED  BY <1>3
  <2> HIDE DEF workspaces
  <2> QED  BY <2>1, MapOf
<1>5. windows \in Partial(Windows, ToWorkspace)
  <2>1. windows \in [{v \in Windows : place[v] # None} -> ToWorkspace]
    BY OrderedTypes, Pointers
  <2> HIDE DEF windows
  <2> QED  BY <2>1, MapOf
<1>6. HasWindows(windows, place)
  BY DEF HasWindows
<1>7. ASSUME NEW u PROVE HasWorkspaces(workspaces, home, place, u)
  <2>1. /\ DOMAIN workspaces = {m \in Workspaces : home[m] # None}
        /\ \A n \in DOMAIN workspaces : workspaces[n] = Read(n)
    BY DEF Exists
  <2> HIDE DEF workspaces, Read, Called
  <2> QED  BY <1>3, <2>1 DEF HasWorkspaces, Names, Exists
<1>8. Sound(outputs, workspaces, windows, focus)
  <2>1. \A n \in Workspaces : home[n] # None => n \in DOMAIN workspaces
    BY DEF Exists
  <2>2. PointsInto(focus, workspaces)
    BY <2>1 DEF Ordered, PointsInto
  <2>3. \A o \in DOMAIN outputs : PointsInto(outputs[o], workspaces)
    BY <2>2, Pointers DEF PointsInto
  <2>4. \A w \in DOMAIN windows : PointsInto(windows[w], workspaces)
    BY <2>1, OrderedTypes DEF Ordered, PointsInto
  <2>5. ASSUME NEW n \in DOMAIN workspaces
        PROVE  /\ workspaces[n].output \in DOMAIN outputs
               /\ PointsInto(workspaces[n].focused_window, windows)
               /\ PointsInto(workspaces[n].last_urgent_window, windows)
    <3>1. n \in Workspaces /\ Exists(n) /\ workspaces[n] = Read(n)
      OBVIOUS
    <3>2. home[n] \in Outputs /\ n # None
      BY <3>1, HomeTyped, Numbered
    <3>3. /\ Read(n).output = home[n] /\ Read(n).last_urgent_window = Null
          /\ Read(n).focused_window = Called(n)
          /\ Called(n) # Null => Called(n) \in Windows /\ place[Called(n)] = n
      BY <1>3, <3>1
    <3>4. DOMAIN outputs = Outputs /\ DOMAIN windows = {v \in Windows : place[v] # None}
      OBVIOUS
    <3> HIDE DEF outputs, workspaces, windows, Read, Called
    <3> QED  BY <3>1, <3>2, <3>3, <3>4, Pointers DEF PointsInto
  <2> HIDE DEF outputs, workspaces, windows
  <2> QED  BY <2>2, <2>3, <2>4, <2>5 DEF Sound
<1>9. DOMAIN outputs = Outputs
  OBVIOUS
<1> HIDE DEF outputs, workspaces, windows
<1>10. WellFormed(Parsed)
  BY <1>1, <1>2, <1>4, <1>5, <1>8, WellFormedOf, OrderedTypes, Pointers
<1>11. /\ Parsed.outputs = outputs /\ Parsed.workspaces = workspaces
       /\ Parsed.windows = windows
  BY <1>1, TreeParts
<1> QED  BY <1>1, <1>6, <1>7, <1>9, <1>10, <1>11

\* Whatever display_add made of the outputs, the second query puts right.
LEMMA QueryShows ==
  ASSUME Ordered
  PROVE  Shown(Parsed, shown) =
           Tree("fine", shown, Parsed.workspaces, Parsed.windows, focus)
<1>1. PICK a : Passes(a, Parsed, shown, NumOutputs)
  <2>1. NumOutputs \in Nat /\ DOMAIN shown = 1 .. NumOutputs
    BY ManagerAssumption, OrderedTypes DEF Outputs
  <2> QED  BY <2>1, FoldSteps
<1> DEFINE half(k)    == [o \in Outputs |-> IF o <= k THEN shown[o] ELSE Parsed.outputs[o]]
           Visited(k) == a[k] = Tree("fine", half(k), Parsed.workspaces, Parsed.windows, focus)
           S          == {k \in 0 .. NumOutputs : ~Visited(k)}
<1>2. Visited(0)
  <2>1. half(0) = [o \in Outputs |-> Parsed.outputs[o]]
    BY DEF Outputs
  <2>2. Parsed.outputs = [o \in Outputs |-> Parsed.outputs[o]]
    BY ParsedTyped, WellFormedParts, MapTyped
  <2> HIDE DEF half
  <2> QED  BY <1>1, <2>1, <2>2, ParsedTyped DEF Passes
<1>3. ASSUME NEW k \in 1 .. NumOutputs, Visited(k - 1)
      PROVE  WellFormed(a[k - 1]) => Visited(k)
  <2> SUFFICES ASSUME WellFormed(a[k - 1]) PROVE Visited(k)
    OBVIOUS
  <2>1. k \in Outputs /\ shown[k] \in Workspaces /\ home[shown[k]] = k /\ k # None
    BY OrderedTypes, Numbered DEF Ordered, Outputs
  <2>2. shown[k] \in DOMAIN Parsed.workspaces /\ Parsed.workspaces[shown[k]].output = k
    BY <2>1, ParsedTyped DEF HasWorkspaces
  <2>3. /\ a[k - 1].fate = "fine" /\ a[k - 1].outputs = half(k - 1)
        /\ a[k - 1].workspaces = Parsed.workspaces /\ a[k - 1].windows = Parsed.windows
        /\ a[k - 1].focused = focus
    <3> HIDE DEF half
    <3> QED  BY <1>3, TreeParts
  <2>4. half(k) = [half(k - 1) EXCEPT ![k] = shown[k]]
    <3>1. \A o \in Outputs : (o <= k) <=> (o <= k - 1 \/ o = k)
      BY DEF Outputs
    <3>2. half(k) = [o \in Outputs |-> IF o = k THEN shown[k] ELSE half(k - 1)[o]]
      BY <3>1
    <3>3. half(k - 1) = [o \in Outputs |-> half(k - 1)[o]]
      OBVIOUS
    <3> HIDE DEF half
    <3> QED  BY <2>1, <3>2, <3>3
  <2> HIDE DEF half
  <2>5. WorkspaceVisible(a[k - 1], shown[k]) =
          Tree("fine", [half(k - 1) EXCEPT ![k] = shown[k]], Parsed.workspaces,
               Parsed.windows, focus)
    BY <2>2, <2>3, WellFormedParts, VisibleEffect
  <2> QED  BY <1>1, <2>4, <2>5 DEF Passes
<1>4. ASSUME NEW k \in 0 .. NumOutputs, Visited(k)
      PROVE  WellFormed(a[k])
  <2>1. half(k) \in Partial(Outputs, ToWorkspace)
    <3>1. half(k) \in [Outputs -> ToWorkspace]
      BY ParsedTyped, WellFormedParts, MapTyped, OrderedTypes, Pointers
    <3> HIDE DEF half
    <3> QED  BY <3>1, MapOf
  <2>2. Sound(half(k), Parsed.workspaces, Parsed.windows, focus)
    <3>1. Sound(Parsed.outputs, Parsed.workspaces, Parsed.windows, Parsed.focused)
      BY ParsedTyped, WellFormedParts
    <3>2. \A o \in Outputs : shown[o] \in DOMAIN Parsed.workspaces
      BY ParsedTyped, OrderedTypes, Numbered DEF HasWorkspaces, Ordered
    <3>3. \A o \in Outputs : half(k)[o] \in {shown[o], Parsed.outputs[o]}
      OBVIOUS
    <3>4. DOMAIN half(k) = Outputs /\ DOMAIN Parsed.outputs = Outputs /\ Parsed.focused = focus
      BY ParsedTyped, TreeParts
    <3> HIDE DEF half
    <3> QED  BY <3>1, <3>2, <3>3, <3>4 DEF Sound, PointsInto
  <2> HIDE DEF half
  <2> QED  BY <1>4, <2>1, <2>2, ParsedTyped, WellFormedParts, WellFormedOf, OrderedTypes, Pointers
<1>5. S = {}
  <2> SUFFICES ASSUME S # {} PROVE FALSE
    OBVIOUS
  <2>1. PICK k \in S : \A j \in S : k <= j
    <3>1. S \subseteq Nat /\ S # {}
      BY ManagerAssumption
    <3> HIDE DEF S
    <3> QED  BY <3>1, LeastExists
  <2> HIDE DEF Visited
  <2>2. k # 0
    BY <1>2
  <2>3. k \in 1 .. NumOutputs /\ k - 1 \in 0 .. NumOutputs /\ ~(k <= k - 1)
    BY <2>2, ManagerAssumption
  <2>4. Visited(k - 1)
    BY <2>1, <2>3
  <2>5. Visited(k)
    BY <1>3, <1>4, <2>3, <2>4
  <2> QED  BY <2>5
<1>6. a[NumOutputs] = Tree("fine", half(NumOutputs), Parsed.workspaces, Parsed.windows, focus)
  <2>1. NumOutputs \in 0 .. NumOutputs
    BY ManagerAssumption
  <2> QED  BY <1>5, <2>1
<1>7. half(NumOutputs) = shown
  BY OrderedTypes DEF Outputs
<1> HIDE DEF half
<1> QED  BY <1>1, <1>6, <1>7 DEF Passes

LEMMA QueryMirrors ==
  ASSUME Ordered
  PROVE  Mirrors(Shown(Parsed, shown), Desk)
<1>1. Mirrors(Tree("fine", shown, Parsed.workspaces, Parsed.windows, focus), Desk)
  BY ParsedTyped, TreeMirrors DEF Desk
<1> QED  BY <1>1, QueryShows

LEMMA QueryNames ==
  ASSUME Ordered
  PROVE  \A n \in DOMAIN Shown(Parsed, shown).workspaces :
           Shown(Parsed, shown).workspaces[n].focused_window =
             IF top[n] = None THEN Null ELSE top[n]
<1>1. \A n \in DOMAIN Parsed.workspaces :
        Parsed.workspaces[n].focused_window = IF top[n] = None THEN Null ELSE top[n]
  BY DEF Parsed
<1>2. Shown(Parsed, shown).workspaces = Parsed.workspaces
  BY QueryShows, TreeParts
<1> QED  BY <1>1, <1>2

LEMMA OutputsRead ==
  ASSUME QueryOutputs
  PROVE  tree' = Shown(tree, shown)
BY DEF QueryOutputs, Shown

------------------------------------------------------------------------------
(* The types *)

Typed == TypeOK /\ Ordered

LEMMA InitTyped == Init => Typed
<1> SUFFICES ASSUME Init PROVE Typed
  OBVIOUS
<1>1. Ordered
  BY ManagerInit DEF Init
<1>2. WellFormed(tree)
  BY ResetWellFormed DEF Init
<1>3. torn \in BOOLEAN
  BY DEF Init
<1> QED  BY <1>1, <1>2, <1>3 DEF Init, Typed, TypeOK, Ordered

\* A step of the item leaves the desktop alone.
LEMMA StillOrdered ==
  ASSUME Typed, UNCHANGED desktop, events' \in Seq(Messages), Len(events') <= MaxEvents
  PROVE  Ordered'
BY DEF Typed, Ordered, desktop

LEMMA FirstEvent ==
  ASSUME Typed, HandleMessage
  PROVE  /\ events \in Seq(Messages) /\ events # <<>>
         /\ Head(events) \in Messages
         /\ events' \in Seq(Messages) /\ Len(events') <= MaxEvents
         /\ tree' = Handled(tree, Head(events))
<1>1. /\ events \in Seq(Messages) /\ Len(events) <= MaxEvents /\ events # <<>>
      /\ events' = Tail(events) /\ tree' = Handled(tree, Head(events))
  BY DEF Typed, Ordered, HandleMessage, Handled
<1>2. /\ Head(events) \in Messages /\ Tail(events) \in Seq(Messages)
      /\ Len(events) \in Nat /\ Len(Tail(events)) = Len(events) - 1
  BY <1>1, HeadTailProperties
<1> QED  BY <1>1, <1>2, ManagerAssumption

LEMMA NextTyped == Typed /\ [Next]_vars => Typed'
<1> SUFFICES ASSUME Typed, [Next]_vars PROVE Typed'
  OBVIOUS
<1>1. /\ WellFormed(tree) /\ Ordered /\ events \in Seq(Messages) /\ Len(events) <= MaxEvents
  BY DEF Typed, TypeOK
<1>2. ASSUME WellFormed(tree)', Ordered', torn' \in BOOLEAN,
             pc' \in {"start", "drain", "update", "outputs", "print"}
      PROVE  Typed'
  BY <1>2 DEF Typed, TypeOK, Ordered
<1>3. torn \in BOOLEAN
  BY DEF Typed, TypeOK
<1>4. pc \in {"start", "drain", "update", "outputs", "print"}
  BY DEF Typed, TypeOK
<1>5. CASE QueryTree
  <2>1. /\ tree' = Parsed /\ pc' = "outputs" /\ UNCHANGED desktop /\ events' = events
    BY <1>5 DEF QueryTree
  <2>2. torn' \in BOOLEAN
    BY <1>5 DEF QueryTree
  <2>3. WellFormed(tree')
    BY <1>1, <2>1, ParsedTyped
  <2> QED  BY <1>1, <1>2, <2>1, <2>2, <2>3, StillOrdered
<1>6. CASE QueryOutputs
  <2>1. pc' = "print" /\ UNCHANGED desktop /\ events' = events /\ torn' = torn
    BY <1>6 DEF QueryOutputs
  <2>2. WellFormed(tree')
    BY <1>1, <1>6, OutputsRead, OrderedTypes, QueryWellFormed
  <2> QED  BY <1>1, <1>2, <1>3, <2>1, <2>2, StillOrdered
<1>7. CASE SkipUpdate \/ Drained
  <2>1. /\ pc' \in {"print", "update"} /\ UNCHANGED desktop /\ events' = events
        /\ tree' = tree /\ torn' = torn
    BY <1>7 DEF SkipUpdate, Drained
  <2> QED  BY <1>1, <1>2, <1>3, <2>1, StillOrdered
<1>8. CASE HandleMessage
  <2>1. pc' = pc /\ UNCHANGED desktop /\ torn' = torn
    BY <1>8 DEF HandleMessage
  <2>2. WellFormed(tree')
    BY <1>1, <1>8, FirstEvent, HandledWellFormed
  <2> QED  BY <1>2, <1>3, <1>4, <1>8, <2>1, <2>2, FirstEvent, StillOrdered
<1>9. CASE PrintRaw
  <2>1. /\ pc' = "drain" /\ UNCHANGED desktop /\ events' = events /\ torn' = torn
        /\ tree' = tree \/ tree' = [tree EXCEPT !.fate = "wild"]
    BY <1>9 DEF PrintRaw
  <2>2. WellFormed(tree')
    BY <1>1, <2>1, FateWellFormed
  <2> QED  BY <1>1, <1>2, <1>3, <2>1, <2>2, StillOrdered
<1>10. CASE Change
  <2>1. WMNext /\ pc' = pc /\ tree' = tree
    BY <1>10 DEF Change
  <2>2. torn' \in BOOLEAN
    BY <1>3, <1>10 DEF Change
  <2> QED  BY <1>1, <1>2, <1>4, <2>1, <2>2, ManagerStep
<1>11. CASE UNCHANGED vars
  <2>1. UNCHANGED <<desktop, events, pc, tree, torn>>
    BY <1>11 DEF vars
  <2> QED  BY <1>1, <1>2, <1>3, <1>4, <2>1, StillOrdered
<1> QED  BY <1>5, <1>6, <1>7, <1>8, <1>9, <1>10, <1>11 DEF Next, Step

------------------------------------------------------------------------------
(* The mirror *)

\* Between updates the mirror lags behind i3 by the events nobody has read yet.
Following ==
  /\ pc = "start" => tree = Reset
  /\ pc = "outputs" => events = <<>> /\ tree = Parsed
  /\ pc \in {"drain", "update", "print"} =>
       \E l \in Layouts : Mirrors(tree, l) /\ Leads(l, events, Desk)

Tracks == Alive /\ ~torn => Following

LEMMA InitTracks == Init => Tracks
BY DEF Init, Tracks, Following

LEMMA SameDesk ==
  ASSUME UNCHANGED desktop
  PROVE  Desk' = Desk /\ Parsed' = Parsed
BY DEF desktop, Desk, Layout, Parsed, Exists

LEMMA NextTracks ==
  ASSUME Typed, Tracks, [Next]_vars, ~HiddenMoves
  PROVE  Tracks'
<1> SUFFICES ASSUME Alive', ~torn' PROVE Following'
  BY DEF Tracks
<1>1. WellFormed(tree) /\ Ordered /\ events \in Seq(Messages)
  BY DEF Typed, TypeOK, Ordered
<1>2. CASE QueryTree
  <2>1. /\ tree' = Parsed /\ pc' = "outputs" /\ UNCHANGED desktop /\ events' = events
        /\ events = <<>>
    BY <1>2 DEF QueryTree
  <2> QED  BY <2>1, SameDesk DEF Following
<1>3. CASE QueryOutputs
  <2>1. /\ pc = "outputs" /\ Alive /\ ~torn /\ pc' = "print" /\ UNCHANGED desktop
        /\ events' = events
    BY <1>3 DEF QueryOutputs
  <2>2. events = <<>> /\ tree = Parsed
    BY <2>1 DEF Tracks, Following
  <2>3. Mirrors(tree', Desk)
    BY <1>1, <1>3, <2>2, OutputsRead, QueryMirrors
  <2>4. Leads(Desk, events', Desk') /\ Desk \in Layouts
    BY <1>1, <2>1, <2>2, SameDesk, HomeTyped, LeadsNowhere
  <2> QED  BY <2>1, <2>3, <2>4 DEF Following
<1>4. CASE SkipUpdate \/ Drained \/ PrintRaw
  <2>1. /\ Alive /\ ~torn /\ pc \in {"drain", "update", "print"}
        /\ pc' \in {"drain", "update", "print"} /\ UNCHANGED desktop /\ events' = events
        /\ tree' = tree \/ tree' = [tree EXCEPT !.fate = "wild"]
    BY <1>4 DEF SkipUpdate, Drained, PrintRaw
  <2>2. tree' = tree
    <3>1. tree' # [tree EXCEPT !.fate = "wild"]
      <4>1. [tree EXCEPT !.fate = "wild"].fate = "wild"
        BY <1>1, WellFormedParts, TreeTyped DEF Tree
      <4> QED  BY <4>1 DEF Alive, Fine
    <3> QED  BY <2>1, <3>1
  <2>3. PICK l \in Layouts : Mirrors(tree, l) /\ Leads(l, events, Desk)
    BY <2>1 DEF Tracks, Following
  <2> QED  BY <2>1, <2>2, <2>3, SameDesk DEF Following
<1>5. CASE HandleMessage
  <2>1. /\ Alive /\ ~torn /\ pc = "drain" /\ pc' = "drain" /\ UNCHANGED desktop
        /\ events' = Tail(events)
    BY <1>5 DEF HandleMessage
  <2>2. PICK l \in Layouts : Mirrors(tree, l) /\ Leads(l, events, Desk)
    BY <2>1 DEF Tracks, Following
  <2>3. PICK m \in Layouts : Follows(l, Head(events), m) /\ Leads(m, Tail(events), Desk)
    BY <1>1, <1>5, <2>2, FirstEvent, LeadsFirst
  <2>4. Mirrors(tree', m)
    BY <1>1, <1>5, <2>2, <2>3, FirstEvent, HandledMirrors
  <2> QED  BY <2>1, <2>3, <2>4, SameDesk DEF Following
<1>6. CASE Change
  <2>1. Alive /\ ~torn /\ pc # "outputs" /\ WMNext /\ pc' = pc /\ tree' = tree
    BY <1>6 DEF Change
  <2>2. pc \in {"start", "drain", "update", "print"}
    BY <2>1 DEF Typed, TypeOK
  <2>3. CASE pc = "start"
    BY <2>1, <2>3 DEF Tracks, Following
  <2>4. CASE pc \in {"drain", "update", "print"}
    <3>1. PICK l \in Layouts : Mirrors(tree, l) /\ Leads(l, events, Desk)
      BY <2>1, <2>4 DEF Tracks, Following
    <3>2. PICK s \in Seq(Messages) : events' = events \o s /\ Leads(Desk, s, Desk')
      BY <1>1, <2>1, ManagerStep DEF Told
    <3>3. Leads(l, events', Desk')
      BY <1>1, <3>1, <3>2, LeadsOn
    <3> QED  BY <2>1, <2>4, <3>1, <3>3 DEF Following
  <2> QED  BY <2>2, <2>3, <2>4
<1>7. CASE UNCHANGED vars
  <2>1. UNCHANGED <<desktop, events, pc, tree, torn>>
    BY <1>7 DEF vars
  <2>2. Following
    BY <2>1 DEF Tracks, Alive
  <2> QED  BY <2>1, <2>2, SameDesk DEF Following
<1> QED  BY <1>2, <1>3, <1>4, <1>5, <1>6, <1>7 DEF Next, Step

------------------------------------------------------------------------------
(* An update that crossed no change *)

\* Between the two queries the tree is what the first one read.
Read == Alive /\ ~torn /\ pc = "outputs" => tree = Parsed

LEMMA InitRead == Init => Read
BY DEF Init, Read

LEMMA NextRead ==
  ASSUME Read, [Next]_vars
  PROVE  Read'
<1> SUFFICES ASSUME ~torn', pc' = "outputs" PROVE Read'
  BY DEF Read
<1>1. CASE QueryTree
  <2>1. tree' = Parsed /\ UNCHANGED desktop
    BY <1>1 DEF QueryTree
  <2> QED  BY <2>1, SameDesk DEF Read
<1>2. CASE QueryOutputs \/ SkipUpdate \/ Drained \/ PrintRaw
  BY <1>2 DEF QueryOutputs, SkipUpdate, Drained, PrintRaw
<1>3. CASE HandleMessage
  BY <1>3 DEF HandleMessage
<1>4. CASE Change
  BY <1>4 DEF Change
<1>5. CASE UNCHANGED vars
  <2>1. UNCHANGED <<desktop, pc, tree, torn>>
    BY <1>5 DEF vars
  <2> QED  BY <2>1, SameDesk DEF Read, Alive
<1> QED  BY <1>1, <1>2, <1>3, <1>4, <1>5 DEF Next, Step

------------------------------------------------------------------------------
(* What follows from the mirror *)

\* Who knows the last event knows the desktop.
LEMMA LedNowhere ==
  ASSUME NEW l, NEW m, Leads(l, <<>>, m)
  PROVE  l = m
<1>1. Len(<<>>) = 0
  OBVIOUS
<1> QED  BY <1>1 DEF Leads

LEMMA MirrorsDesk == Typed /\ Mirrors(tree, Desk) => SameLayout
<1> SUFFICES ASSUME Typed, Mirrors(tree, Desk) PROVE SameLayout
  OBVIOUS
<1>1. /\ tree.outputs = shown /\ tree.focused = focus
      /\ HasWindows(tree.windows, place) /\ HasWorkspaces(tree.workspaces, home, place, urgent)
  BY DEF Mirrors, Desk, Layout
<1>2. tree.windows = [w \in {v \in Windows : place[v] # None} |-> place[w]]
  <2>1. tree.windows = [w \in DOMAIN tree.windows |-> tree.windows[w]]
    BY WellFormedParts, MapTyped DEF Typed, TypeOK
  <2> QED  BY <1>1, <2>1 DEF HasWindows
<1> QED  BY <1>1, <1>2 DEF SameLayout, HasWorkspaces, Exists

LEMMA ReadRepairs ==
  ASSUME Typed, Read, Typed', QueryOutputs, ~torn
  PROVE  SameLayout' /\ SameTitles'
<1>1. /\ tree = Parsed /\ Ordered /\ UNCHANGED desktop
  BY DEF Typed, Read, QueryOutputs
<1>2. tree' = Shown(Parsed, shown)
  BY <1>1, OutputsRead
<1>3. SameLayout'
  <2>1. Mirrors(tree, Desk)'
    BY <1>1, <1>2, QueryMirrors, SameDesk
  <2>2. Typed' /\ Mirrors(tree, Desk)' => SameLayout'
    BY MirrorsDesk, PTL
  <2> QED  BY <2>1, <2>2
<1>4. top' = top
  BY <1>1 DEF desktop
<1>5. SameTitles'
  BY <1>1, <1>2, <1>4, QueryNames DEF SameTitles
<1> QED  BY <1>3, <1>5

LEMMA TracksInStep ==
  ASSUME Typed, Tracks
  PROVE  InStepWhenDrained
<1> SUFFICES ASSUME Alive, events = <<>>, pc \notin {"start", "outputs"}, ~torn
             PROVE  SameLayout
  BY DEF InStepWhenDrained
<1>1. pc \in {"drain", "update", "print"}
  BY DEF Typed, TypeOK
<1>2. PICK l \in Layouts : Mirrors(tree, l) /\ Leads(l, events, Desk)
  BY <1>1 DEF Tracks, Following
<1>3. l = Desk
  BY <1>2, LedNowhere
<1> QED  BY <1>2, <1>3, MirrorsDesk

LEMMA NoneDangles ==
  /\ \A n \in Workspaces : n # Dangling
  /\ \A w \in Windows : w # Dangling
  /\ Null # Dangling
BY PointerAssumption

LEMMA TracksLive ==
  ASSUME Typed, Tracks
  PROVE  PointersLive
<1> SUFFICES ASSUME Alive, ~torn, Following
             PROVE  /\ tree.focused # Dangling
                    /\ \A o \in DOMAIN tree.outputs : tree.outputs[o] # Dangling
                    /\ \A w \in DOMAIN tree.windows : tree.windows[w] # Dangling
                    /\ \A n \in DOMAIN tree.workspaces :
                         /\ tree.workspaces[n].focused_window # Dangling
                         /\ tree.workspaces[n].last_urgent_window # Dangling
  BY DEF PointersLive, Tracks
<1>1. CASE pc = "start"
  BY <1>1, NoneDangles DEF Following, Reset
<1>2. CASE pc = "outputs"
  <2>1. Ordered /\ tree = Parsed
    BY <1>2 DEF Typed, Following
  <2>2. /\ HasWindows(tree.windows, place)
        /\ HasWorkspaces(tree.workspaces, home, place, urgent)
        /\ tree.focused = focus /\ focus \in Workspaces
    BY <2>1, ParsedTyped, TreeParts, OrderedTypes
  <2>3. \A o \in DOMAIN tree.outputs : tree.outputs[o] \in {focus, Null}
    BY <2>1 DEF Parsed
  <2>4. \A w \in DOMAIN tree.windows : tree.windows[w] \in Workspaces
    BY <2>1, <2>2, OrderedTypes DEF HasWindows
  <2>5. \A n \in DOMAIN tree.workspaces :
          /\ tree.workspaces[n].focused_window \in Windows \cup {Null}
          /\ tree.workspaces[n].last_urgent_window \in Windows \cup {Null}
    BY <2>1, <2>2, OrderedTypes DEF HasWorkspaces, Names
  <2> QED  BY <2>2, <2>3, <2>4, <2>5, NoneDangles
<1>3. CASE pc \in {"drain", "update", "print"}
  <2>1. PICK l \in Layouts : Mirrors(tree, l)
    BY <1>3 DEF Following
  <2>2. /\ tree.focused \in Workspaces
        /\ \A o \in DOMAIN tree.outputs : tree.outputs[o] \in Workspaces
    BY <2>1, LayoutParts DEF Mirrors
  <2>3. \A w \in DOMAIN tree.windows : tree.windows[w] \in Workspaces
    BY <2>1, LayoutParts DEF Mirrors, HasWindows
  <2>4. \A n \in DOMAIN tree.workspaces :
          /\ tree.workspaces[n].focused_window \in Windows \cup {Null}
          /\ tree.workspaces[n].last_urgent_window \in Windows \cup {Null}
    BY <2>1, LayoutParts DEF Mirrors, HasWorkspaces, Names
  <2> QED  BY <2>2, <2>3, <2>4, NoneDangles
<1>4. pc \in {"start", "drain", "update", "outputs", "print"}
  BY DEF Typed, TypeOK
<1> QED  BY <1>1, <1>2, <1>3, <1>4

LEMMA TracksFresh ==
  ASSUME Typed, Tracks, HandleMessage, ~torn
  PROVE  Alive'
<1>1. WellFormed(tree) /\ events \in Seq(Messages) /\ Alive /\ pc = "drain"
  BY DEF Typed, TypeOK, HandleMessage
<1>2. PICK l \in Layouts : Mirrors(tree, l) /\ Leads(l, events, Desk)
  BY <1>1 DEF Tracks, Following
<1>3. PICK m \in Layouts : Follows(l, Head(events), m)
  BY <1>1, <1>2, FirstEvent, LeadsFirst
<1>4. Mirrors(tree', m)
  BY <1>1, <1>2, <1>3, FirstEvent, HandledMirrors
<1> QED  BY <1>4 DEF Mirrors, Alive

------------------------------------------------------------------------------
(* Theorems *)

\* Whatever i3 sends and whenever the item reads it, every variable has its type, and
\* every pointer of the mirror that is not null or known to dangle points to a struct
\* that is still in its map: no erase of workspace_event or window_event leaves a
\* pointer that looks alive.
THEOREM I3Typed == Spec => []TypeOK
<1>1. Typed => TypeOK
  BY DEF Typed
<1> QED  BY <1>1, InitTyped, NextTyped, PTL DEF Spec

\* i3's own desktop stays in order, so that the events the proofs below are about are
\* those of desktops that make sense.
THEOREM DesktopOrdered == Spec => []Ordered
<1>1. Typed => Ordered
  BY DEF Typed
<1> QED  BY <1>1, InitTyped, NextTyped, PTL DEF Spec

\* Whatever events and updates came before, and wherever windows were sent, an update
\* that crossed no change makes the mirror i3's layout again (query_tree).
THEOREM UpdateAlwaysRepairs == Spec => UpdateRepairs
<1>1. Typed /\ Read /\ [Next]_vars => Typed' /\ Read'
  BY NextTyped, NextRead
<1>2. Typed /\ Read /\ Typed' => [QueryOutputs /\ ~torn => (SameLayout /\ SameTitles)']_vars
  BY ReadRepairs
<1> QED  BY <1>1, <1>2, InitTyped, InitRead, PTL DEF Spec, UpdateRepairs

\* Whenever the bar is printed, the displays print_raw counts along the indices are the
\* monitors from left to right, by EightFit.
THEOREM DisplaysLeftToRight == Spec => []OutputsLeftToRight
<1>1. OutputsLeftToRight
  BY EightFit DEF OutputsLeftToRight
<1> QED  BY <1>1, PTL

\* If no window is sent to a hidden workspace, the mirror lags behind i3 by the unread
\* events alone, from any update that crossed no change to the next one.
LEMMA AlwaysTracks ==
  ASSUME ~HiddenMoves
  PROVE  Spec => [](Typed /\ Tracks)
<1>1. Typed /\ Tracks /\ [Next]_vars => Typed' /\ Tracks'
  BY NextTyped, NextTracks
<1> QED  BY <1>1, InitTyped, InitTracks, PTL DEF Spec

\* If no window is sent to a hidden workspace, the events alone keep the mirror right:
\* once all of them are handled, it is i3's layout (handle_message against query_tree).
THEOREM EventsKeepInStep ==
  ASSUME ~HiddenMoves
  PROVE  Spec => []InStepWhenDrained
<1>1. Typed /\ Tracks => InStepWhenDrained
  BY TracksInStep
<1> QED  BY <1>1, AlwaysTracks, PTL

\* ... and in the middle of any burst of events no pointer of the mirror outlives the
\* struct it points to (the erases of workspace_event and window_event).
THEOREM EventsKeepPointersLive ==
  ASSUME ~HiddenMoves
  PROVE  Spec => []PointersLive
<1>1. Typed /\ Tracks => PointersLive
  BY TracksLive
<1> QED  BY <1>1, AlwaysTracks, PTL

\* ... and no event ends the process: every `.at` of handle_message finds its key and
\* every pointer it follows leads to a struct.
THEOREM EventsApply ==
  ASSUME ~HiddenMoves
  PROVE  Spec => FreshEventsApply
<1>1. Typed /\ Tracks => [HandleMessage /\ ~torn => Alive']_vars
  BY TracksFresh
<1> QED  BY <1>1, AlwaysTracks, PTL DEF FreshEventsApply

=============================================================================
