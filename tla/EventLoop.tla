------------------------------ MODULE EventLoop ------------------------------
(***************************************************************************)
(* The main loop of statorange and the bookkeeping every state item        *)
(* inherits: Statorange::run, update, print and handle_signals, and        *)
(* StateItem::update, print, handle_stream_data and wait_for_events, with  *)
(* I3::handle_stream_data_raw, the only stream handler of the program.     *)
(*                                                                         *)
(* The process is single threaded.  What runs beside it is the world it    *)
(* reads: the clock, the kernel's pending signals and the peers of the     *)
(* event sockets, and any of them may move between two steps of the loop.  *)
(***************************************************************************)
EXTENDS Integers, FiniteSets

CONSTANTS
  NumItems,      \* number of configured state items, updated in this order
  EventItems,    \* the items that registered an event socket; the order of
                 \* their descriptors is taken to be the order of the items
  Cooldown,      \* Cooldown[i]: seconds between two updates of item i
  ShowFailed,    \* ShowFailed[i]: item i prints a notice while it is invalid
  Shows,         \* Shows[i]: what item i may display while it is valid
  Never,         \* the age of an item that was never updated; ages saturate here
  MaxWork,       \* bound: seconds one iteration spends outside select
  MaxPending,    \* bound: unread messages of one socket
  MaxBurst       \* bound: messages, hang-ups and signals per iteration

Items == 1 .. NumItems

\* StateItem's constructor folds the cooldowns into a static minimum.
MinCooldown_Longest ==   \* mutant
  CHOOSE c \in {Cooldown[i] : i \in Items} : \A i \in Items : c >= Cooldown[i]
MinCooldown ==
  CHOOSE c \in {Cooldown[i] : i \in Items} : \A i \in Items : c <= Cooldown[i]

Values == UNION {Shows[i] : i \in Items}

\* What can stand on the bar in an item's place besides a value: the warning
\* of a failed item, the empty output of a failed item that hides it, and, for
\* every item until the first print, a bar that was never written.
Rip     == "rip"
Hidden  == "hidden"
Blank   == "blank"
Views   == Values \cup {Rip, Hidden, Blank}

ASSUME ConstantsAssumption ==
  /\ NumItems \in Nat \ {0}
  /\ EventItems \subseteq Items
  /\ Cooldown \in [Items -> Nat]
  /\ ShowFailed \in [Items -> BOOLEAN]
  /\ MaxWork \in Nat /\ MaxPending \in Nat /\ MaxBurst \in Nat
  /\ Never \in Nat
  /\ \A i, j \in Items : Never > Cooldown[i] + Cooldown[j] + 2 * MaxWork

ASSUME ViewsAssumption == Values \cap {Rip, Hidden, Blank} = {}

Signals == {"TERM", "USR1"}
Ended   == {"exited", "aborted"}

VARIABLES
  pc,            \* where Statorange::run is
  \* -- Statorange
  cursor,        \* Statorange::update: the next item to update
  updated,       \* Statorange::update: the local of that name
  force_update,
  dead,
  \* -- StateItem, one entry per item
  valid,
  changed,
  age,           \* now - last_updated
  data,          \* what the item would print while it is valid
  \* -- StateItem::wait_for_events and the stream handler
  ready,         \* descriptors select reported and the loop has yet to visit
  notified,      \* the local `changed` of wait_for_events
  result,        \* the pair handle_stream_data_raw is accumulating
  handling,      \* the item whose stream handler runs, 0 for none
  \* -- outside the process
  screen,        \* what the last line handed to lemonbar shows per item
  inbox,         \* unread messages per event socket
  sock,          \* per event socket: open, eof (peer gone), closed (by us)
  signals,       \* pending signals; a signal pends at most once
  slept,         \* seconds spent in the current select
  worked,        \* seconds spent outside select since it last returned
  burst          \* outside events since select was last entered

loopVars   == <<cursor, updated, force_update, dead>>
itemVars   == <<valid, changed, age, data>>
waitVars   == <<ready, notified, result, handling>>
peerVars   == <<inbox, sock, signals>>
timeVars   == <<slept, worked, burst>>
vars       == <<pc, loopVars, itemVars, waitVars, screen, peerVars, timeVars>>

NoResult == [ok |-> TRUE, changed |-> FALSE]

------------------------------------------------------------------------------
(* Statorange::update and StateItem::update *)

Due(i) == age[i] > Cooldown[i]

\* The condition of StateItem::update.
Refresh_IgnoresForce(i) == Due(i)   \* mutant
Refresh(i) == Due(i) \/ force_update

\* What StateItem::update and handle_stream_data leave in `changed` when the
\* item's own code reported <<ok, new>>.
Flagged_Forgets(i, ok, new) == ok # valid[i] \/ new   \* mutant
Flagged(i, ok, new) == changed[i] \/ ok # valid[i] \/ new

\* What update_raw of the existing items may return and store.  A failure is
\* always reported as a change; new data never goes unreported.
UpdateRaw(i) ==
  {r \in [ok : BOOLEAN, changed : BOOLEAN, data : Shows[i]] :
      /\ ~r.ok => r.changed
      /\ r.data # data[i] => r.changed}

PollItem(i) ==
  /\ pc = "update" /\ cursor = i
  /\ Refresh(i)
  /\ \E r \in UpdateRaw(i) :
       /\ data' = [data EXCEPT ![i] = r.data]
       /\ changed' = [changed EXCEPT ![i] = Flagged(i, r.ok, r.changed)]
       /\ valid' = [valid EXCEPT ![i] = r.ok]
       /\ age' = IF r.ok THEN [age EXCEPT ![i] = 0] ELSE age
  /\ updated' = (changed'[i] \/ updated)
  /\ cursor' = i + 1
  /\ UNCHANGED <<pc, force_update, dead, waitVars, screen, peerVars, timeVars>>

SkipItem_ReportsNothing(i) ==   \* mutant
  /\ pc = "update" /\ cursor = i
  /\ ~Refresh(i)
  /\ updated' = updated
  /\ cursor' = i + 1
  /\ UNCHANGED <<pc, force_update, dead, itemVars, waitVars, screen, peerVars,
                 timeVars>>
SkipItem(i) ==
  /\ pc = "update" /\ cursor = i
  /\ ~Refresh(i)
  /\ updated' = (changed[i] \/ updated)
  /\ cursor' = i + 1
  /\ UNCHANGED <<pc, force_update, dead, itemVars, waitVars, screen, peerVars,
                 timeVars>>

\* Entering select: its timeout starts, and so does the next iteration's count.
EnterWait == slept' = 0 /\ burst' = 0 /\ UNCHANGED worked

FinishUpdate ==
  /\ pc = "update" /\ cursor = NumItems + 1
  /\ force_update' = FALSE /\ updated' = FALSE
  /\ \/ updated /\ pc' = "print" /\ UNCHANGED timeVars
     \/ ~updated /\ pc' = "wait" /\ EnterWait
  /\ UNCHANGED <<cursor, dead, itemVars, waitVars, screen, peerVars>>

(* Statorange::print and StateItem::print *)

Render(i) == IF valid[i] THEN data[i] ELSE IF ShowFailed[i] THEN Rip ELSE Hidden

PrintBar ==
  /\ pc = "print"
  /\ screen' = [i \in Items |-> Render(i)]
  /\ changed' = [i \in Items |-> FALSE]
  /\ pc' = "wait" /\ EnterWait
  /\ UNCHANGED <<loopVars, valid, age, data, waitVars, peerVars>>

------------------------------------------------------------------------------
(* StateItem::wait_for_events *)

Readable(i) == sock[i] # "closed" /\ (inbox[i] > 0 \/ sock[i] = "eof")

ReadableItems == {i \in EventItems : Readable(i)}

\* read_all closed this descriptor, but it is still in event_sockets.
BadDescriptor == \E i \in EventItems : sock[i] = "closed"

\* select neither fails nor finds anything: the process is really asleep.
Asleep == pc = "wait" /\ ~BadDescriptor /\ ReadableItems = {} /\ signals = {}

\* Leaving select, whichever way it returned: the count of its seconds gives
\* way to that of the work.
LeaveWait(next) == pc' = next /\ worked' = 0 /\ slept' = 0 /\ UNCHANGED burst

SelectError ==
  /\ pc = "wait" /\ BadDescriptor
  /\ LeaveWait("signals")
  /\ UNCHANGED <<loopVars, itemVars, waitVars, screen, peerVars>>

SelectTimeout ==
  /\ Asleep /\ slept = MinCooldown
  /\ LeaveWait("signals")
  /\ UNCHANGED <<loopVars, itemVars, waitVars, screen, peerVars>>

SelectReady ==
  /\ pc = "wait" /\ ~BadDescriptor
  /\ ReadableItems # {} \/ signals # {}
  /\ LeaveWait("dispatch")
  /\ ready' = ReadableItems
  /\ notified' = FALSE
  /\ UNCHANGED <<result, handling, loopVars, itemVars, screen, peerVars>>

\* `changed = changed || item->handle_stream_data(fd)`: the handler of the next
\* ready descriptor runs only while no earlier one reported a change.
Notify_Unordered(i) ==   \* mutant
  /\ pc = "dispatch" /\ ~notified
  /\ i \in ready
  /\ handling' = i
  /\ result' = NoResult
  /\ pc' = "drain"
  /\ UNCHANGED <<ready, notified, loopVars, itemVars, screen, peerVars, timeVars>>
Notify(i) ==
  /\ pc = "dispatch" /\ ~notified
  /\ i \in ready /\ \A j \in ready : i <= j
  /\ handling' = i
  /\ result' = NoResult
  /\ pc' = "drain"
  /\ UNCHANGED <<ready, notified, loopVars, itemVars, screen, peerVars, timeVars>>

FinishDispatch ==
  /\ pc = "dispatch" /\ (notified \/ ready = {})
  /\ ready' = {} /\ notified' = FALSE
  /\ pc' = "signals"
  /\ UNCHANGED <<result, handling, loopVars, itemVars, screen,
                 peerVars, timeVars>>

(* I3::handle_stream_data_raw, called recursively while has_input(fd) *)

\* One packet: an event applied to the model, or one with a broken magic string.
ReadMessage_WithoutInput(i) ==   \* mutant
  /\ pc = "drain" /\ handling = i /\ sock[i] # "closed"
  /\ inbox' = [inbox EXCEPT ![i] = @ - 1]
  /\ result' = [result EXCEPT !.changed = TRUE]
  /\ UNCHANGED <<pc, loopVars, itemVars, ready, notified, handling, screen, sock,
                 signals, timeVars>>
ReadMessage(i) ==
  /\ pc = "drain" /\ handling = i /\ sock[i] # "closed" /\ inbox[i] > 0
  /\ inbox' = [inbox EXCEPT ![i] = @ - 1]
  /\ \/ /\ \E v \in Shows[i] : data' = [data EXCEPT ![i] = v]
        /\ result' = [result EXCEPT !.changed = TRUE]
     \/ /\ result' = [result EXCEPT !.ok = FALSE]
        /\ UNCHANGED data
  /\ UNCHANGED <<pc, loopVars, valid, changed, age, ready, notified, handling,
                 screen, sock, signals, timeVars>>

\* The peer is gone: read_all closes the descriptor, read_message reports
\* INVALID_TYPE.
ReadEndOfStream(i) ==
  /\ pc = "drain" /\ handling = i /\ sock[i] = "eof" /\ inbox[i] = 0
  /\ sock' = [sock EXCEPT ![i] = "closed"]
  /\ result' = [result EXCEPT !.ok = FALSE]
  /\ UNCHANGED <<pc, loopVars, itemVars, ready, notified, handling, screen,
                 inbox, signals, timeVars>>

\* has_input(fd) says no; StateItem::handle_stream_data stores the result.
FinishHandler(i) ==
  /\ pc = "drain" /\ handling = i /\ ~Readable(i)
  /\ changed' = [changed EXCEPT ![i] = Flagged(i, result.ok, result.changed)]
  /\ valid' = [valid EXCEPT ![i] = result.ok]
  /\ notified' = changed'[i]
  /\ ready' = ready \ {i}
  /\ handling' = 0
  /\ result' = NoResult
  /\ pc' = "dispatch"
  /\ UNCHANGED <<loopVars, age, data, screen, peerVars, timeVars>>

------------------------------------------------------------------------------
(* Statorange::handle_signals and the loop condition of run *)

ReadSignal_IgnoresExit(s) ==   \* mutant
  /\ pc = "signals" /\ s \in signals
  /\ signals' = signals \ {s}
  /\ force_update' = (force_update \/ s = "USR1")
  /\ UNCHANGED <<pc, cursor, updated, dead, itemVars, waitVars, screen, inbox, sock,
                 timeVars>>
ReadSignal(s) ==
  /\ pc = "signals" /\ s \in signals
  /\ signals' = signals \ {s}
  /\ dead' = (dead \/ s = "TERM")
  /\ force_update' = (force_update \/ s = "USR1")
  /\ UNCHANGED <<pc, cursor, updated, itemVars, waitVars, screen, inbox, sock,
                 timeVars>>

FinishSignals_ResetsForce ==   \* mutant
  /\ pc = "signals" /\ signals = {}
  /\ \/ dead /\ pc' = "exited" /\ UNCHANGED <<cursor, updated>>
     \/ ~dead /\ pc' = "update" /\ cursor' = 1 /\ updated' = FALSE
  /\ force_update' = FALSE
  /\ UNCHANGED <<dead, itemVars, waitVars, screen, peerVars, timeVars>>
FinishSignals ==
  /\ pc = "signals" /\ signals = {}
  /\ \/ dead /\ pc' = "exited" /\ UNCHANGED <<cursor, updated>>
     \/ ~dead /\ pc' = "update" /\ cursor' = 1 /\ updated' = FALSE
  /\ UNCHANGED <<force_update, dead, itemVars, waitVars, screen, peerVars,
                 timeVars>>

\* run catches nothing: an exception of an item ends the process.
Abort ==
  /\ \/ pc = "update" /\ cursor \in Items /\ Refresh(cursor)
     \/ pc = "print"
     \/ pc = "drain"
  /\ pc' = "aborted"
  /\ UNCHANGED <<loopVars, itemVars, waitVars, screen, peerVars, timeVars>>

------------------------------------------------------------------------------
(* The world around the process *)

OutsideEvent ==
  /\ pc \notin Ended
  /\ burst < MaxBurst
  /\ burst' = burst + 1
  /\ UNCHANGED <<pc, loopVars, itemVars, waitVars, screen, slept, worked>>

Arrive(i) ==
  /\ sock[i] = "open" /\ inbox[i] < MaxPending
  /\ inbox' = [inbox EXCEPT ![i] = @ + 1]
  /\ OutsideEvent
  /\ UNCHANGED <<sock, signals>>

HangUp(i) ==
  /\ sock[i] = "open"
  /\ sock' = [sock EXCEPT ![i] = "eof"]
  /\ OutsideEvent
  /\ UNCHANGED <<inbox, signals>>

RaiseSignal(s) ==
  /\ s \notin signals
  /\ signals' = signals \cup {s}
  /\ OutsideEvent
  /\ UNCHANGED <<inbox, sock>>

Older(a) == IF a < Never THEN a + 1 ELSE a

\* A second passes, in select while it really blocks, or while the loop works.
Tick ==
  /\ \/ Asleep /\ slept < MinCooldown /\ slept' = slept + 1 /\ UNCHANGED worked
     \/ /\ pc \notin Ended \cup {"wait"}
        /\ worked < MaxWork /\ worked' = worked + 1 /\ UNCHANGED slept
  /\ age' = [i \in Items |-> Older(age[i])]
  /\ UNCHANGED <<pc, loopVars, valid, changed, data, waitVars, screen, peerVars,
                 burst>>

------------------------------------------------------------------------------

\* force_update starts out TRUE; StateItem's constructor leaves `changed`
\* uninitialised, so it may hold anything.
Init ==
  /\ pc = "update" /\ cursor = 1 /\ updated = FALSE
  /\ force_update = TRUE /\ dead = FALSE
  /\ valid = [i \in Items |-> FALSE]
  /\ changed \in [Items -> BOOLEAN]
  /\ age = [i \in Items |-> Never]
  /\ data \in {d \in [Items -> Values] : \A i \in Items : d[i] \in Shows[i]}
  /\ ready = {} /\ notified = FALSE /\ result = NoResult /\ handling = 0
  /\ screen = [i \in Items |-> Blank]
  /\ inbox = [i \in EventItems |-> 0]
  /\ sock = [i \in EventItems |-> "open"]
  /\ signals = {}
  /\ slept = 0 /\ worked = 0 /\ burst = 0

\* One step of the process itself.
Step ==
  \/ \E i \in Items : PollItem(i) \/ SkipItem(i)
  \/ FinishUpdate
  \/ PrintBar
  \/ SelectError \/ SelectTimeout \/ SelectReady
  \/ \E i \in EventItems : Notify(i)
  \/ FinishDispatch
  \/ \E i \in EventItems : ReadMessage(i) \/ ReadEndOfStream(i) \/ FinishHandler(i)
  \/ \E s \in Signals : ReadSignal(s)
  \/ FinishSignals

Outside ==
  \/ \E i \in EventItems : Arrive(i) \/ HangUp(i)
  \/ \E s \in Signals : RaiseSignal(s)
  \/ Tick

Next == Step \/ Abort \/ Outside

Spec == Init /\ [][Next]_vars

\* The scheduler runs the process, and time passes while it sleeps.  Nothing
\* obliges a peer to send, hang up or raise a signal, or an item to throw.
Fairness == WF_vars(Step) /\ WF_vars(Tick)

FairSpec == Spec /\ Fairness

------------------------------------------------------------------------------
(* Properties *)

LoopTypeOK ==
  /\ pc \in {"update", "print", "wait", "dispatch", "drain", "signals"} \cup Ended
  /\ cursor \in 1 .. NumItems + 1
  /\ updated \in BOOLEAN /\ force_update \in BOOLEAN /\ dead \in BOOLEAN

ItemTypeOK ==
  /\ valid \in [Items -> BOOLEAN]
  /\ changed \in [Items -> BOOLEAN]
  /\ age \in [Items -> 0 .. Never]
  /\ data \in [Items -> Values]

WaitTypeOK ==
  /\ ready \subseteq EventItems
  /\ notified \in BOOLEAN
  /\ result \in [ok : BOOLEAN, changed : BOOLEAN]
  /\ handling \in EventItems \cup {0}

PeerTypeOK ==
  /\ inbox \in [EventItems -> 0 .. MaxPending]
  /\ sock \in [EventItems -> {"open", "eof", "closed"}]
  /\ signals \subseteq Signals

TimeTypeOK == slept \in Nat /\ worked \in 0 .. MaxWork /\ burst \in 0 .. MaxBurst

\* Every variable has its type.
TypeOK ==
  /\ LoopTypeOK /\ ItemTypeOK /\ WaitTypeOK /\ PeerTypeOK /\ TimeTypeOK
  /\ screen \in [Items -> Views]

\* The process goes to sleep only with the bar showing what the items hold: no
\* change an update or a stream handler made is forgotten between the `changed`
\* flags, the local `updated` and the print (Statorange::run, StateItem::update,
\* handle_stream_data and print).
AsleepShowsModel == pc = "wait" => \A i \in Items : screen[i] = Render(i)

\* A value on the bar of a sleeping process is never older than its item's
\* cooldown, plus one sleep, plus one iteration's work, and no sleep is longer
\* than the cooldown of any item: select's timeout wakes the loop in time for
\* whichever item is due next.
BoundedStaleness ==
  pc = "wait" =>
    \A i, j \in Items : valid[i] => age[i] <= Cooldown[i] + Cooldown[j] + MaxWork

\* A forced update (at startup and for SIGUSR1) leaves no item behind: every
\* valid item the round has passed was read in this round.
ForcedRoundReadsAll ==
  pc = "update" /\ force_update =>
    \A i \in Items : i < cursor /\ valid[i] => age[i] <= worked

\* Why the first of these holds: whatever the screen does not show is flagged, by
\* the item, by the handler still running, or because a forced round has yet to
\* come to an item that was never valid.
UnshownIsFlagged ==
  pc # "aborted" =>
    \A i \in Items :
      \/ screen[i] = Render(i)
      \/ changed[i]
      \/ pc = "drain" /\ handling = i /\ result.changed
      \/ pc = "update" /\ force_update /\ cursor <= i /\ ~valid[i]

\* ... and no flag outlives the round: `updated` collects the flags of the items
\* the round has passed, and the process sleeps with all of them cleared.
FlagsCollected ==
  /\ pc = "update" => \A i \in Items : i < cursor /\ changed[i] => updated
  /\ pc = "wait" => \A i \in Items : ~changed[i]

\* Why the second holds: an item the round has passed was read in it or is not
\* due, and only the seconds since then have made it older.
PassedIsFresh ==
  /\ pc = "update" =>
       \A i \in Items : i < cursor /\ valid[i] => age[i] <= Cooldown[i] + worked
  /\ pc = "print" => \A i \in Items : valid[i] => age[i] <= Cooldown[i] + worked
  /\ pc = "wait" =>
       \A i \in Items : valid[i] => age[i] <= Cooldown[i] + worked + slept
  /\ slept <= MinCooldown

\* The loop implements the promise of StatusBar.
phase == IF pc = "wait" THEN "asleep" ELSE IF pc \in Ended THEN "ended" ELSE "awake"

SB == INSTANCE StatusBar WITH
        view <- [i \in Items |-> Render(i)], bar <- screen

\* Every behaviour of the loop, seen through the items' renderings, the line
\* last printed and whether select was entered, is one StatusBar allows.
ImplementsStatusBar == SB!Spec

\* A termination signal ends the process, however busy sockets and items are.
TerminationServed == "TERM" \in signals ~> pc \in Ended

\* SIGUSR1 leads to a completed forced round, unless the process ends.
ForceServed ==
  "USR1" \in signals ~>
    (pc = "update" /\ force_update /\ cursor = NumItems + 1) \/ pc \in Ended

\* The handler of an earlier descriptor reported a change, so this wake-up passes
\* over item i although its socket has input.
PassedOver(i) ==
  pc = "dispatch" /\ i \in ready /\ \E j \in EventItems : j < i /\ changed[j]

\* Data on an event socket wakes the loop and reaches the item's handler, unless
\* a handler of an earlier descriptor reports a change at this wake-up and, as
\* the data is still unread after it, at every later one: the first descriptor
\* is always served, and another one as soon as those before it have nothing
\* new.  A descriptor that was closed ends this for all of them, as select fails
\* from then on.
SocketServed ==
  \A i \in EventItems :
    inbox[i] > 0 ~> \/ pc = "drain" /\ handling = i
                    \/ PassedOver(i)
                    \/ pc \in Ended \/ BadDescriptor

\* README, "Statorange sleeps most of the time": once nothing happens outside any
\* more, the process keeps going back to sleep.
SleepsWhenQuiet ==
  <>[](/\ pc \notin Ended /\ signals = {}
       /\ \A i \in EventItems : inbox[i] = 0 /\ sock[i] # "eof") => []<>Asleep
==============================================================================
