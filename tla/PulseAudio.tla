----------------------------- MODULE PulseAudio -----------------------------
(***************************************************************************)
(* The PulseAudio item: a client of the sound server with an event loop of *)
(* its own, which the item turns by hand inside its constructor and inside *)
(* update_raw, until a callback has changed a flag or the library says an  *)
(* operation is done.  In between nobody turns it, so that whatever        *)
(* happens to the connection is noticed in the middle of the next update.  *)
(*                                                                         *)
(* The library and the server behind it are modelled from how the item     *)
(* uses them: the states of a context, a request that is answered with a   *)
(* whole list of sinks, and callbacks that run when the loop is turned,    *)
(* one for every sink and one more at the end of the list.                 *)
(***************************************************************************)
EXTENDS Naturals, Sequences, FiniteSetsExt

CONSTANTS
  Ports,       \* the descriptions of sink ports
  Null,        \* no active port, and the null pointer that ends a list
  RawVolumes,  \* volumes as the server counts them
  MaxSinks     \* most sinks the server has

VolumeNorm == 65536
MaxVolume  == 42949672  \* the largest volume 100 times which fits 32 bits

Sinks == [port : Ports \cup {Null}, volume : RawVolumes, mute : BOOLEAN]
Lists == UNION {[1 .. n -> Sinks] : n \in 0 .. MaxSinks}

ASSUME PulseAssumption ==
  /\ RawVolumes \subseteq 0 .. MaxVolume /\ MaxSinks \in Nat
  /\ Null \notin Ports /\ Null \notin Sinks

VARIABLES
  pc,            \* construct, connect (its loop), idle, wait (update_raw's loop),
                 \* list (in the callbacks), return, or aborted by the library
  context,       \* pa_context's state, or "none" for the null pointer
  is_connected,
  operation,     \* running, done or cancelled; "none" for the null pointer
  result,        \* what update_raw is about to return
  held,          \* port_name, volume and is_mute
  valid,         \* StateItem::valid
  \* -- the server
  server,        \* does it run?  (its sinks are whatever it lists)
  reply,         \* an answer that was sent and not read, or Null
  told,          \* how many sinks of the answer the callback was told of
  \* -- history
  before,        \* held when update_raw was called
  answered       \* the list of sinks it reads or has read, or Null

itemVars   == <<is_connected, result, held, valid>>
serverVars == <<server, reply, told>>
history    == <<before, answered>>
vars       == <<pc, context, operation, itemVars, serverVars, history>>

------------------------------------------------------------------------------
(* The callbacks *)

\* handle_state_change.
Connected(state) == state = "ready"

Percent(raw) == (100 * raw) \div VolumeNorm

Described(sink) ==
  [port |-> sink.port, volume |-> Percent(sink.volume), mute |-> sink.mute]

\* HandleSink that leaves the result alone at the end of the list (mutant).
HandleSink_EndIgnored(state, sink) ==
  IF sink = Null \/ sink.port = Null
  THEN [state EXCEPT !.ok = sink = Null /\ @]
  ELSE [held    |-> Described(sink),
        ok      |-> TRUE,
        changed |-> Described(sink) # state.held]

\* HandleSink that trusts the volume of a port it knows (mutant).
HandleSink_SamePort(state, sink) ==
  IF sink = Null \/ sink.port = Null \/ sink.port = state.held.port
  THEN [state EXCEPT !.ok = FALSE, !.changed = TRUE]
  ELSE [held    |-> Described(sink),
        ok      |-> TRUE,
        changed |-> Described(sink) # state.held]

\* One call of the list callback: handle_sink_info_response, and its return
\* value over that of the call before.
HandleSink(state, sink) ==
  IF sink = Null \/ sink.port = Null
  THEN [state EXCEPT !.ok = FALSE, !.changed = TRUE]
  ELSE [held    |-> Described(sink),
        ok      |-> TRUE,
        changed |-> Described(sink) # state.held]

\* The callback stores what handle_sink_info_response returns over what it
\* returned for the sink before.
CallBack(sink) ==
  LET after == HandleSink([held |-> held, ok |-> result.ok, changed |-> result.changed],
                          sink)
  IN  held' = after.held /\ result' = [ok |-> after.ok, changed |-> after.changed]

------------------------------------------------------------------------------
(* The constructor *)

\* No loop, no signals or no context.
ConstructFails ==
  /\ pc = "construct"
  /\ pc' = "idle"
  /\ UNCHANGED <<context, operation, itemVars, serverVars, history>>

\* pa_context_connect fails.
ConnectFails ==
  /\ pc = "construct"
  /\ context' \in {"unconnected", "failed"}
  /\ pc' = "idle"
  /\ UNCHANGED <<operation, itemVars, serverVars, history>>

ConnectBegins ==
  /\ pc = "construct"
  /\ context' = "connecting"
  /\ pc' = "connect"
  /\ UNCHANGED <<operation, itemVars, serverVars, history>>

Progress == [connecting |-> "authorizing", authorizing |-> "setting_name",
             setting_name |-> "ready"]

\* The loop is turned: the context advances and tells the item.
ConnectAdvances ==
  /\ pc = "connect" /\ ~is_connected /\ server
  /\ context \in DOMAIN Progress
  /\ context' = Progress[context]
  /\ is_connected' = Connected(context')
  /\ UNCHANGED <<pc, operation, result, held, valid, serverVars, history>>

ConnectEnds ==
  /\ pc = "connect" /\ is_connected
  /\ pc' = "idle"
  /\ UNCHANGED <<context, operation, itemVars, serverVars, history>>

------------------------------------------------------------------------------
(* update_raw *)

\* The library aborts the process when it is asked through a null pointer.
AskNobody ==
  /\ pc = "idle" /\ context = "none"
  /\ pc' = "aborted"
  /\ UNCHANGED <<context, operation, itemVars, serverVars, history>>

\* A context that is not ready gives no operation.
AskInVain ==
  /\ pc = "idle" /\ context \notin {"none", "ready"}
  /\ operation' = "none"
  /\ result' = [ok |-> FALSE, changed |-> TRUE]
  /\ pc' = "return" /\ before' = held /\ answered' = Null
  /\ UNCHANGED <<context, is_connected, held, valid, serverVars>>

Ask ==
  /\ pc = "idle" /\ context = "ready"
  /\ operation' = "running"
  /\ result' = [ok |-> FALSE, changed |-> FALSE]
  /\ pc' = "wait" /\ before' = held /\ answered' = Null
  /\ UNCHANGED <<context, is_connected, held, valid, serverVars>>

\* The loop is turned and the answer is there.  A refused request is answered
\* as if there were no sinks.
ReadAnswer ==
  /\ pc = "wait" /\ operation = "running" /\ reply # Null
  /\ answered' = reply /\ reply' = Null /\ told' = 0
  /\ pc' = "list"
  /\ UNCHANGED <<context, operation, itemVars, server, before>>

\* The library calls back for every sink ...
TellSink ==
  /\ pc = "list" /\ told < Len(answered)
  /\ CallBack(answered[told + 1])
  /\ told' = told + 1
  /\ UNCHANGED <<pc, context, operation, is_connected, valid, server, reply, history>>

\* ... and with a null pointer at the end.
TellEnd ==
  /\ pc = "list" /\ told = Len(answered)
  /\ CallBack(Null)
  /\ operation' = "done"
  /\ pc' = "wait"
  /\ UNCHANGED <<context, is_connected, valid, serverVars, history>>

\* ContextFails that is not told (mutant).
ContextFails_Unnoticed ==
  /\ pc \in {"connect", "wait"}
  /\ context \notin {"none", "failed"} /\ operation # "done"
  /\ context' = "failed"
  /\ operation' = IF operation = "running" THEN "cancelled" ELSE operation
  /\ reply' = Null
  /\ UNCHANGED <<pc, itemVars, server, told, history>>

\* The loop is turned and the context fails: the server is gone, or it refuses
\* the client or did not answer in time.  What was asked is cancelled.
ContextFails ==
  /\ pc \in {"connect", "wait"}
  /\ context \notin {"none", "failed"} /\ operation # "done"
  /\ context' = "failed"
  /\ is_connected' = Connected(context')
  /\ operation' = IF operation = "running" THEN "cancelled" ELSE operation
  /\ reply' = Null
  /\ UNCHANGED <<pc, result, held, valid, server, told, history>>

\* That a server is gone is always noticed.
NoticeLoss == ~server /\ ContextFails

\* Finish that waits for a sink (mutant).
Finish_WithSink ==
  /\ pc = "wait" /\ operation = "done" /\ result.ok
  /\ pc' = "return"
  /\ UNCHANGED <<context, operation, itemVars, serverVars, history>>

Finish ==
  /\ pc = "wait" /\ operation = "done"
  /\ pc' = "return"
  /\ UNCHANGED <<context, operation, itemVars, serverVars, history>>

\* StateItem::update stores what update_raw returned.
Return ==
  /\ pc = "return"
  /\ valid' = result.ok
  /\ pc' = "idle"
  /\ UNCHANGED <<context, operation, is_connected, result, held, serverVars, history>>

------------------------------------------------------------------------------
(* The server *)

\* A request is answered once.
Answer ==
  /\ server /\ operation = "running" /\ reply = Null /\ answered = Null
  /\ reply' \in Lists
  /\ UNCHANGED <<pc, context, operation, itemVars, server, told, history>>

ServerEnds ==
  /\ server /\ server' = FALSE
  /\ UNCHANGED <<pc, context, operation, itemVars, reply, told, history>>

------------------------------------------------------------------------------

Init ==
  /\ pc = "construct" /\ context = "none" /\ is_connected = FALSE
  /\ operation = "none" /\ result = [ok |-> FALSE, changed |-> FALSE]
  /\ held = [port |-> Null, volume |-> 0, mute |-> FALSE] /\ valid = FALSE
  /\ server \in BOOLEAN /\ reply = Null /\ told = 0
  /\ before = held /\ answered = Null

TurnLoop == ConnectAdvances \/ ReadAnswer \/ TellSink \/ TellEnd \/ NoticeLoss
Item == ConstructFails \/ ConnectFails \/ ConnectBegins \/ ConnectEnds
          \/ AskNobody \/ AskInVain \/ Ask \/ Finish \/ Return
Next == Item \/ TurnLoop \/ ContextFails \/ Answer \/ ServerEnds

Spec == Init /\ [][Next]_vars

\* The item's loops run, and a server that runs answers; nothing obliges it to
\* refuse.
FairSpec ==
  Spec /\ WF_vars(TurnLoop) /\ WF_vars(ConnectEnds \/ Finish) /\ WF_vars(Answer)
------------------------------------------------------------------------------
(* Properties *)

Held ==
  [port : Ports \cup {Null}, volume : {0} \cup {Percent(v) : v \in RawVolumes},
   mute : BOOLEAN]

TypeOK ==
  /\ pc \in {"construct", "connect", "idle", "wait", "list", "return", "aborted"}
  /\ context \in {"none", "unconnected", "failed", "ready"} \cup DOMAIN Progress
  /\ is_connected = Connected(context)
  /\ operation \in {"none", "running", "done", "cancelled"}
  /\ result \in [ok : BOOLEAN, changed : BOOLEAN]
  /\ held \in Held /\ before \in Held
  /\ valid \in BOOLEAN /\ server \in BOOLEAN /\ told \in 0 .. MaxSinks
  /\ reply \in Lists \cup {Null} /\ answered \in Lists \cup {Null}

\* What EventLoop takes for granted of an item: however many sinks were listed in
\* between, an update that changed what the item prints, or that failed, says
\* `changed` in the end.
ChangesReported ==
  pc = "return" =>
    /\ held # before => result.changed
    /\ ~result.ok => result.changed

\* After an update the item holds the last sink of the list that has an active
\* port, the volume of that sink with the port of that sink, and what it held if
\* there is none.
HoldsLastSink ==
  (pc = "return" /\ answered # Null) =>
    LET active == {k \in DOMAIN answered : answered[k].port # Null}
    IN  held = IF active = {} THEN before ELSE Described(answered[Max(active)])

\* README.md: SIGUSR1 "makes statorange force an update (useful when adjusting the
\* volume via command/button shortcuts)".  So an update that was told of a sink is
\* one whose volume is printed, and not the notice of a failed item.
ListedVolumeIsShown ==
  (pc = "idle" /\ answered # Null /\ \E k \in DOMAIN answered : answered[k].port # Null)
    => valid

\* The context failed while a loop was turned, which waits for is_connected or for
\* PA_OPERATION_DONE all the same.
Hangs == pc \in {"connect", "wait"} /\ context = "failed"

\* The two loops turned by hand come to an end unless the context fails while one
\* of them turns.
LoopsEnd == pc \in {"connect", "wait", "list"} ~> (pc \in {"idle", "return"} \/ Hangs)
=============================================================================
