--------------------------- MODULE PulseAudioProofs ---------------------------
(***************************************************************************)
(* Proofs about PulseAudio: for any ports and volumes, and for any number  *)
(* of sinks the server may list.                                           *)
(***************************************************************************)
EXTENDS PulseAudio, TLAPS

------------------------------------------------------------------------------
(* The data *)

\* What the server lists, and what the library passes on of it.
LEMMA ListedSinks ==
  ASSUME NEW list \in Lists, NEW k \in 1 .. Len(list)
  PROVE  list[k] \in Sinks /\ list[k] # Null
<1>1. PICK n \in 0 .. MaxSinks : list \in [1 .. n -> Sinks]
  BY DEF Lists
<1>2. Len(list) = n
  BY <1>1, PulseAssumption
<1>3. list[k] \in Sinks
  BY <1>1, <1>2
<1>4. Null \notin Sinks
  BY PulseAssumption
<1> QED  BY <1>3, <1>4

LEMMA ListLength ==
  ASSUME NEW list \in Lists
  PROVE  Len(list) \in 0 .. MaxSinks /\ DOMAIN list = 1 .. Len(list)
<1>1. PICK n \in 0 .. MaxSinks : list \in [1 .. n -> Sinks]
  BY DEF Lists
<1>2. Len(list) = n /\ DOMAIN list = 1 .. n
  BY <1>1, PulseAssumption
<1> QED  BY <1>2

LEMMA DescribedTyped ==
  ASSUME NEW sink \in Sinks
  PROVE  Described(sink) \in Held
<1>1. sink.port \in Ports \cup {Null} /\ sink.mute \in BOOLEAN /\ sink.volume \in RawVolumes
  BY DEF Sinks
<1>2. Percent(sink.volume) \in {0} \cup {Percent(v) : v \in RawVolumes}
  BY <1>1
<1> QED  BY <1>1, <1>2 DEF Described, Held

------------------------------------------------------------------------------
(* The invariant *)

\* What is held when the callback was told of the first n sinks.
Active(n)    == {k \in 1 .. n : answered[k].port # Null}
HeldAfter(n) == IF Active(n) = {} THEN before ELSE Described(answered[Max(Active(n))])

\* The fields follow the sinks one by one, and stay when the list is at its end.
HeldFollows ==
  /\ pc = "list" =>
       /\ answered \in Lists /\ answered # Null
       /\ told <= Len(answered) /\ held = HeldAfter(told)
  /\ pc \in {"wait", "return"} =>
       held = IF answered = Null THEN before ELSE HeldAfter(Len(answered))

\* An operation that is done has passed the end of the list.
DoneReported ==
  /\ pc = "wait" /\ operation = "done" => result.changed
  /\ pc = "return" => result.changed

\* A request is answered when it is read, and read once.
AnsweredOnce ==
  /\ pc = "wait" /\ operation # "done" => answered = Null
  /\ pc = "construct" => context = "none"

IInv == TypeOK /\ HeldFollows /\ DoneReported /\ AnsweredOnce

LEMMA InitPulse == Init => IInv
<1> SUFFICES ASSUME Init PROVE IInv
  OBVIOUS
<1>1. held \in Held
  BY DEF Init, Held
<1>2. result \in [ok : BOOLEAN, changed : BOOLEAN]
  BY DEF Init
<1>3. is_connected = Connected(context)
  <2>1. is_connected = FALSE /\ context # "ready"
    BY DEF Init
  <2>2. (context = "ready") = FALSE
    BY <2>1
  <2> QED  BY <2>1, <2>2 DEF Connected
<1>4. server \in BOOLEAN /\ valid \in BOOLEAN /\ told \in 0 .. MaxSinks
  <2>1. server \in BOOLEAN
    BY DEF Init
  <2>2. valid \in BOOLEAN
    BY DEF Init
  <2>3. told \in 0 .. MaxSinks
    BY PulseAssumption DEF Init
  <2> QED  BY <2>1, <2>2, <2>3
<1>5. TypeOK
  BY <1>1, <1>2, <1>3, <1>4 DEF Init, TypeOK
<1> QED  BY <1>5 DEF Init, IInv, HeldFollows, DoneReported, AnsweredOnce

------------------------------------------------------------------------------
(* The callback *)

LEMMA SinkTold ==
  ASSUME TypeOK, NEW sink \in Sinks, CallBack(sink)
  PROVE  /\ held' = IF sink.port = Null THEN held ELSE Described(sink)
         /\ held' \in Held /\ result' \in [ok : BOOLEAN, changed : BOOLEAN]
<1> DEFINE state == [held |-> held, ok |-> result.ok, changed |-> result.changed]
           after == HandleSink(state, sink)
<1>1. sink # Null
  BY PulseAssumption
<1>2. held \in Held /\ result.ok \in BOOLEAN /\ result.changed \in BOOLEAN
  BY DEF TypeOK
<1>3. held' = after.held /\ result' = [ok |-> after.ok, changed |-> after.changed]
  BY DEF CallBack
<1>4. CASE sink.port = Null
  <2>1. after = [state EXCEPT !.ok = FALSE, !.changed = TRUE]
    BY <1>4 DEF HandleSink
  <2>2. after.held = held /\ after.ok = FALSE /\ after.changed = TRUE
    BY <2>1
  <2> QED  BY <1>2, <1>3, <1>4, <2>2
<1>5. CASE sink.port # Null
  <2>1. after = [held |-> Described(sink), ok |-> TRUE, changed |-> Described(sink) # held]
    BY <1>1, <1>5 DEF HandleSink
  <2>2. after.held = Described(sink) /\ after.ok = TRUE /\ after.changed = (Described(sink) # held)
    BY <2>1
  <2>3. (Described(sink) # held) \in BOOLEAN
    OBVIOUS
  <2> QED  BY <1>3, <1>5, <2>2, <2>3, DescribedTyped
<1> QED  BY <1>4, <1>5

LEMMA EndTold ==
  ASSUME TypeOK, CallBack(Null)
  PROVE  held' = held /\ result' = [ok |-> FALSE, changed |-> TRUE]
<1> DEFINE state == [held |-> held, ok |-> result.ok, changed |-> result.changed]
<1>1. HandleSink(state, Null) = [state EXCEPT !.ok = FALSE, !.changed = TRUE]
  BY DEF HandleSink
<1> QED  BY <1>1 DEF CallBack

\* One more sink was told of.
LEMMA HeldAfterOneMore ==
  ASSUME NEW n \in Nat
  PROVE  HeldAfter(n + 1) = IF answered[n + 1].port = Null
                            THEN HeldAfter(n) ELSE Described(answered[n + 1])
<1>1. CASE answered[n + 1].port = Null
  <2>1. Active(n + 1) = Active(n)
    BY <1>1 DEF Active
  <2> QED  BY <1>1, <2>1 DEF HeldAfter
<1>2. CASE answered[n + 1].port # Null
  <2>1. n + 1 \in Active(n + 1) /\ \A k \in Active(n + 1) : k \in Nat /\ n + 1 >= k
    BY <1>2 DEF Active
  <2>2. Max(Active(n + 1)) = n + 1
    <3>1. \A x \in Active(n + 1) : (\A y \in Active(n + 1) : x >= y) <=> x = n + 1
      BY <2>1
    <3> QED  BY <2>1, <3>1 DEF Max
  <2> QED  BY <1>2, <2>1, <2>2 DEF HeldAfter
<1> QED  BY <1>1, <1>2

------------------------------------------------------------------------------
(* The steps *)

\* The parts of the state that a step outside the callbacks leaves alone.
LEMMA ContextStep ==
  ASSUME IInv, ConstructFails \/ ConnectFails \/ ConnectBegins \/ ConnectAdvances \/ ConnectEnds
  PROVE  IInv'
<1>1. /\ pc \in {"construct", "connect"} /\ pc' \in {"connect", "idle"}
      /\ UNCHANGED <<operation, result, held, valid, serverVars, history>>
  BY DEF ConstructFails, ConnectFails, ConnectBegins, ConnectAdvances, ConnectEnds, itemVars
<1>2. /\ context' \in {"none", "unconnected", "failed", "ready"} \cup DOMAIN Progress
      /\ is_connected' = Connected(context')
  <2>1. CASE ConstructFails \/ ConnectEnds
    BY <2>1 DEF ConstructFails, ConnectEnds, itemVars, IInv, TypeOK, Connected
  <2>2. CASE ConnectFails \/ ConnectBegins
    <3>1. is_connected = FALSE
      BY <2>2 DEF ConnectFails, ConnectBegins, IInv, TypeOK, AnsweredOnce, Connected
    <3>2. context' \in {"unconnected", "failed", "connecting"} /\ is_connected' = is_connected
      BY <2>2 DEF ConnectFails, ConnectBegins, itemVars
    <3> QED  BY <3>1, <3>2 DEF Connected, Progress
  <2>3. CASE ConnectAdvances
    <3>1. context' \in {"authorizing", "setting_name", "ready"}
      BY <2>3 DEF ConnectAdvances, Progress
    <3> QED  BY <2>3, <3>1 DEF ConnectAdvances, Progress
  <2> QED  BY <2>1, <2>2, <2>3
<1>3. TypeOK'
  BY <1>1, <1>2 DEF IInv, TypeOK, serverVars, history
<1> QED  BY <1>1, <1>3 DEF IInv, HeldFollows, DoneReported, AnsweredOnce

LEMMA AskStep ==
  ASSUME IInv, AskNobody \/ AskInVain \/ Ask
  PROVE  IInv'
<1>1. CASE AskNobody
  BY <1>1 DEF AskNobody, IInv, TypeOK, HeldFollows, DoneReported, AnsweredOnce, Connected,
     itemVars, serverVars, history
<1>2. CASE AskInVain \/ Ask
  <2>1. /\ pc' \in {"wait", "return"} /\ operation' \in {"none", "running"}
        /\ before' = held /\ held' = held /\ answered' = Null
        /\ UNCHANGED <<context, is_connected, valid, serverVars>>
    BY <1>2 DEF AskInVain, Ask
  <2>2. /\ result' \in [ok : BOOLEAN, changed : BOOLEAN]
        /\ pc' = "return" => result'.changed
    <3>1. CASE AskInVain
      BY <3>1 DEF AskInVain
    <3>2. CASE Ask
      <4>1. pc' = "wait" /\ result' = [ok |-> FALSE, changed |-> FALSE]
        BY <3>2 DEF Ask
      <4> QED  BY <4>1
    <3> QED  BY <1>2, <3>1, <3>2
  <2>3. TypeOK'
    BY <2>1, <2>2 DEF IInv, TypeOK, serverVars, Connected
  <2> QED  BY <2>1, <2>2, <2>3 DEF IInv, HeldFollows, DoneReported, AnsweredOnce
<1> QED  BY <1>1, <1>2

LEMMA ReadStep ==
  ASSUME IInv, ReadAnswer
  PROVE  IInv'
<1>1. /\ pc = "wait" /\ pc' = "list" /\ operation = "running" /\ reply # Null
      /\ answered' = reply /\ reply' = Null /\ told' = 0
      /\ UNCHANGED <<context, operation, itemVars, server, before>>
  BY DEF ReadAnswer
<1>2. reply \in Lists
  BY <1>1 DEF IInv, TypeOK
<1>3. held = before
  BY <1>1 DEF IInv, HeldFollows, AnsweredOnce
<1>4. TypeOK'
  BY <1>1, <1>2, PulseAssumption DEF IInv, TypeOK, itemVars, Connected
<1>5. HeldFollows'
  <2>1. Active(0)' = {}
    BY DEF Active
  <2>2. HeldAfter(0)' = before'
    BY <2>1 DEF HeldAfter
  <2>3. 0 <= Len(reply)
    BY <1>2, ListLength
  <2>4. answered' \in Lists /\ answered' # Null /\ told' <= Len(answered') /\ held' = before'
    BY <1>1, <1>2, <1>3, <2>3 DEF itemVars
  <2>5. HeldAfter(told)' = before'
    <3>1. Active(told)' = {}
      BY <1>1 DEF Active
    <3> QED  BY <3>1 DEF HeldAfter
  <2> QED  BY <1>1, <2>4, <2>5 DEF HeldFollows
<1>6. DoneReported' /\ AnsweredOnce'
  BY <1>1 DEF DoneReported, AnsweredOnce
<1> QED  BY <1>4, <1>5, <1>6 DEF IInv

LEMMA TellSinkStep ==
  ASSUME IInv, TellSink
  PROVE  IInv'
<1>1. /\ pc = "list" /\ told < Len(answered) /\ CallBack(answered[told + 1])
      /\ told' = told + 1
      /\ UNCHANGED <<pc, context, operation, is_connected, valid, server, reply, history>>
  BY DEF TellSink
<1>2. answered \in Lists /\ answered # Null /\ held = HeldAfter(told) /\ TypeOK
  BY <1>1 DEF IInv, HeldFollows
<1>3. told \in Nat /\ told + 1 \in 1 .. Len(answered) /\ Len(answered) \in 0 .. MaxSinks
  BY <1>1, <1>2, ListLength, PulseAssumption DEF TypeOK
<1>4. answered[told + 1] \in Sinks
  BY <1>2, <1>3, ListedSinks
<1>5. /\ held' = IF answered[told + 1].port = Null THEN held ELSE Described(answered[told + 1])
      /\ held' \in Held /\ result' \in [ok : BOOLEAN, changed : BOOLEAN]
  BY <1>1, <1>2, <1>4, SinkTold
<1>6. TypeOK'
  <2>1. told' \in 0 .. MaxSinks
    BY <1>1, <1>3, PulseAssumption
  <2> QED  BY <1>1, <1>2, <1>5, <2>1 DEF TypeOK, history, Connected
<1>7. HeldFollows'
  <2>1. held' = HeldAfter(told + 1)
    BY <1>2, <1>3, <1>5, HeldAfterOneMore
  <2>2. HeldAfter(told)' = HeldAfter(told + 1)
    BY <1>1 DEF HeldAfter, Active, history
  <2> QED  BY <1>1, <1>2, <1>3, <2>1, <2>2 DEF HeldFollows, history
<1>8. DoneReported' /\ AnsweredOnce'
  BY <1>1 DEF DoneReported, AnsweredOnce
<1> QED  BY <1>6, <1>7, <1>8 DEF IInv

LEMMA TellEndStep ==
  ASSUME IInv, TellEnd
  PROVE  IInv'
<1>1. /\ pc = "list" /\ told = Len(answered) /\ CallBack(Null)
      /\ operation' = "done" /\ pc' = "wait"
      /\ UNCHANGED <<context, is_connected, valid, serverVars, history>>
  BY DEF TellEnd
<1>2. held' = held /\ result' = [ok |-> FALSE, changed |-> TRUE]
  BY <1>1, EndTold DEF IInv
<1>3. TypeOK'
  BY <1>1, <1>2 DEF IInv, TypeOK, serverVars, history, Connected
<1>4. HeldFollows'
  <2>1. held = HeldAfter(Len(answered)) /\ answered # Null
    BY <1>1 DEF IInv, HeldFollows
  <2>2. HeldAfter(Len(answered))' = HeldAfter(Len(answered))
    BY <1>1 DEF HeldAfter, Active, history
  <2> QED  BY <1>1, <1>2, <2>1, <2>2 DEF HeldFollows, history
<1>5. DoneReported' /\ AnsweredOnce'
  BY <1>1, <1>2 DEF DoneReported, AnsweredOnce
<1> QED  BY <1>3, <1>4, <1>5 DEF IInv

LEMMA LossStep ==
  ASSUME IInv, ContextFails
  PROVE  IInv'
<1>1. /\ pc \in {"connect", "wait"} /\ operation # "done" /\ context' = "failed"
      /\ is_connected' = Connected(context') /\ reply' = Null
      /\ UNCHANGED <<pc, result, held, valid, server, told, history>>
  BY DEF ContextFails
<1>2. operation' \in {"none", "running", "done", "cancelled"} /\ operation' # "done"
  BY <1>1 DEF ContextFails, IInv, TypeOK
<1>3. TypeOK'
  BY <1>1, <1>2 DEF IInv, TypeOK, history
<1>4. HeldFollows'
  <2>1. pc = "wait" => held = before /\ answered = Null
    BY <1>1 DEF IInv, HeldFollows, AnsweredOnce
  <2> QED  BY <1>1, <2>1 DEF HeldFollows, history
<1> QED  BY <1>1, <1>2, <1>3, <1>4 DEF IInv, DoneReported, AnsweredOnce, history

LEMMA FinishStep ==
  ASSUME IInv, Finish \/ Return
  PROVE  IInv'
<1>1. CASE Finish
  <2>1. /\ pc = "wait" /\ operation = "done" /\ pc' = "return"
        /\ UNCHANGED <<context, operation, itemVars, serverVars, history>>
    BY <1>1 DEF Finish
  <2>2. TypeOK'
    BY <2>1 DEF IInv, TypeOK, Connected, itemVars, serverVars, history
  <2>3. HeldFollows'
    BY <2>1 DEF IInv, HeldFollows, HeldAfter, Active, itemVars, serverVars, history
  <2> QED  BY <2>1, <2>2, <2>3 DEF IInv, DoneReported, AnsweredOnce, itemVars
<1>2. CASE Return
  <2>1. /\ pc' = "idle" /\ valid' = result.ok
        /\ UNCHANGED <<context, operation, is_connected, result, held, serverVars, history>>
    BY <1>2 DEF Return
  <2>2. TypeOK'
    BY <2>1 DEF IInv, TypeOK, Connected, serverVars, history
  <2> QED  BY <2>1, <2>2 DEF IInv, HeldFollows, DoneReported, AnsweredOnce
<1> QED  BY <1>1, <1>2

LEMMA ServerStep ==
  ASSUME IInv, Answer \/ ServerEnds
  PROVE  IInv'
<1>1. /\ reply' = reply \/ reply' \in Lists
      /\ server' = server \/ server' = FALSE
      /\ UNCHANGED <<pc, context, operation, itemVars, told, history>>
  <2>1. CASE Answer
    BY <2>1 DEF Answer
  <2>2. CASE ServerEnds
    <3>1. server' = FALSE /\ UNCHANGED <<pc, context, operation, itemVars, reply, told, history>>
      BY <2>2 DEF ServerEnds
    <3> QED  BY <3>1
  <2> QED  BY <2>1, <2>2
<1>2. TypeOK'
  <2>1. reply' \in Lists \cup {Null} /\ server' \in BOOLEAN
    <3>1. reply' \in Lists \cup {Null}
      BY <1>1 DEF IInv, TypeOK
    <3>2. server' \in BOOLEAN
      <4>1. server \in BOOLEAN
        BY DEF IInv, TypeOK
      <4> QED  BY <1>1, <4>1
    <3> QED  BY <3>1, <3>2
  <2> QED  BY <1>1, <2>1 DEF IInv, TypeOK, Connected, itemVars, history
<1>3. HeldFollows'
  BY <1>1 DEF IInv, HeldFollows, HeldAfter, Active, itemVars, history
<1> QED  BY <1>1, <1>2, <1>3 DEF IInv, DoneReported, AnsweredOnce, itemVars, history

LEMMA StepPulse == IInv /\ [Next]_vars => IInv'
<1> SUFFICES ASSUME IInv, [Next]_vars PROVE IInv'
  OBVIOUS
<1>1. CASE UNCHANGED vars
  BY <1>1 DEF IInv, TypeOK, HeldFollows, HeldAfter, Active, DoneReported, AnsweredOnce,
     Connected, vars, itemVars, serverVars, history
<1>2. CASE Next
  BY <1>2, ContextStep, AskStep, ReadStep, TellSinkStep, TellEndStep, LossStep, FinishStep,
     ServerStep DEF Next, Item, TurnLoop, NoticeLoss
<1> QED  BY <1>1, <1>2

LEMMA PulseInvariant == Spec => []IInv
BY InitPulse, StepPulse, PTL DEF Spec

------------------------------------------------------------------------------
(* The theorems *)

\* The state of the item and of its connection keeps its type; is_connected follows
\* the state of the context through every callback.
THEOREM PulseTyped == Spec => []TypeOK
<1>1. IInv => TypeOK
  BY DEF IInv
<1> QED  BY <1>1, PulseInvariant, PTL

\* PulseAudio::update_raw keeps the contract EventLoop relies on, however many sinks
\* the callback was told of: it returns `changed` whenever it returns.
THEOREM PulseReportsChanges == Spec => []ChangesReported
<1>1. IInv => ChangesReported
  BY DEF IInv, DoneReported, ChangesReported
<1> QED  BY <1>1, PulseInvariant, PTL

\* handle_sink_info_response mixes no two sinks, in whatever order and number they are
\* listed and whichever of them have an active port.
THEOREM PulseHoldsLastSink == Spec => []HoldsLastSink
<1>1. IInv => HoldsLastSink
  <2> SUFFICES ASSUME IInv, pc = "return", answered # Null
               PROVE  HoldsLastSink
    BY DEF HoldsLastSink
  <2>1. held = HeldAfter(Len(answered)) /\ answered \in Lists
    BY DEF IInv, TypeOK, HeldFollows
  <2>2. DOMAIN answered = 1 .. Len(answered)
    BY <2>1, ListLength
  <2> QED  BY <2>1, <2>2 DEF HoldsLastSink, HeldAfter, Active
<1> QED  BY <1>1, PulseInvariant, PTL
=============================================================================
