--------------------------- MODULE EventLoopProofs ---------------------------
(* Theorems about EventLoop, for any number of items and any cooldowns. *)
EXTENDS EventLoop, WellFoundedInduction, TLAPS

(***************************************************************************)
(* The cooldown select's timeout is set from is a number, and the least    *)
(* one (StateItem's constructor).                                          *)
(***************************************************************************)
LEMMA MinCooldownIsLeast ==
  MinCooldown \in Nat /\ \A i \in Items : MinCooldown <= Cooldown[i]
<1> DEFINE S == {Cooldown[i] : i \in Items}
<1>1. S \subseteq Nat /\ S # {}
  <2>1. 1 \in Items  BY ConstantsAssumption DEF Items
  <2> QED  BY <2>1, ConstantsAssumption
<1>2. PICK c \in S : \A d \in S : ~(<<d, c>> \in OpToRel(<, Nat))
  <2> HIDE DEF S
  <2> QED  BY <1>1, NatLessThanWellFounded, WFMin
<1>3. \A d \in S : c <= d
  <2> SUFFICES ASSUME NEW d \in S PROVE c <= d  OBVIOUS
  <2>1. c \in Nat /\ d \in Nat  BY <1>1
  <2>2. ~(<<d, c>> \in OpToRel(<, Nat))  BY <1>2
  <2>3. ~(d < c)  BY <2>1, <2>2 DEF OpToRel
  <2> QED  BY <2>1, <2>3
<1>4. MinCooldown \in S /\ \A i \in Items : MinCooldown <= Cooldown[i]
  <2>1. \E x \in S : \A i \in Items : x <= Cooldown[i]  BY <1>3
  <2> QED  BY <2>1 DEF MinCooldown
<1> QED  BY <1>1, <1>4

(***************************************************************************)
(* What an item shows is always a view.                                    *)
(***************************************************************************)
LEMMA RenderIsView ==
  ASSUME TypeOK, NEW i \in Items PROVE Render(i) \in Views
BY DEF TypeOK, ItemTypeOK, Render, Views

(***************************************************************************)
(* Which steps touch which part of the state.                              *)
(***************************************************************************)
LEMMA ItemsTouched ==
  ASSUME [Next]_vars
  PROVE  \/ UNCHANGED itemVars
         \/ \E i \in Items : PollItem(i)
         \/ PrintBar
         \/ \E i \in EventItems : ReadMessage(i) \/ FinishHandler(i)
         \/ Tick
BY DEF Next, Step, Outside, vars, SkipItem, FinishUpdate, SelectError, SelectTimeout,
       SelectReady, Notify, FinishDispatch, ReadEndOfStream, ReadSignal, FinishSignals,
       Abort, Arrive, HangUp, RaiseSignal, OutsideEvent

LEMMA WaitTouched ==
  ASSUME [Next]_vars
  PROVE  \/ UNCHANGED waitVars
         \/ SelectReady \/ FinishDispatch
         \/ \E i \in EventItems :
              Notify(i) \/ ReadMessage(i) \/ ReadEndOfStream(i) \/ FinishHandler(i)
BY DEF Next, Step, Outside, vars, PollItem, SkipItem, FinishUpdate, PrintBar, SelectError,
       SelectTimeout, ReadSignal, FinishSignals, Abort, Arrive, HangUp, RaiseSignal,
       OutsideEvent, Tick

LEMMA PeersTouched ==
  ASSUME [Next]_vars
  PROVE  \/ UNCHANGED peerVars
         \/ \E i \in EventItems :
              ReadMessage(i) \/ ReadEndOfStream(i) \/ Arrive(i) \/ HangUp(i)
         \/ \E s \in Signals : ReadSignal(s) \/ RaiseSignal(s)
BY DEF Next, Step, Outside, vars, PollItem, SkipItem, FinishUpdate, PrintBar, SelectError,
       SelectTimeout, SelectReady, Notify, FinishDispatch, FinishHandler, FinishSignals,
       Abort, Tick

LEMMA ScreenTouched ==
  ASSUME [Next]_vars PROVE UNCHANGED screen \/ PrintBar
BY DEF Next, Step, Outside, vars, PollItem, SkipItem, FinishUpdate, SelectError,
       SelectTimeout, SelectReady, Notify, FinishDispatch, ReadMessage, ReadEndOfStream,
       FinishHandler, ReadSignal, FinishSignals, Abort, Arrive, HangUp, RaiseSignal,
       OutsideEvent, Tick

(***************************************************************************)
(* Where the loop must be for each of its steps.                           *)
(***************************************************************************)
LEMMA Guards ==
  /\ \A i \in Items : PollItem(i) \/ SkipItem(i) => pc = "update" /\ cursor = i
  /\ FinishUpdate => pc = "update" /\ cursor = NumItems + 1
  /\ PrintBar => pc = "print"
  /\ SelectError \/ SelectTimeout \/ SelectReady => pc = "wait"
  /\ \A i \in EventItems : Notify(i) => pc = "dispatch"
  /\ FinishDispatch => pc = "dispatch"
  /\ \A i \in EventItems :
       ReadMessage(i) \/ ReadEndOfStream(i) \/ FinishHandler(i)
         => pc = "drain" /\ handling = i
  /\ \A s \in Signals : ReadSignal(s) => pc = "signals"
  /\ FinishSignals => pc = "signals"
  /\ Abort => pc' = "aborted"
BY DEF PollItem, SkipItem, FinishUpdate, PrintBar, SelectError, SelectTimeout, SelectReady,
       Asleep, Notify, FinishDispatch, ReadMessage, ReadEndOfStream, FinishHandler,
       ReadSignal, FinishSignals, Abort

(***************************************************************************)
(* Every variable keeps its type: in particular ages stay within the       *)
(* saturation bound, the loop never works on an item that does not exist,  *)
(* and a backlog stays within its bound.                                   *)
(***************************************************************************)
LEMMA LoopTypeStep == ASSUME TypeOK, [Next]_vars PROVE LoopTypeOK'
<1> USE DEF TypeOK, LoopTypeOK, Ended
<1>1. ASSUME NEW i \in Items, PollItem(i) PROVE LoopTypeOK'
  <2>1. changed'[i] \in BOOLEAN
    BY <1>1 DEF PollItem, Flagged, ItemTypeOK
  <2>2. updated' \in BOOLEAN
    BY <1>1, <2>1 DEF PollItem
  <2>3. cursor' \in 1 .. NumItems + 1
    BY <1>1, ConstantsAssumption DEF PollItem, Items
  <2> QED  BY <1>1, <2>2, <2>3 DEF PollItem
<1>2. ASSUME NEW i \in Items, SkipItem(i) PROVE LoopTypeOK'
  BY <1>2, ConstantsAssumption DEF SkipItem, ItemTypeOK, Items
<1>3. CASE FinishUpdate
  BY <1>3 DEF FinishUpdate
<1>4. ASSUME NEW s \in Signals, ReadSignal(s) PROVE LoopTypeOK'
  <2>1. dead' \in BOOLEAN /\ force_update' \in BOOLEAN
    BY <1>4, Zenon DEF ReadSignal
  <2> QED  BY <1>4, <2>1 DEF ReadSignal
<1>5. CASE FinishSignals
  <2>1. pc' \in {"exited", "update"} /\ UNCHANGED <<force_update, dead>>
    BY <1>5 DEF FinishSignals
  <2>2. cursor' \in {cursor, 1} /\ updated' \in {updated, FALSE}
    BY <1>5 DEF FinishSignals
  <2>3. cursor' \in 1 .. NumItems + 1
    BY <2>2, ConstantsAssumption
  <2> QED  BY <2>1, <2>2, <2>3
<1>6. CASE UNCHANGED loopVars
  <2>1. pc' \in {"update", "print", "wait", "dispatch", "drain", "signals"} \cup Ended
    BY <1>6 DEF Next, Step, Outside, vars, PollItem, SkipItem, FinishUpdate, PrintBar,
       SelectError, SelectTimeout, SelectReady, LeaveWait, Notify, FinishDispatch,
       ReadMessage, ReadEndOfStream, FinishHandler, ReadSignal, FinishSignals, Abort,
       Arrive, HangUp, RaiseSignal, OutsideEvent, Tick
  <2> QED  BY <1>6, <2>1 DEF loopVars
<1>7. \/ UNCHANGED loopVars
      \/ \E i \in Items : PollItem(i) \/ SkipItem(i)
      \/ FinishUpdate \/ FinishSignals
      \/ \E s \in Signals : ReadSignal(s)
  BY DEF Next, Step, Outside, vars, PrintBar, SelectError, SelectTimeout, SelectReady,
     Notify, FinishDispatch, ReadMessage, ReadEndOfStream, FinishHandler, Abort, Arrive,
     HangUp, RaiseSignal, OutsideEvent, Tick
<1> QED  BY <1>1, <1>2, <1>3, <1>4, <1>5, <1>6, <1>7

LEMMA ItemTypeStep == ASSUME TypeOK, [Next]_vars PROVE ItemTypeOK'
<1> USE DEF TypeOK, ItemTypeOK
<1>1. ASSUME NEW i \in Items, PollItem(i) PROVE ItemTypeOK'
  <2>1. PICK r \in UpdateRaw(i) :
          /\ data' = [data EXCEPT ![i] = r.data]
          /\ changed' = [changed EXCEPT ![i] = Flagged(i, r.ok, r.changed)]
          /\ valid' = [valid EXCEPT ![i] = r.ok]
          /\ age' = IF r.ok THEN [age EXCEPT ![i] = 0] ELSE age
    BY <1>1 DEF PollItem
  <2>2. r.ok \in BOOLEAN /\ r.changed \in BOOLEAN /\ r.data \in Values
    BY DEF UpdateRaw, Values
  <2>3. valid' \in [Items -> BOOLEAN]
    BY <2>1, <2>2
  <2>4. changed' \in [Items -> BOOLEAN]
    <3>1. (changed[i] \/ r.ok # valid[i] \/ r.changed) \in BOOLEAN  OBVIOUS
    <3> QED  BY <2>1, <3>1, Zenon DEF Flagged
  <2>5. data' \in [Items -> Values]
    BY <2>1, <2>2
  <2>6. age' \in [Items -> 0 .. Never]
    BY <2>1, ConstantsAssumption
  <2> QED  BY <2>3, <2>4, <2>5, <2>6
<1>2. CASE PrintBar
  BY <1>2 DEF PrintBar
<1>3. ASSUME NEW i \in EventItems, ReadMessage(i) PROVE ItemTypeOK'
  <2>1. data' = data \/ \E v \in Shows[i] : data' = [data EXCEPT ![i] = v]
    BY <1>3 DEF ReadMessage
  <2>2. Shows[i] \subseteq Values
    BY ConstantsAssumption DEF Values
  <2>3. data' \in [Items -> Values]
    BY <2>1, <2>2
  <2> QED  BY <1>3, <2>3 DEF ReadMessage
<1>4. ASSUME NEW i \in EventItems, FinishHandler(i) PROVE ItemTypeOK'
  BY <1>4 DEF FinishHandler, Flagged, WaitTypeOK
<1>5. CASE Tick
  <2>1. age' = [i \in Items |-> Older(age[i])]
    BY <1>5 DEF Tick
  <2>2. ASSUME NEW i \in Items PROVE Older(age[i]) \in 0 .. Never
    BY ConstantsAssumption DEF Older
  <2>3. age' \in [Items -> 0 .. Never]
    BY <2>1, <2>2
  <2> QED  BY <1>5, <2>3 DEF Tick
<1>6. CASE UNCHANGED itemVars
  BY <1>6 DEF itemVars
<1> QED  BY <1>1, <1>2, <1>3, <1>4, <1>5, <1>6, ItemsTouched

LEMMA WaitTypeStep == ASSUME TypeOK, [Next]_vars PROVE WaitTypeOK'
<1> USE DEF TypeOK, WaitTypeOK, NoResult
<1>1. CASE SelectReady
  BY <1>1 DEF SelectReady, ReadableItems
<1>2. CASE FinishDispatch
  BY <1>2 DEF FinishDispatch
<1>3. ASSUME NEW i \in EventItems, Notify(i) PROVE WaitTypeOK'
  BY <1>3 DEF Notify
<1>4. ASSUME NEW i \in EventItems, ReadMessage(i) PROVE WaitTypeOK'
  BY <1>4 DEF ReadMessage
<1>5. ASSUME NEW i \in EventItems, ReadEndOfStream(i) PROVE WaitTypeOK'
  BY <1>5 DEF ReadEndOfStream
<1>6. ASSUME NEW i \in EventItems, FinishHandler(i) PROVE WaitTypeOK'
  <2>1. changed'[i] \in BOOLEAN
    BY <1>6, ItemTypeStep, ConstantsAssumption DEF ItemTypeOK
  <2> QED  BY <1>6, <2>1 DEF FinishHandler
<1>7. CASE UNCHANGED waitVars
  BY <1>7 DEF waitVars
<1> QED  BY <1>1, <1>2, <1>3, <1>4, <1>5, <1>6, <1>7, WaitTouched

LEMMA PeerTypeStep == ASSUME TypeOK, [Next]_vars PROVE PeerTypeOK'
<1> USE DEF TypeOK, PeerTypeOK
<1>1. ASSUME NEW i \in EventItems, ReadMessage(i) PROVE PeerTypeOK'
  <2>1. inbox' = [inbox EXCEPT ![i] = @ - 1] /\ inbox[i] > 0
    BY <1>1 DEF ReadMessage
  <2>2. inbox[i] - 1 \in 0 .. MaxPending
    BY <2>1, ConstantsAssumption
  <2>3. inbox' \in [EventItems -> 0 .. MaxPending]
    BY <2>1, <2>2
  <2> QED  BY <1>1, <2>3 DEF ReadMessage
<1>2. ASSUME NEW i \in EventItems, ReadEndOfStream(i) PROVE PeerTypeOK'
  BY <1>2 DEF ReadEndOfStream
<1>3. ASSUME NEW i \in EventItems, Arrive(i) PROVE PeerTypeOK'
  <2>1. inbox' = [inbox EXCEPT ![i] = @ + 1] /\ inbox[i] < MaxPending
    BY <1>3 DEF Arrive
  <2>2. inbox[i] + 1 \in 0 .. MaxPending
    BY <2>1, ConstantsAssumption
  <2>3. inbox' \in [EventItems -> 0 .. MaxPending]
    BY <2>1, <2>2
  <2> QED  BY <1>3, <2>3 DEF Arrive
<1>4. ASSUME NEW i \in EventItems, HangUp(i) PROVE PeerTypeOK'
  BY <1>4 DEF HangUp
<1>5. ASSUME NEW s \in Signals, ReadSignal(s) \/ RaiseSignal(s) PROVE PeerTypeOK'
  BY <1>5 DEF ReadSignal, RaiseSignal
<1>6. CASE UNCHANGED peerVars
  BY <1>6 DEF peerVars
<1> QED  BY <1>1, <1>2, <1>3, <1>4, <1>5, <1>6, PeersTouched

LEMMA TimeTypeStep == ASSUME TypeOK, [Next]_vars PROVE TimeTypeOK'
<1>1. \/ UNCHANGED timeVars
      \/ EnterWait
      \/ worked' = 0 /\ slept' = 0 /\ UNCHANGED burst
      \/ burst < MaxBurst /\ burst' = burst + 1 /\ UNCHANGED <<slept, worked>>
      \/ slept' = slept + 1 /\ UNCHANGED <<worked, burst>>
      \/ worked < MaxWork /\ worked' = worked + 1 /\ UNCHANGED <<slept, burst>>
  BY DEF Next, Step, Outside, vars, PollItem, SkipItem, FinishUpdate, PrintBar, SelectError,
     SelectTimeout, SelectReady, LeaveWait, Notify, FinishDispatch, ReadMessage,
     ReadEndOfStream, FinishHandler, ReadSignal, FinishSignals, Abort, Arrive, HangUp,
     RaiseSignal, OutsideEvent, Tick
<1> QED  BY <1>1, ConstantsAssumption DEF TypeOK, TimeTypeOK, timeVars, EnterWait

THEOREM TypeCorrect == Spec => []TypeOK
<1>1. Init => TypeOK
  <2> SUFFICES ASSUME Init PROVE TypeOK  OBVIOUS
  <2>1. LoopTypeOK
    <3>1. 1 \in 1 .. NumItems + 1
      BY ConstantsAssumption
    <3> QED  BY <3>1 DEF Init, LoopTypeOK
  <2>2. ItemTypeOK
    BY ConstantsAssumption DEF Init, ItemTypeOK
  <2>3. WaitTypeOK
    BY DEF Init, WaitTypeOK, NoResult
  <2>4. screen \in [Items -> Views]
    BY DEF Init, Views
  <2>5. PeerTypeOK
    BY ConstantsAssumption DEF Init, PeerTypeOK
  <2>6. TimeTypeOK
    BY ConstantsAssumption DEF Init, TimeTypeOK
  <2> QED  BY <2>1, <2>2, <2>3, <2>4, <2>5, <2>6 DEF TypeOK
<1>2. TypeOK /\ [Next]_vars => TypeOK'
  <2> SUFFICES ASSUME TypeOK, [Next]_vars PROVE TypeOK'  OBVIOUS
  <2>1. screen' \in [Items -> Views]
    <3>1. CASE PrintBar
      <4>1. screen' = [i \in Items |-> Render(i)]  BY <3>1 DEF PrintBar
      <4> QED  BY <4>1, RenderIsView
    <3>2. CASE UNCHANGED screen
      BY <3>2 DEF TypeOK
    <3> QED  BY <3>1, <3>2, ScreenTouched
  <2> QED
    BY <2>1, LoopTypeStep, ItemTypeStep, WaitTypeStep, PeerTypeStep, TimeTypeStep
    DEF TypeOK
<1> QED  BY <1>1, <1>2, PTL DEF Spec
------------------------------------------------------------------------------
(***************************************************************************)
(* Whatever the bar does not show is flagged, in every state of a process  *)
(* no exception has ended: the inductive half of AsleepShowsModel that is  *)
(* about single items.                                                     *)
(***************************************************************************)
LEMMA UnshownStep ==
  ASSUME TypeOK, UnshownIsFlagged, [Next]_vars PROVE UnshownIsFlagged'
<1> SUFFICES ASSUME pc' # "aborted", NEW i \in Items
             PROVE  \/ screen'[i] = Render(i)'
                    \/ changed'[i]
                    \/ pc' = "drain" /\ handling' = i /\ result'.changed
                    \/ pc' = "update" /\ force_update' /\ cursor' <= i /\ ~valid'[i]
  BY DEF UnshownIsFlagged
<1>1. pc # "aborted"
  BY DEF Next, Step, Outside, vars, PollItem, SkipItem, FinishUpdate, PrintBar, SelectError,
     SelectTimeout, SelectReady, LeaveWait, Notify, FinishDispatch, ReadMessage,
     ReadEndOfStream, FinishHandler, ReadSignal, FinishSignals, Abort, Arrive, HangUp,
     RaiseSignal, OutsideEvent, Tick, Asleep, Ended
<1>2. \/ screen[i] = Render(i)
      \/ changed[i]
      \/ pc = "drain" /\ handling = i /\ result.changed
      \/ pc = "update" /\ force_update /\ cursor <= i /\ ~valid[i]
  BY <1>1 DEF UnshownIsFlagged
<1>3. ASSUME NEW j \in Items, PollItem(j)
      PROVE  \/ screen'[i] = Render(i)'
             \/ changed'[i]
             \/ pc' = "update" /\ force_update' /\ cursor' <= i /\ ~valid'[i]
  <2>1. PICK r \in UpdateRaw(j) :
          /\ data' = [data EXCEPT ![j] = r.data]
          /\ changed' = [changed EXCEPT ![j] = Flagged(j, r.ok, r.changed)]
          /\ valid' = [valid EXCEPT ![j] = r.ok]
    BY <1>3 DEF PollItem
  <2>2. pc = "update" /\ pc' = "update" /\ cursor = j /\ cursor' = j + 1
        /\ force_update' = force_update /\ screen' = screen
    BY <1>3 DEF PollItem
  <2>3. CASE i = j
    <3>1. r.ok \in BOOLEAN /\ (~r.ok => r.changed) /\ (r.data # data[i] => r.changed)
      BY <2>3 DEF UpdateRaw
    <3>2. valid'[i] = r.ok /\ data'[i] = r.data
      BY <2>1, <2>3 DEF TypeOK, ItemTypeOK
    <3>3. changed'[i] <=> (changed[i] \/ r.ok # valid[i] \/ r.changed)
      BY <2>1, <2>3 DEF Flagged, TypeOK, ItemTypeOK
    <3>4. CASE ~changed'[i]
      <4>1. r.ok /\ valid[i] /\ r.data = data[i] /\ ~changed[i]
        BY <3>1, <3>3, <3>4
      <4>2. Render(i)' = Render(i)
        BY <3>2, <4>1 DEF Render
      <4> QED  BY <1>2, <2>2, <4>1, <4>2
    <3> QED  BY <3>4
  <2>4. CASE i # j
    <3>1. valid'[i] = valid[i] /\ data'[i] = data[i] /\ changed'[i] = changed[i]
      BY <2>1, <2>4 DEF TypeOK, ItemTypeOK
    <3>2. Render(i)' = Render(i)
      BY <3>1 DEF Render
    <3>3. cursor <= i => cursor' <= i
      BY <2>2, <2>4, ConstantsAssumption DEF Items
    <3> QED  BY <1>2, <2>2, <3>1, <3>2, <3>3
  <2> QED  BY <2>3, <2>4
<1>4. CASE PrintBar
  BY <1>4 DEF PrintBar, Render
<1>5. ASSUME NEW j \in EventItems, ReadMessage(j)
      PROVE  \/ screen'[i] = Render(i)'
             \/ changed'[i]
             \/ pc' = "drain" /\ handling' = i /\ result'.changed
  <2>1. pc = "drain" /\ pc' = "drain" /\ handling = j /\ handling' = j
        /\ UNCHANGED <<valid, changed, screen>>
    BY <1>5 DEF ReadMessage
  <2>2. CASE UNCHANGED data /\ result' = [result EXCEPT !.ok = FALSE]
    <3>1. result'.changed = result.changed
      BY <2>2 DEF TypeOK, WaitTypeOK
    <3> QED  BY <1>2, <2>1, <2>2, <3>1 DEF Render
  <2>3. ASSUME NEW v \in Shows[j], data' = [data EXCEPT ![j] = v],
               result' = [result EXCEPT !.changed = TRUE]
        PROVE  \/ screen'[i] = Render(i)'
               \/ changed'[i]
               \/ pc' = "drain" /\ handling' = i /\ result'.changed
    <3>1. result'.changed
      BY <2>3 DEF TypeOK, WaitTypeOK
    <3>2. i # j => data'[i] = data[i]
      BY <2>3 DEF TypeOK, ItemTypeOK
    <3> QED  BY <1>2, <2>1, <3>1, <3>2 DEF Render
  <2> QED  BY <1>5, <2>2, <2>3 DEF ReadMessage
<1>6. ASSUME NEW j \in EventItems, FinishHandler(j)
      PROVE  screen'[i] = Render(i)' \/ changed'[i]
  <2>1. pc = "drain" /\ handling = j /\ UNCHANGED <<data, screen>>
    BY <1>6 DEF FinishHandler
  <2>2. CASE i = j
    <3>1. changed'[i] <=> (changed[i] \/ result.ok # valid[i] \/ result.changed)
      BY <1>6, <2>2 DEF FinishHandler, Flagged, TypeOK, ItemTypeOK
    <3>2. valid'[i] = result.ok
      BY <1>6, <2>2 DEF FinishHandler, TypeOK, ItemTypeOK
    <3> QED  BY <1>2, <2>1, <3>1, <3>2 DEF Render
  <2>3. CASE i # j
    <3>1. valid'[i] = valid[i] /\ changed'[i] = changed[i]
      BY <1>6, <2>3 DEF FinishHandler, TypeOK, ItemTypeOK
    <3> QED  BY <1>2, <2>1, <2>3, <3>1 DEF Render
  <2> QED  BY <2>2, <2>3
<1>7. CASE Tick
  BY <1>2, <1>7 DEF Tick, loopVars, waitVars, Render
<1>8. CASE /\ UNCHANGED itemVars /\ ~PrintBar
           /\ \A j \in Items : ~PollItem(j)
           /\ \A j \in EventItems : ~ReadMessage(j) /\ ~FinishHandler(j)
  <2>1. UNCHANGED <<valid, changed, data, screen>>
    BY <1>8, ScreenTouched DEF itemVars
  <2>2. ASSUME pc = "drain", handling = i, result.changed
        PROVE  pc' = "drain" /\ handling' = i /\ result'.changed
    <3>1. \/ UNCHANGED <<pc, waitVars>>
          \/ \E j \in EventItems : ReadEndOfStream(j)
      <4>1. \/ \E j \in EventItems : ReadEndOfStream(j)
            \/ Outside \/ UNCHANGED vars
        BY <1>8, <2>2, Guards DEF Next, Step
      <4>2. Outside => UNCHANGED <<pc, waitVars>>
        BY DEF Outside, Arrive, HangUp, RaiseSignal, OutsideEvent, Tick
      <4> QED  BY <4>1, <4>2 DEF vars
    <3>2. CASE UNCHANGED <<pc, waitVars>>
      BY <2>2, <3>2 DEF waitVars
    <3>3. ASSUME NEW j \in EventItems, ReadEndOfStream(j)
          PROVE  UNCHANGED <<pc, handling>> /\ result'.changed = result.changed
      BY <3>3 DEF ReadEndOfStream, TypeOK, WaitTypeOK
    <3> QED  BY <2>2, <3>1, <3>2, <3>3
  <2>3. ASSUME pc = "update", force_update, cursor <= i, ~valid[i]
        PROVE  UNCHANGED <<pc, force_update, cursor>>
    <3>1. cursor # NumItems + 1
      BY <2>3, ConstantsAssumption DEF Items, TypeOK, LoopTypeOK
    <3>2. (\E j \in Items : SkipItem(j)) \/ Outside \/ UNCHANGED vars
      BY <1>8, <2>3, <3>1, Guards DEF Next, Step
    <3>3. \A j \in Items : ~SkipItem(j)
      BY <2>3 DEF SkipItem, Refresh
    <3>4. Outside => UNCHANGED <<pc, force_update, cursor>>
      BY DEF Outside, Arrive, HangUp, RaiseSignal, OutsideEvent, Tick, loopVars
    <3> QED  BY <3>2, <3>3, <3>4 DEF vars, loopVars
  <2> QED  BY <1>2, <2>1, <2>2, <2>3 DEF Render
<1> QED  BY <1>3, <1>4, <1>5, <1>6, <1>7, <1>8, ItemsTouched

(***************************************************************************)
(* No flag is lost on the way to the print: `updated` collects those of    *)
(* the items a round has passed, and select is entered with none left.     *)
(***************************************************************************)
LEMMA FlagsStep ==
  ASSUME TypeOK, FlagsCollected, [Next]_vars PROVE FlagsCollected'
<1>1. ASSUME NEW j \in Items, PollItem(j) PROVE FlagsCollected'
  <2>1. pc = "update" /\ pc' = "update" /\ cursor = j /\ cursor' = j + 1
        /\ updated' = (changed'[j] \/ updated)
    BY <1>1 DEF PollItem
  <2>2. \A i \in Items : i # j => changed'[i] = changed[i]
    BY <1>1 DEF PollItem, TypeOK, ItemTypeOK
  <2>3. \A i \in Items : i < j + 1 => i < j \/ i = j
    BY ConstantsAssumption DEF Items
  <2> QED  BY <2>1, <2>2, <2>3 DEF FlagsCollected
<1>2. ASSUME NEW j \in Items, SkipItem(j) PROVE FlagsCollected'
  <2>1. pc = "update" /\ pc' = "update" /\ cursor = j /\ cursor' = j + 1
        /\ updated' = (changed[j] \/ updated) /\ changed' = changed
    BY <1>2 DEF SkipItem, itemVars
  <2>2. \A i \in Items : i < j + 1 => i < j \/ i = j
    BY ConstantsAssumption DEF Items
  <2> QED  BY <2>1, <2>2 DEF FlagsCollected
<1>3. CASE FinishUpdate
  <2>1. pc = "update" /\ cursor = NumItems + 1 /\ changed' = changed
    BY <1>3 DEF FinishUpdate, itemVars
  <2>2. \A i \in Items : i < NumItems + 1
    BY ConstantsAssumption DEF Items
  <2>3. ~updated => \A i \in Items : ~changed[i]
    BY <2>1, <2>2 DEF FlagsCollected
  <2>4. CASE pc' = "print"
    BY <2>4 DEF FlagsCollected
  <2>5. CASE ~updated /\ pc' = "wait"
    BY <2>1, <2>3, <2>5 DEF FlagsCollected
  <2> QED  BY <1>3, <2>4, <2>5 DEF FinishUpdate
<1>4. CASE PrintBar
  BY <1>4 DEF PrintBar, FlagsCollected
<1>5. CASE FinishSignals
  <2>1. \A i \in Items : ~(i < 1)
    BY ConstantsAssumption DEF Items
  <2>2. CASE pc' = "exited"
    BY <2>2 DEF FlagsCollected
  <2>3. CASE pc' = "update" /\ cursor' = 1
    BY <2>1, <2>3 DEF FlagsCollected
  <2> QED  BY <1>5, <2>2, <2>3 DEF FinishSignals
<1>6. CASE pc' \notin {"update", "wait"}
  BY <1>6 DEF FlagsCollected
<1>7. CASE UNCHANGED <<pc, cursor, updated, changed>>
  BY <1>7 DEF FlagsCollected
<1>8. \/ \E j \in Items : PollItem(j) \/ SkipItem(j)
      \/ FinishUpdate \/ PrintBar \/ FinishSignals
      \/ pc' \notin {"update", "wait"}
      \/ UNCHANGED <<pc, cursor, updated, changed>>
  BY DEF Next, Step, Outside, vars, SelectError, SelectTimeout, SelectReady, LeaveWait,
     Notify, FinishDispatch, ReadMessage, ReadEndOfStream, FinishHandler, ReadSignal,
     Abort, Arrive, HangUp, RaiseSignal, OutsideEvent, Tick, loopVars, itemVars
<1> QED  BY <1>1, <1>2, <1>3, <1>4, <1>5, <1>6, <1>7, <1>8

(***************************************************************************)
(* The invariant behind the first promise of the loop.                     *)
(***************************************************************************)
ShownInv == TypeOK /\ UnshownIsFlagged /\ FlagsCollected

LEMMA ShownInvariant == Spec => []ShownInv
<1>1. Init => UnshownIsFlagged /\ FlagsCollected
  <2> SUFFICES ASSUME Init PROVE UnshownIsFlagged /\ FlagsCollected  OBVIOUS
  <2>1. \A i \in Items : 1 <= i /\ ~(i < 1)
    BY ConstantsAssumption DEF Items
  <2> QED  BY <2>1 DEF Init, UnshownIsFlagged, FlagsCollected
<1>2. ShownInv /\ [Next]_vars => UnshownIsFlagged' /\ FlagsCollected'
  BY UnshownStep, FlagsStep DEF ShownInv
<1>3. Spec => []TypeOK
  BY TypeCorrect
<1> QED  BY <1>1, <1>2, <1>3, PTL DEF Spec, ShownInv

(***************************************************************************)
(* The process never sleeps over an unprinted change: for any number of    *)
(* items, cooldowns and messages, whenever select is entered the bar shows *)
(* what every item holds.                                                  *)
(***************************************************************************)
THEOREM SleepsOnlyWhenShown == Spec => []AsleepShowsModel
<1>1. ShownInv => AsleepShowsModel
  BY DEF ShownInv, UnshownIsFlagged, FlagsCollected, AsleepShowsModel
<1> QED  BY <1>1, ShownInvariant, PTL------------------------------------------------------------------------------
(***************************************************************************)
(* An item the round has passed is as fresh as its cooldown asks for, but  *)
(* for the seconds of work since, and stays so through the print and the   *)
(* sleep, which is never longer than the shortest cooldown.                *)
(***************************************************************************)
LEMMA FreshStep ==
  ASSUME TypeOK, PassedIsFresh, [Next]_vars PROVE PassedIsFresh'
<1>0. /\ \A i \in Items : age[i] \in Nat /\ Cooldown[i] \in Nat
      /\ worked \in Nat /\ slept \in Nat /\ MinCooldown \in Nat
      /\ slept <= MinCooldown
  BY ConstantsAssumption, MinCooldownIsLeast
  DEF TypeOK, ItemTypeOK, TimeTypeOK, PassedIsFresh
<1>1. ASSUME NEW j \in Items, PollItem(j) PROVE PassedIsFresh'
  <2>1. pc = "update" /\ pc' = "update" /\ cursor = j /\ cursor' = j + 1
        /\ worked' = worked /\ slept' = slept
    BY <1>1 DEF PollItem, timeVars
  <2>2. valid'[j] => age'[j] = 0
    BY <1>1 DEF PollItem, TypeOK, ItemTypeOK
  <2>3. \A i \in Items : i # j => valid'[i] = valid[i] /\ age'[i] = age[i]
    BY <1>1 DEF PollItem, TypeOK, ItemTypeOK
  <2>4. \A i \in Items : i < j + 1 => i < j \/ i = j
    BY ConstantsAssumption DEF Items
  <2>5. \A i \in Items : i < cursor /\ valid[i] => age[i] <= Cooldown[i] + worked
    BY <2>1 DEF PassedIsFresh
  <2>6. ASSUME NEW i \in Items, i < cursor', valid'[i]
        PROVE  age'[i] <= Cooldown[i] + worked'
    <3>1. CASE i = j
      BY <1>0, <2>1, <2>2, <2>6, <3>1
    <3>2. CASE i # j
      BY <2>1, <2>3, <2>4, <2>5, <2>6, <3>2
    <3> QED  BY <3>1, <3>2
  <2> QED  BY <1>0, <2>1, <2>6 DEF PassedIsFresh
<1>2. ASSUME NEW j \in Items, SkipItem(j) PROVE PassedIsFresh'
  <2>1. pc = "update" /\ pc' = "update" /\ cursor = j /\ cursor' = j + 1
        /\ UNCHANGED <<worked, slept, valid, age>> /\ ~(age[j] > Cooldown[j])
    BY <1>2 DEF SkipItem, timeVars, itemVars, Refresh, Due
  <2>2. \A i \in Items : i < j + 1 => i < j \/ i = j
    BY ConstantsAssumption DEF Items
  <2>3. \A i \in Items : i < cursor /\ valid[i] => age[i] <= Cooldown[i] + worked
    BY <2>1 DEF PassedIsFresh
  <2>4. age[j] <= Cooldown[j] + worked
    BY <1>0, <2>1
  <2> QED  BY <1>0, <2>1, <2>2, <2>3, <2>4 DEF PassedIsFresh
<1>3. CASE FinishUpdate
  <2>1. pc = "update" /\ cursor = NumItems + 1 /\ UNCHANGED <<valid, age, worked>>
    BY <1>3 DEF FinishUpdate, itemVars, timeVars, EnterWait
  <2>2. \/ updated /\ pc' = "print" /\ slept' = slept
        \/ ~updated /\ pc' = "wait" /\ slept' = 0
    BY <1>3, Zenon DEF FinishUpdate, timeVars, EnterWait
  <2>3. \A i \in Items : i < NumItems + 1
    BY ConstantsAssumption DEF Items
  <2>4. \A i \in Items : valid[i] => age[i] <= Cooldown[i] + worked
    BY <2>1, <2>3 DEF PassedIsFresh
  <2> QED  BY <1>0, <2>1, <2>2, <2>4 DEF PassedIsFresh
<1>4. CASE PrintBar
  <2>1. pc = "print" /\ pc' = "wait" /\ slept' = 0 /\ UNCHANGED <<valid, age, worked>>
    BY <1>4 DEF PrintBar, EnterWait
  <2>2. \A i \in Items : valid[i] => age[i] <= Cooldown[i] + worked
    BY <2>1 DEF PassedIsFresh
  <2> QED  BY <1>0, <2>1, <2>2 DEF PassedIsFresh
<1>5. CASE FinishSignals
  <2>1. \A i \in Items : ~(i < 1)
    BY ConstantsAssumption DEF Items
  <2>2. slept' = slept
    BY <1>5 DEF FinishSignals, timeVars
  <2>3. CASE pc' = "exited"
    BY <1>0, <2>2, <2>3 DEF PassedIsFresh
  <2>4. CASE pc' = "update" /\ cursor' = 1
    BY <1>0, <2>1, <2>2, <2>4 DEF PassedIsFresh
  <2> QED  BY <1>5, <2>3, <2>4 DEF FinishSignals
<1>6. CASE Tick
  <2>1. UNCHANGED <<pc, cursor, valid>>
    BY <1>6 DEF Tick, loopVars
  <2>2. \A i \in Items : age'[i] <= age[i] + 1
    BY <1>0, <1>6 DEF Tick, Older
  <2>3. \/ pc = "wait" /\ slept < MinCooldown /\ slept' = slept + 1 /\ worked' = worked
        \/ pc # "wait" /\ worked' = worked + 1 /\ slept' = slept
    BY <1>6 DEF Tick, Asleep
  <2>4. slept' <= MinCooldown
    BY <1>0, <2>3
  <2>5. \A i \in Items : age'[i] \in Nat
    BY <1>6, ItemTypeStep DEF ItemTypeOK
  <2>6. CASE pc = "update"
    <3>1. \A i \in Items : i < cursor /\ valid[i] => age[i] <= Cooldown[i] + worked
      BY <2>6 DEF PassedIsFresh
    <3>2. \A i \in Items : i < cursor /\ valid[i] => age'[i] <= Cooldown[i] + worked'
      BY <1>0, <2>2, <2>3, <2>5, <2>6, <3>1
    <3> QED  BY <2>1, <2>4, <2>6, <3>2 DEF PassedIsFresh
  <2>7. CASE pc = "print"
    <3>1. \A i \in Items : valid[i] => age[i] <= Cooldown[i] + worked
      BY <2>7 DEF PassedIsFresh
    <3>2. \A i \in Items : valid[i] => age'[i] <= Cooldown[i] + worked'
      BY <1>0, <2>2, <2>3, <2>5, <2>7, <3>1
    <3> QED  BY <2>1, <2>4, <2>7, <3>2 DEF PassedIsFresh
  <2>8. CASE pc = "wait"
    <3>1. \A i \in Items : valid[i] => age[i] <= Cooldown[i] + worked + slept
      BY <2>8 DEF PassedIsFresh
    <3>2. \A i \in Items : valid[i] => age'[i] <= Cooldown[i] + worked' + slept'
      BY <1>0, <2>2, <2>3, <2>5, <2>8, <3>1
    <3> QED  BY <2>1, <2>4, <2>8, <3>2 DEF PassedIsFresh
  <2>9. CASE pc \notin {"update", "print", "wait"}
    BY <2>1, <2>4, <2>9 DEF PassedIsFresh
  <2> QED  BY <2>6, <2>7, <2>8, <2>9
<1>7. CASE pc' \notin {"update", "print", "wait"} /\ slept' \in {slept, 0}
  BY <1>0, <1>7 DEF PassedIsFresh
<1>8. CASE UNCHANGED <<pc, cursor, valid, age, slept, worked>>
  BY <1>8 DEF PassedIsFresh
<1>9. \/ \E j \in Items : PollItem(j) \/ SkipItem(j)
      \/ FinishUpdate \/ PrintBar \/ FinishSignals \/ Tick
      \/ pc' \notin {"update", "print", "wait"} /\ slept' \in {slept, 0}
      \/ UNCHANGED <<pc, cursor, valid, age, slept, worked>>
  BY DEF Next, Step, Outside, vars, SelectError, SelectTimeout, SelectReady, LeaveWait,
     Notify, FinishDispatch, ReadMessage, ReadEndOfStream, FinishHandler, ReadSignal,
     Abort, Arrive, HangUp, RaiseSignal, OutsideEvent, loopVars, itemVars, timeVars
<1> QED  BY <1>1, <1>2, <1>3, <1>4, <1>5, <1>6, <1>7, <1>8, <1>9

LEMMA FreshInvariant == Spec => [](TypeOK /\ PassedIsFresh)
<1>1. Init => PassedIsFresh
  <2> SUFFICES ASSUME Init PROVE PassedIsFresh  OBVIOUS
  <2>1. \A i \in Items : ~(i < 1)
    BY ConstantsAssumption DEF Items
  <2> QED  BY <2>1, MinCooldownIsLeast DEF Init, PassedIsFresh
<1>2. TypeOK /\ PassedIsFresh /\ [Next]_vars => PassedIsFresh'
  BY FreshStep
<1> QED  BY <1>1, <1>2, TypeCorrect, PTL DEF Spec

(***************************************************************************)
(* Nothing valid on the bar of a sleeping process is older than its        *)
(* cooldown, the cooldown of any other item and one round of work.         *)
(***************************************************************************)
THEOREM StalenessBounded == Spec => []BoundedStaleness
<1>1. TypeOK /\ PassedIsFresh => BoundedStaleness
  <2> SUFFICES ASSUME TypeOK, PassedIsFresh, pc = "wait",
                      NEW i \in Items, NEW j \in Items, valid[i]
               PROVE  age[i] <= Cooldown[i] + Cooldown[j] + MaxWork
    BY DEF BoundedStaleness
  <2>1. age[i] \in Nat /\ Cooldown[i] \in Nat /\ slept \in Nat /\ worked \in Nat
        /\ worked <= MaxWork /\ MaxWork \in Nat
    BY ConstantsAssumption DEF TypeOK, ItemTypeOK, TimeTypeOK
  <2>2. MinCooldown \in Nat /\ Cooldown[j] \in Nat /\ MinCooldown <= Cooldown[j]
    BY ConstantsAssumption, MinCooldownIsLeast
  <2>3. age[i] <= Cooldown[i] + worked + slept /\ slept <= MinCooldown
    BY DEF PassedIsFresh
  <2> QED  BY <2>1, <2>2, <2>3
<1> QED  BY <1>1, FreshInvariant, PTL
------------------------------------------------------------------------------
(***************************************************************************)
(* The round that startup or SIGUSR1 forces reads every item it passes,    *)
(* whatever the cooldowns are.                                             *)
(***************************************************************************)
LEMMA ForcedStep ==
  ASSUME TypeOK, ForcedRoundReadsAll, [Next]_vars PROVE ForcedRoundReadsAll'
<1>0. worked \in Nat /\ \A i \in Items : age[i] \in Nat
  BY ConstantsAssumption DEF TypeOK, TimeTypeOK, ItemTypeOK
<1>1. ASSUME NEW j \in Items, PollItem(j), pc' = "update", force_update',
             NEW i \in Items, i < cursor', valid'[i]
      PROVE  age'[i] <= worked'
  <2>1. pc = "update" /\ force_update /\ cursor = j /\ cursor' = j + 1
        /\ worked' = worked
    BY <1>1 DEF PollItem, timeVars
  <2>2. CASE i = j
    <3>1. valid'[j] => age'[j] = 0
      BY <1>1 DEF PollItem, TypeOK, ItemTypeOK
    <3> QED  BY <1>0, <1>1, <2>1, <2>2, <3>1
  <2>3. CASE i # j
    <3>1. valid'[i] = valid[i] /\ age'[i] = age[i]
      BY <1>1, <2>3 DEF PollItem, TypeOK, ItemTypeOK
    <3>2. i < cursor
      BY <1>1, <2>1, <2>3, ConstantsAssumption DEF Items
    <3> QED  BY <1>1, <2>1, <3>1, <3>2 DEF ForcedRoundReadsAll
  <2> QED  BY <2>2, <2>3
<1>2. ASSUME NEW j \in Items, SkipItem(j) PROVE ForcedRoundReadsAll'
  BY <1>2 DEF SkipItem, Refresh, ForcedRoundReadsAll
<1>3. CASE FinishSignals
  <2>1. \A i \in Items : ~(i < 1)
    BY ConstantsAssumption DEF Items
  <2>2. pc' = "exited" \/ cursor' = 1
    BY <1>3 DEF FinishSignals
  <2> QED  BY <2>1, <2>2 DEF ForcedRoundReadsAll
<1>4. CASE Tick
  <2>1. UNCHANGED <<pc, cursor, force_update, valid>>
    BY <1>4 DEF Tick, loopVars
  <2>2. \A i \in Items : age'[i] \in Nat /\ age'[i] <= age[i] + 1
    BY <1>0, <1>4 DEF Tick, Older
  <2>3. pc = "update" => worked' = worked + 1
    BY <1>4 DEF Tick, Asleep
  <2>4. ASSUME pc = "update", force_update, NEW i \in Items, i < cursor, valid[i]
        PROVE  age'[i] <= worked'
    <3>1. age[i] <= worked
      BY <2>4 DEF ForcedRoundReadsAll
    <3> QED  BY <1>0, <2>2, <2>3, <2>4, <3>1
  <2> QED  BY <2>1, <2>4 DEF ForcedRoundReadsAll
<1>5. CASE pc' # "update"
  BY <1>5 DEF ForcedRoundReadsAll
<1>6. CASE UNCHANGED <<pc, cursor, force_update, valid, age, worked>>
  BY <1>6 DEF ForcedRoundReadsAll
<1>7. \/ \E j \in Items : PollItem(j) \/ SkipItem(j)
      \/ FinishSignals \/ Tick
      \/ pc' # "update"
      \/ UNCHANGED <<pc, cursor, force_update, valid, age, worked>>
  BY DEF Next, Step, Outside, vars, FinishUpdate, PrintBar, SelectError, SelectTimeout,
     SelectReady, LeaveWait, Notify, FinishDispatch, ReadMessage, ReadEndOfStream,
     FinishHandler, ReadSignal, Abort, Arrive, HangUp, RaiseSignal, OutsideEvent,
     loopVars, itemVars, timeVars
<1>8. ASSUME NEW j \in Items, PollItem(j) PROVE ForcedRoundReadsAll'
  BY <1>1, <1>8 DEF ForcedRoundReadsAll
<1> QED  BY <1>2, <1>3, <1>4, <1>5, <1>6, <1>7, <1>8

THEOREM ForcedRoundComplete == Spec => []ForcedRoundReadsAll
<1>1. Init => ForcedRoundReadsAll
  <2>1. \A i \in Items : ~(i < 1)
    BY ConstantsAssumption DEF Items
  <2> QED  BY <2>1 DEF Init, ForcedRoundReadsAll
<1>2. TypeOK /\ ForcedRoundReadsAll /\ [Next]_vars => ForcedRoundReadsAll'
  BY ForcedStep
<1> QED  BY <1>1, <1>2, TypeCorrect, PTL DEF Spec
------------------------------------------------------------------------------
(***************************************************************************)
(* A step that rewrites the rendering of at most one item, in an awake     *)
(* process, is the abstract bar learning something, or nothing at all.     *)
(***************************************************************************)
LEMMA LearnsOne ==
  ASSUME NEW i \in Items, TypeOK', phase = "awake", phase' = "awake",
         UNCHANGED screen, \A j \in Items : j # i => Render(j)' = Render(j)
  PROVE  SB!Learn(i)
<1> DEFINE view == [j \in Items |-> Render(j)]
<1>1. Render(i)' \in Views
  BY DEF TypeOK, ItemTypeOK, Render, Views
<1>2. view' = [view EXCEPT ![i] = Render(i)']
  <2>1. view' = [j \in Items |-> Render(j)']
    OBVIOUS
  <2>2. [view EXCEPT ![i] = Render(i)'] =
          [j \in Items |-> IF j = i THEN Render(i)' ELSE Render(j)]
    OBVIOUS
  <2>3. \A j \in Items : Render(j)' = IF j = i THEN Render(i)' ELSE Render(j)
    OBVIOUS
  <2> QED  BY <2>1, <2>2, <2>3
<1> QED  BY <1>1, <1>2 DEF SB!Learn
(***************************************************************************)
(* Every step of the loop is a step of the abstract bar or invisible in it.*)
(***************************************************************************)
LEMMA StepSimulation ==
  ASSUME ShownInv, ShownInv', [Next]_vars PROVE [SB!Next]_(SB!vars)
<1> DEFINE view == [j \in Items |-> Render(j)]
<1>1. ASSUME UNCHANGED <<valid, data>> PROVE view' = view
  BY <1>1 DEF Render
<1>2. ASSUME UNCHANGED <<valid, data, screen>>, phase' = phase PROVE UNCHANGED SB!vars
  <2>1. view' = view  BY <1>1, <1>2
  <2> QED  BY <1>2, <2>1 DEF SB!vars
<1>3. ASSUME NEW i \in Items, PollItem(i) PROVE SB!Learn(i)
  <2>1. phase = "awake" /\ phase' = "awake" /\ UNCHANGED screen
    BY <1>3 DEF PollItem, phase, Ended
  <2>2. \A j \in Items : j # i => valid'[j] = valid[j] /\ data'[j] = data[j]
    BY <1>3 DEF PollItem, ShownInv, TypeOK, ItemTypeOK
  <2>3. \A j \in Items : j # i => Render(j)' = Render(j)
    BY <2>2 DEF Render
  <2>4. TypeOK'
    BY DEF ShownInv
  <2> QED  BY <2>1, <2>3, <2>4, LearnsOne
<1>4. ASSUME NEW i \in EventItems, ReadMessage(i) \/ FinishHandler(i) PROVE SB!Learn(i)
  <2>1. phase = "awake" /\ phase' = "awake" /\ UNCHANGED screen
    BY <1>4 DEF ReadMessage, FinishHandler, phase, Ended
  <2>2. \A j \in Items : j # i => valid'[j] = valid[j] /\ data'[j] = data[j]
    BY <1>4 DEF ReadMessage, FinishHandler, ShownInv, TypeOK, ItemTypeOK
  <2>3. \A j \in Items : j # i => Render(j)' = Render(j)
    BY <2>2 DEF Render
  <2>4. TypeOK' /\ i \in Items
    BY ConstantsAssumption DEF ShownInv
  <2> QED  BY <2>1, <2>3, <2>4, LearnsOne
<1>5. CASE FinishUpdate
  <2>1. pc = "update" /\ UNCHANGED <<valid, data, screen>>
    BY <1>5 DEF FinishUpdate, itemVars
  <2>2. CASE pc' = "print"
    <3>1. phase' = phase
      BY <2>1, <2>2 DEF phase, Ended
    <3> QED  BY <1>2, <2>1, <3>1
  <2>3. CASE pc' = "wait"
    <3>1. \A i \in Items : screen'[i] = Render(i)'
      BY <2>3 DEF ShownInv, UnshownIsFlagged, FlagsCollected
    <3>2. screen' = [i \in Items |-> screen'[i]]
      BY DEF ShownInv, TypeOK
    <3>3. view' = view
      BY <1>1, <2>1
    <3>4. \A i \in Items : Render(i)' = Render(i)
      BY <2>1 DEF Render
    <3>5. screen' = view
      BY <3>1, <3>2, <3>4
    <3>6. phase = "awake" /\ phase' = "asleep"
      BY <2>1, <2>3 DEF phase, Ended
    <3>7. SB!FallAsleep
      BY <3>3, <3>5, <3>6 DEF SB!FallAsleep
    <3> QED  BY <3>7 DEF SB!Next
  <2> QED  BY <1>5, <2>2, <2>3 DEF FinishUpdate
<1>6. CASE PrintBar
  <2>1. view' = view
    BY <1>1, <1>6 DEF PrintBar
  <2>2. phase = "awake" /\ phase' = "asleep" /\ screen' = view
    BY <1>6 DEF PrintBar, phase, Ended
  <2>3. SB!FallAsleep
    BY <2>1, <2>2 DEF SB!FallAsleep
  <2> QED  BY <2>3 DEF SB!Next
<1>7. CASE SelectError \/ SelectTimeout \/ SelectReady
  <2>1. phase = "asleep" /\ phase' = "awake" /\ UNCHANGED <<valid, data, screen>>
    BY <1>7 DEF SelectError, SelectTimeout, SelectReady, LeaveWait, Asleep, phase, Ended,
       itemVars
  <2>2. view' = view
    BY <1>1, <2>1
  <2>3. SB!WakeUp
    BY <2>1, <2>2 DEF SB!WakeUp
  <2> QED  BY <2>3 DEF SB!Next
<1>8. ASSUME phase = "awake", phase' = "ended", UNCHANGED <<valid, data, screen>>
      PROVE  SB!End
  <2>1. view' = view
    BY <1>1, <1>8
  <2> QED  BY <1>8, <2>1 DEF SB!End
<1>9. CASE Abort
  <2>1. phase = "awake" /\ phase' = "ended" /\ UNCHANGED <<valid, data, screen>>
    BY <1>9 DEF Abort, phase, Ended, itemVars
  <2> QED  BY <1>8, <2>1 DEF SB!Next
<1>10. CASE FinishSignals
  <2>1. pc = "signals" /\ UNCHANGED <<valid, data, screen>>
    BY <1>10 DEF FinishSignals, itemVars
  <2>2. CASE pc' = "exited"
    <3>1. phase = "awake" /\ phase' = "ended"
      BY <2>1, <2>2 DEF phase, Ended
    <3> QED  BY <1>8, <2>1, <3>1 DEF SB!Next
  <2>3. CASE pc' = "update"
    <3>1. phase' = phase
      BY <2>1, <2>3 DEF phase, Ended
    <3> QED  BY <1>2, <2>1, <3>1
  <2> QED  BY <1>10, <2>2, <2>3 DEF FinishSignals
<1>11. CASE \/ \E i \in Items : SkipItem(i)
            \/ \E i \in EventItems : Notify(i) \/ ReadEndOfStream(i)
            \/ FinishDispatch
            \/ \E s \in Signals : ReadSignal(s)
            \/ Outside
            \/ UNCHANGED vars
  <2>1. UNCHANGED <<valid, data, screen>> /\ phase' = phase
    BY <1>11 DEF SkipItem, Notify, ReadEndOfStream, FinishDispatch, ReadSignal, Outside,
       Arrive, HangUp, RaiseSignal, OutsideEvent, Tick, vars, itemVars, phase, Ended
  <2> QED  BY <1>2, <2>1
<1>12. (\E i \in Items : SB!Learn(i)) => SB!Next
  BY DEF SB!Next
<1>13. EventItems \subseteq Items
  BY ConstantsAssumption
<1> QED
  BY <1>3, <1>4, <1>5, <1>6, <1>7, <1>9, <1>10, <1>11, <1>12, <1>13 DEF Next, Step

(***************************************************************************)
(* The loop keeps the promise of StatusBar: what it does to the items, the *)
(* bar and its own sleep is what the abstract bar may do.                  *)
(***************************************************************************)
THEOREM LoopImplementsStatusBar == Spec => ImplementsStatusBar
<1>1. Init => SB!Init
  <2> SUFFICES ASSUME Init PROVE SB!Init  OBVIOUS
  <2>1. \A i \in Items : Render(i) \in Views
    BY DEF Init, Render, Views
  <2>2. phase = "awake" /\ screen \in [Items -> Views]
    BY DEF Init, phase, Ended, Views
  <2> QED  BY <2>1, <2>2 DEF SB!Init
<1>2. ShownInv /\ ShownInv' /\ [Next]_vars => [SB!Next]_(SB!vars)
  BY StepSimulation
<1> QED
  BY <1>1, <1>2, ShownInvariant, PTL DEF Spec, ImplementsStatusBar, SB!Spec
==============================================================================
