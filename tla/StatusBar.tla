------------------------------ MODULE StatusBar ------------------------------
(***************************************************************************)
(* What statorange promises whoever looks at the bar, with the loop taken  *)
(* away: it may take in new information and redraw while it is awake, and  *)
(* whenever it sleeps the bar shows exactly what it knows.                 *)
(***************************************************************************)

CONSTANTS Items,  \* the things on the bar
          Views   \* what one of them may show

VARIABLES view,   \* what each item should show
          bar,    \* what the bar shows in its place
          phase   \* awake, asleep or ended

vars == <<view, bar, phase>>

Init ==
  /\ view \in [Items -> Views]
  /\ bar \in [Items -> Views]
  /\ phase = "awake"

Learn(i) ==
  /\ phase = "awake"
  /\ \E v \in Views : view' = [view EXCEPT ![i] = v]
  /\ UNCHANGED <<bar, phase>>

FallAsleep ==
  /\ phase = "awake"
  /\ bar' = view
  /\ phase' = "asleep"
  /\ UNCHANGED view

WakeUp ==
  /\ phase = "asleep"
  /\ phase' = "awake"
  /\ UNCHANGED <<view, bar>>

End ==
  /\ phase = "awake"
  /\ phase' = "ended"
  /\ UNCHANGED <<view, bar>>

Next == (\E i \in Items : Learn(i)) \/ FallAsleep \/ WakeUp \/ End

Spec == Init /\ [][Next]_vars
==============================================================================
