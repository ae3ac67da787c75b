------------------------------- MODULE NetProofs -------------------------------
(***************************************************************************)
(* Proofs about Net: for any interfaces, address families and cooldowns.   *)
(***************************************************************************)
EXTENDS Net, TLAPS, WellFoundedInduction

------------------------------------------------------------------------------
(* The constants *)

LEMMA Numbers ==
  /\ Len(Families) \in Nat /\ Len(Families) >= 1 /\ Never \in Nat
  /\ \A i \in Interfaces :
       /\ Cooldown[i] \in Nat /\ CheckCooldown[i] \in Nat /\ Gap[i] \in Nat
       /\ CheckCooldown[i] < Never
<1>1. /\ Len(Families) \in Nat \ {0} /\ Never \in Nat
      /\ Cooldown \in [Interfaces -> Nat] /\ CheckCooldown \in [Interfaces -> Nat]
      /\ Gap \in [Interfaces -> Nat]
      /\ \A i, j \in Interfaces : Never > Gap[i] + CheckCooldown[i] + Cooldown[j]
  BY NetAssumption
<1>2. ASSUME NEW i \in Interfaces
      PROVE  /\ Cooldown[i] \in Nat /\ CheckCooldown[i] \in Nat /\ Gap[i] \in Nat
             /\ CheckCooldown[i] < Never
  <2>1. Cooldown[i] \in Nat /\ CheckCooldown[i] \in Nat /\ Gap[i] \in Nat
    BY <1>1
  <2>2. Never > Gap[i] + CheckCooldown[i] + Cooldown[i]
    BY <1>1
  <2> QED  BY <1>1, <2>1, <2>2
<1> QED  BY <1>1, <1>2

\* Net::min_cooldown is a cooldown or 1000.
LEMMA MinCooldownTyped == MinCooldown \in Nat
<1> DEFINE S == {Cooldown[i] : i \in Interfaces} \cup {1000}
<1>1. S \subseteq Nat /\ 1000 \in S /\ \A i \in Interfaces : Cooldown[i] \in S
  <2>1. \A i \in Interfaces : Cooldown[i] \in Nat
    BY Numbers
  <2>2. \A x \in {Cooldown[i] : i \in Interfaces} : x \in Nat
    BY <2>1
  <2>3. S \subseteq Nat
    BY <2>2
  <2>4. 1000 \in S
    OBVIOUS
  <2>5. \A i \in Interfaces : Cooldown[i] \in S
    OBVIOUS
  <2> QED  BY <2>3, <2>4, <2>5
<1>2. PICK m \in S : \A n \in S : ~(<<n, m>> \in OpToRel(<, Nat))
  <2>1. S \subseteq Nat /\ S # {}
    BY <1>1
  <2> HIDE DEF S
  <2> QED  BY <2>1, NatLessThanWellFounded, WFMin
<1>3. \A n \in S : m <= n
  <2> SUFFICES ASSUME NEW n \in S, ~(m <= n)  PROVE FALSE
    OBVIOUS
  <2>1. n \in Nat /\ m \in Nat /\ n < m
    BY <1>1
  <2>2. <<n, m>> \in OpToRel(<, Nat)
    BY <2>1 DEF OpToRel
  <2> QED  BY <1>2, <2>2
<1>4. m <= 1000 /\ \A i \in Interfaces : m <= Cooldown[i]
  BY <1>1, <1>3
<1>5. MinCooldown \in S
  BY <1>4 DEF MinCooldown
<1> QED  BY <1>1, <1>5

LEMMA FamilyTyped ==
  /\ \A k \in 1 .. Len(Families) : Families[k] \in FamilySet
  /\ Absent \in Entries
BY DEF FamilySet, Absent, Entries

------------------------------------------------------------------------------
(* The invariant *)

\* Where the item that is updated has not come yet.
Reading(i)  == item = i /\ pc \in {"table", "find"}
Deciding(i) == item = i /\ pc \in {"table", "find", "wireless", "check"}
Checking(i) == item = i /\ pc \in {"socket", "bind", "connect"}

\* The table is no older than its stamp, and trusted only within the cooldown.
TableStamped ==
  /\ \A i \in Interfaces : addresses[i] # Absent => entryAge[i] <= tableAge
  /\ pc = "find" => tableAge <= MinCooldown

\* What an item shows has aged with it since it was last polled.
AgesWithPolls ==
  \A i \in Interfaces : up[i] =>
    /\ ~Reading(i) => ipAge[i] <= MinCooldown + polled[i]
    /\ ~Deciding(i) => checkAge[i] <= CheckCooldown[i] + polled[i]

\* connect_to has a socket between opening it and returning.
OneSocket == fds = IF pc \in {"bind", "connect"} THEN 1 ELSE 0

\* A check that was ever made, and is over, has set the flags of every family; one
\* that is under way those of the families before.
AllSet(i) == \A k \in 1 .. Len(Families) : connected[i][Families[k]] # "unset"
FlagsSet ==
  \A i \in Interfaces :
    /\ AllSet(i) \/ checkAge[i] = Never \/ Checking(i)
    /\ up[i] => AllSet(i) \/ Checking(i) \/ Deciding(i)
    /\ Checking(i) => \A k \in 1 .. Len(Families) :
                        k < checking => connected[i][Families[k]] # "unset"

\* Until the addresses are looked up the item shows what it did; afterwards it says
\* `changed`, unless its interface was and is missing.
ReportKept ==
  /\ pc \in {"table", "find"} => Shown(item) = before /\ result.ok
  /\ pc = "return" => result.changed \/ (result.ok /\ Shown(item) = before)

IInv == TypeOK /\ TableStamped /\ AgesWithPolls /\ OneSocket /\ FlagsSet /\ ReportKept

LEMMA InitNet == Init => IInv
<1> SUFFICES ASSUME Init PROVE IInv
  OBVIOUS
<1>1. TypeOK
  <2>1. /\ addresses \in [Interfaces -> Entries] /\ ip \in [Interfaces -> Entries]
        /\ connected \in [Interfaces -> [FamilySet -> {"unset", "yes", "no"}]]
    BY FamilyTyped DEF Init
  <2>2. /\ tableAge \in 0 .. Never /\ checkAge \in [Interfaces -> 0 .. Never]
        /\ ipAge \in [Interfaces -> 0 .. Never] /\ entryAge \in [Interfaces -> 0 .. Never]
        /\ checking \in 1 .. Len(Families)
        /\ \A i \in Interfaces : polled[i] \in 0 .. Gap[i]
    BY Numbers DEF Init
  <2> QED  BY <2>1, <2>2 DEF Init, TypeOK
<1>2. TableStamped
  BY DEF Init, TableStamped
<1>3. AgesWithPolls /\ OneSocket
  BY DEF Init, AgesWithPolls, OneSocket
<1>4. FlagsSet /\ ReportKept
  BY DEF Init, FlagsSet, ReportKept, Checking
<1> QED  BY <1>1, <1>2, <1>3, <1>4 DEF IInv

------------------------------------------------------------------------------
(* The steps *)

LEMMA UpdateStep ==
  ASSUME IInv, NEW i \in Interfaces, Update(i)
  PROVE  IInv'
<1> USE DEF IInv, Update
<1>1. polled' = [polled EXCEPT ![i] = 0] /\ \A j \in Interfaces \ {i} : polled'[j] = polled[j]
  BY DEF TypeOK
<1>2. TypeOK'
  <2>1. \A j \in Interfaces : polled'[j] \in 0 .. Gap[j]
    BY Numbers, <1>1 DEF TypeOK
  <2> QED  BY <2>1 DEF TypeOK, tableVars, itemVars
<1>3. TableStamped' /\ OneSocket'
  BY DEF TableStamped, OneSocket, tableVars
<1>4. AgesWithPolls'
  BY <1>1 DEF AgesWithPolls, Reading, Deciding, itemVars
<1>5. FlagsSet'
  BY DEF FlagsSet, AllSet, Checking, Deciding, itemVars
<1>6. ReportKept'
  BY DEF ReportKept, Shown, itemVars
<1> QED  BY <1>2, <1>3, <1>4, <1>5, <1>6

LEMMA TableStep ==
  ASSUME IInv, KeepTable \/ ReadTable \/ ReadTableFails
  PROVE  IInv'
<1>1. /\ pc = "table" /\ pc' = "find" /\ UNCHANGED <<callVars, fds, itemVars, ageVars>>
  BY DEF KeepTable, ReadTable, ReadTableFails
<1>2. /\ tableAge' \in 0 .. Never /\ tableAge' <= MinCooldown
      /\ addresses' \in [Interfaces -> Entries] /\ entryAge' \in [Interfaces -> 0 .. Never]
      /\ \A i \in Interfaces : addresses'[i] # Absent => entryAge'[i] <= tableAge'
  <2>1. CASE KeepTable
    BY <2>1, MinCooldownTyped DEF KeepTable, IInv, TypeOK, TableStamped, tableVars
  <2>2. CASE ReadTable
    BY <2>2, MinCooldownTyped, Numbers DEF ReadTable
  <2>3. CASE ReadTableFails
    BY <2>3, MinCooldownTyped, Numbers, FamilyTyped DEF ReadTableFails
  <2> QED  BY <2>1, <2>2, <2>3
<1>3. TypeOK'
  BY <1>1, <1>2 DEF IInv, TypeOK, callVars, itemVars, ageVars
<1>4. TableStamped' /\ OneSocket'
  BY <1>1, <1>2 DEF IInv, TableStamped, OneSocket
<1>5. AgesWithPolls'
  BY <1>1 DEF IInv, AgesWithPolls, Reading, Deciding, callVars, itemVars, ageVars
<1>6. FlagsSet'
  BY <1>1 DEF IInv, FlagsSet, AllSet, Checking, Deciding, callVars, itemVars, ageVars
<1>7. ReportKept'
  BY <1>1 DEF IInv, ReportKept, Shown, callVars, itemVars
<1> QED  BY <1>3, <1>4, <1>5, <1>6, <1>7 DEF IInv

LEMMA MissingStep ==
  ASSUME IInv, InterfaceMissing
  PROVE  IInv'
<1> USE DEF IInv, InterfaceMissing
<1>1. /\ item \in Interfaces /\ up \in [Interfaces -> BOOLEAN]
      /\ up' \in [Interfaces -> BOOLEAN] /\ ~up'[item]
      /\ \A j \in Interfaces \ {item} : up'[j] = up[j]
  BY DEF TypeOK
<1>2. TypeOK'
  BY <1>1 DEF TypeOK, tableVars, ageVars
<1>3. TableStamped' /\ OneSocket'
  BY DEF TableStamped, OneSocket, tableVars
<1>4. AgesWithPolls'
  BY <1>1 DEF AgesWithPolls, Reading, Deciding, ageVars
<1>5. FlagsSet'
  BY <1>1 DEF FlagsSet, AllSet, Checking, Deciding, ageVars
<1>6. ReportKept'
  <2>1. CASE up[item]
    BY <1>1, <2>1 DEF ReportKept, TypeOK
  <2>2. CASE ~up[item]
    <3>1. Shown(item) = << >> /\ Shown(item)' = << >> /\ before' = before /\ result'.ok = result.ok
      BY <1>1, <2>2 DEF Shown, TypeOK
    <3> QED  BY <3>1 DEF ReportKept
  <2> QED  BY <2>1, <2>2
<1> QED  BY <1>2, <1>3, <1>4, <1>5, <1>6

LEMMA FoundStep ==
  ASSUME IInv, InterfaceFound
  PROVE  IInv'
<1> USE DEF IInv, InterfaceFound
<1>1. /\ item \in Interfaces
      /\ up' \in [Interfaces -> BOOLEAN] /\ up'[item]
      /\ \A j \in Interfaces \ {item} : up'[j] = up[j] /\ ipAge'[j] = ipAge[j]
      /\ ip' \in [Interfaces -> Entries] /\ ipAge' \in [Interfaces -> 0 .. Never]
      /\ ipAge'[item] = entryAge[item]
      /\ pc' \in {"wireless", "check"}
  BY DEF TypeOK
<1>2. TypeOK'
  BY <1>1 DEF TypeOK, tableVars
<1>3. TableStamped' /\ OneSocket'
  BY <1>1 DEF TableStamped, OneSocket, tableVars
<1>4. AgesWithPolls'
  <2>1. ipAge'[item] <= MinCooldown + polled[item]
    <3>1. entryAge[item] <= tableAge /\ tableAge <= MinCooldown /\ polled[item] >= 0
      BY <1>1, Numbers DEF TableStamped, TypeOK
    <3>2. entryAge[item] \in Nat /\ tableAge \in Nat /\ polled[item] \in Nat
      BY <1>1, Numbers DEF TypeOK
    <3> QED  BY <1>1, <3>1, <3>2, MinCooldownTyped
  <2> QED  BY <1>1, <2>1 DEF AgesWithPolls, Reading, Deciding
<1>5. FlagsSet'
  BY <1>1 DEF FlagsSet, AllSet, Checking, Deciding
<1>6. ReportKept'
  BY <1>1 DEF ReportKept
<1> QED  BY <1>2, <1>3, <1>4, <1>5, <1>6

LEMMA LinkStep ==
  ASSUME IInv, NEW ok \in BOOLEAN, ReadLink(ok)
  PROVE  IInv'
<1> USE DEF IInv, ReadLink
<1>1. TypeOK'
  BY DEF TypeOK, tableVars, ageVars
<1>2. TableStamped' /\ OneSocket' /\ ReportKept'
  BY DEF TableStamped, OneSocket, ReportKept, tableVars
<1>3. AgesWithPolls'
  BY DEF AgesWithPolls, Reading, Deciding, ageVars
<1>4. FlagsSet'
  BY DEF FlagsSet, AllSet, Checking, Deciding, ageVars
<1> QED  BY <1>1, <1>2, <1>3, <1>4

LEMMA SkipStep ==
  ASSUME IInv, SkipCheck
  PROVE  IInv'
<1> USE DEF IInv, SkipCheck
<1>1. TypeOK'
  BY DEF TypeOK, tableVars, itemVars, ageVars
<1>2. TableStamped' /\ OneSocket' /\ ReportKept'
  BY DEF TableStamped, OneSocket, ReportKept, TypeOK, tableVars
<1>3. checkAge[item] \in Nat /\ checkAge[item] < CheckCooldown[item] /\ polled[item] \in Nat
  BY Numbers DEF TypeOK
<1>4. AgesWithPolls'
  <2>1. CheckCooldown[item] \in Nat
    BY Numbers DEF TypeOK
  <2>2. checkAge[item] <= CheckCooldown[item] + polled[item]
    BY <1>3, <2>1
  <2> QED  BY <2>2 DEF AgesWithPolls, Reading, Deciding, itemVars, ageVars
<1>5. AllSet(item)
  <2>1. checkAge[item] # Never /\ item \in Interfaces
    BY <1>3, Numbers DEF TypeOK
  <2> QED  BY <2>1 DEF FlagsSet, Checking
<1>6. FlagsSet'
  BY <1>5 DEF FlagsSet, AllSet, Checking, Deciding, itemVars, ageVars
<1> QED  BY <1>1, <1>2, <1>4, <1>6

LEMMA BeginStep ==
  ASSUME IInv, BeginCheck
  PROVE  IInv'
<1> USE DEF IInv, BeginCheck
<1>1. /\ item \in Interfaces /\ checkAge' \in [Interfaces -> 0 .. Never]
      /\ checkAge'[item] = 0
      /\ \A j \in Interfaces \ {item} : checkAge'[j] = checkAge[j]
  BY Numbers DEF TypeOK
<1>2. TypeOK'
  BY <1>1, Numbers DEF TypeOK, tableVars, itemVars
<1>3. TableStamped' /\ OneSocket' /\ ReportKept'
  BY DEF TableStamped, OneSocket, ReportKept, tableVars
<1>4. AgesWithPolls'
  <2>1. CheckCooldown[item] \in Nat /\ polled[item] \in Nat
    BY Numbers DEF TypeOK
  <2>2. checkAge'[item] <= CheckCooldown[item] + polled[item]
    BY <1>1, <2>1
  <2> QED  BY <1>1, <2>2 DEF AgesWithPolls, Reading, Deciding, itemVars
<1>5. FlagsSet'
  <2>1. \A k \in 1 .. Len(Families) : ~(k < checking')
    BY Numbers
  <2> QED  BY <1>1, <2>1 DEF FlagsSet, AllSet, Checking, Deciding, itemVars
<1> QED  BY <1>2, <1>3, <1>4, <1>5

\* connect_to is through with a family, and its socket is closed again.
LEMMA CheckedStep ==
  ASSUME IInv, NEW answer \in {"yes", "no"}, Checked(answer),
         pc \in {"socket", "bind", "connect"}, fds' = 0
  PROVE  IInv'
<1> USE DEF IInv
<1> DEFINE last == checking = Len(Families)
<1>1. /\ item \in Interfaces /\ checking \in 1 .. Len(Families)
      /\ UNCHANGED <<item, before, tableVars, up, ip, link, valid, ageVars>>
      /\ IF last THEN pc' = "return" /\ checking' = checking
                      /\ result' = [result EXCEPT !.changed = TRUE]
         ELSE pc' = "socket" /\ checking' = checking + 1 /\ result' = result
  BY Numbers DEF Checked, TypeOK
<1>2. Families[checking] \in FamilySet
  BY <1>1, FamilyTyped
<1>3. /\ connected' \in [Interfaces -> [FamilySet -> {"unset", "yes", "no"}]]
      /\ \A j \in Interfaces \ {item} : connected'[j] = connected[j]
      /\ connected'[item][Families[checking]] = answer
      /\ \A f \in FamilySet : connected'[item][f] = answer
                             \/ connected'[item][f] = connected[item][f]
  BY <1>1, <1>2 DEF Checked, TypeOK
<1>4. checking' \in 1 .. Len(Families)
  BY <1>1, Numbers
<1>5. result' \in [ok : BOOLEAN, changed : BOOLEAN] /\ (last => result'.changed)
  BY <1>1 DEF TypeOK
<1>6. TypeOK'
  BY <1>1, <1>3, <1>4, <1>5 DEF TypeOK, tableVars, ageVars
<1>7. TableStamped' /\ OneSocket' /\ ReportKept'
  BY <1>1, <1>5 DEF TableStamped, OneSocket, ReportKept, tableVars
<1>8. AgesWithPolls'
  BY <1>1 DEF AgesWithPolls, Reading, Deciding, ageVars
<1>9. FlagsSet'
  <2>1. Checking(item)
    BY DEF Checking
  <2>2. \A k \in 1 .. Len(Families) : k <= checking => connected'[item][Families[k]] # "unset"
    <3> SUFFICES ASSUME NEW k \in 1 .. Len(Families), k <= checking
                 PROVE  connected'[item][Families[k]] # "unset"
      OBVIOUS
    <3>1. CASE k = checking
      BY <1>3, <3>1
    <3>2. CASE k < checking
      BY <1>1, <1>3, <2>1, <3>2, FamilyTyped DEF FlagsSet
    <3> QED  BY <1>1, <3>1, <3>2, Numbers
  <2>3. \A j \in Interfaces \ {item} :
           /\ ~Checking(j) /\ ~Checking(j)' /\ ~Deciding(j) /\ (AllSet(j) => AllSet(j)')
    BY <1>1, <1>3 DEF Checking, Deciding, AllSet
  <2>4. CASE last
    <3>1. AllSet(item)'
      BY <1>1, <2>2, <2>4, Numbers DEF AllSet
    <3>2. ~Checking(item)'
      BY <1>1, <2>4 DEF Checking
    <3> QED  BY <1>1, <2>3, <3>1, <3>2 DEF FlagsSet, ageVars
  <2>5. CASE ~last
    <3>1. Checking(item)'
      BY <1>1, <2>5 DEF Checking
    <3>2. \A k \in 1 .. Len(Families) : k < checking' => k <= checking
      BY <1>1, <2>5, Numbers
    <3> QED  BY <1>1, <2>2, <2>3, <3>1, <3>2 DEF FlagsSet, ageVars
  <2> QED  BY <2>4, <2>5
<1> QED  BY <1>6, <1>7, <1>8, <1>9

LEMMA SocketStep ==
  ASSUME IInv, OpenSocket \/ Bind
  PROVE  IInv'
<1>1. /\ pc \in {"socket", "bind"} /\ pc' \in {"bind", "connect"} /\ fds' = 1
      /\ UNCHANGED <<callVars, tableVars, itemVars, ageVars>>
  BY DEF IInv, OneSocket, OpenSocket, Bind
<1>2. TypeOK'
  BY <1>1 DEF IInv, TypeOK, callVars, tableVars, itemVars, ageVars
<1>3. TableStamped' /\ OneSocket' /\ ReportKept'
  BY <1>1 DEF IInv, TableStamped, OneSocket, ReportKept, tableVars
<1>4. AgesWithPolls'
  BY <1>1 DEF IInv, AgesWithPolls, Reading, Deciding, callVars, itemVars, ageVars
<1>5. FlagsSet'
  BY <1>1 DEF IInv, FlagsSet, AllSet, Checking, Deciding, callVars, itemVars, ageVars
<1> QED  BY <1>2, <1>3, <1>4, <1>5 DEF IInv

LEMMA CheckStep ==
  ASSUME IInv, NoSocket \/ ConnectFails \/ Connect
  PROVE  IInv'
<1>1. /\ pc \in {"socket", "bind", "connect"} /\ fds' = 0
      /\ \E answer \in {"yes", "no"} : Checked(answer)
  BY DEF IInv, OneSocket, NoSocket, ConnectFails, Connect
<1> QED  BY <1>1, CheckedStep

LEMMA ReturnStep ==
  ASSUME IInv, Return
  PROVE  IInv'
<1> USE DEF IInv, Return
<1>1. TypeOK'
  BY DEF TypeOK, callVars, tableVars, ageVars
<1>2. TableStamped' /\ OneSocket' /\ ReportKept'
  BY DEF TableStamped, OneSocket, ReportKept, tableVars
<1>3. AgesWithPolls'
  BY DEF AgesWithPolls, Reading, Deciding, callVars, ageVars
<1>4. FlagsSet'
  BY DEF FlagsSet, AllSet, Checking, Deciding, callVars, ageVars
<1> QED  BY <1>1, <1>2, <1>3, <1>4

LEMMA OlderBy ==
  ASSUME NEW age \in 0 .. Never
  PROVE  Older(age) \in 0 .. Never /\ Older(age) <= age + 1 /\ age <= Older(age)
         /\ (age = Never => Older(age) = Never)
         /\ \A other \in 0 .. Never : age <= other => Older(age) <= Older(other)
BY Numbers DEF Older

LEMMA TickStep ==
  ASSUME IInv, Tick
  PROVE  IInv'
<1> USE DEF IInv
<1>1. /\ pc \in {"idle", "bind", "connect"} /\ \A i \in Interfaces : polled[i] < Gap[i]
      /\ tableAge' = Older(tableAge)
      /\ entryAge' = [i \in Interfaces |-> Older(entryAge[i])]
      /\ ipAge'    = [i \in Interfaces |-> Older(ipAge[i])]
      /\ checkAge' = [i \in Interfaces |-> Older(checkAge[i])]
      /\ polled'   = [i \in Interfaces |-> polled[i] + 1]
      /\ UNCHANGED <<pc, callVars, fds, addresses, itemVars>>
  BY DEF Tick
<1>2. TypeOK'
  <2>1. \A i \in Interfaces : polled'[i] \in 0 .. Gap[i]
    BY <1>1, Numbers DEF TypeOK
  <2>2. /\ tableAge' \in 0 .. Never /\ checkAge' \in [Interfaces -> 0 .. Never]
        /\ ipAge' \in [Interfaces -> 0 .. Never] /\ entryAge' \in [Interfaces -> 0 .. Never]
    BY <1>1, OlderBy DEF TypeOK
  <2> QED  BY <1>1, <2>1, <2>2 DEF TypeOK, callVars, itemVars
<1>3. TableStamped'
  <2>1. \A i \in Interfaces : entryAge[i] <= tableAge => entryAge'[i] <= tableAge'
    BY <1>1, OlderBy DEF TypeOK
  <2> QED  BY <1>1, <2>1 DEF TableStamped
<1>4. OneSocket'
  BY <1>1 DEF OneSocket
<1>5. AgesWithPolls'
  <2> SUFFICES ASSUME NEW i \in Interfaces, up'[i]
               PROVE  /\ ~Reading(i)' => ipAge'[i] <= MinCooldown + polled'[i]
                      /\ ~Deciding(i)' => checkAge'[i] <= CheckCooldown[i] + polled'[i]
    BY DEF AgesWithPolls
  <2>1. up[i] /\ ~Reading(i) /\ ~Deciding(i)
    BY <1>1 DEF Reading, Deciding, itemVars
  <2>2. ipAge[i] <= MinCooldown + polled[i] /\ checkAge[i] <= CheckCooldown[i] + polled[i]
    BY <2>1 DEF AgesWithPolls
  <2>3. ipAge'[i] <= ipAge[i] + 1 /\ checkAge'[i] <= checkAge[i] + 1 /\ polled'[i] = polled[i] + 1
    BY <1>1, OlderBy DEF TypeOK
  <2>4. /\ ipAge[i] \in Nat /\ checkAge[i] \in Nat /\ polled[i] \in Nat
        /\ ipAge'[i] \in Nat /\ checkAge'[i] \in Nat
    BY <1>2, Numbers DEF TypeOK
  <2>5. MinCooldown \in Nat /\ CheckCooldown[i] \in Nat
    BY MinCooldownTyped, Numbers
  <2>6. /\ ipAge'[i] <= MinCooldown + polled'[i]
        /\ checkAge'[i] <= CheckCooldown[i] + polled'[i]
    BY <2>2, <2>3, <2>4, <2>5
  <2> QED  BY <2>6
<1>6. FlagsSet'
  <2>1. \A i \in Interfaces : checkAge[i] = Never => checkAge'[i] = Never
    BY <1>1, OlderBy DEF TypeOK
  <2> QED  BY <1>1, <2>1 DEF FlagsSet, AllSet, Checking, Deciding, callVars, itemVars
<1>7. ReportKept'
  BY <1>1 DEF ReportKept, Shown, callVars, itemVars
<1> QED  BY <1>2, <1>3, <1>4, <1>5, <1>6, <1>7

LEMMA StepNet == IInv /\ [Next]_vars => IInv'
<1> SUFFICES ASSUME IInv, [Next]_vars PROVE IInv'
  OBVIOUS
<1>1. CASE UNCHANGED vars
  BY <1>1 DEF IInv, TypeOK, TableStamped, AgesWithPolls, OneSocket, FlagsSet, ReportKept,
     Reading, Deciding, Checking, AllSet, Shown, vars, callVars, tableVars, itemVars, ageVars
<1>2. CASE Next
  BY <1>2, UpdateStep, TableStep, MissingStep, FoundStep, LinkStep, SkipStep, BeginStep,
     SocketStep, CheckStep, ReturnStep, TickStep DEF Next
<1> QED  BY <1>1, <1>2

LEMMA NetInvariant == Spec => []IInv
BY InitNet, StepNet, PTL DEF Spec

------------------------------------------------------------------------------
(* The theorems *)

\* The state of the items, of their table and of the check keeps its type; a check
\* never runs on behind the last address family.
THEOREM NetTyped == Spec => []TypeOK
<1>1. IInv => TypeOK
  BY DEF IInv
<1> QED  BY <1>1, NetInvariant, PTL

\* Net::update_raw keeps the contract EventLoop relies on: a failure and everything
\* print_raw would write differently are reported as a change.
THEOREM NetReportsChanges == Spec => []ChangesReported
<1>1. IInv => ChangesReported
  BY DEF IInv, TypeOK, ReportKept, ChangesReported
<1> QED  BY <1>1, NetInvariant, PTL

\* No item shows an address or a connection that was found longer ago than its gap
\* and the cooldown of the source, though the items share one table and one stamp.
THEOREM NetIsUpToDate == Spec => []NothingOutdated
<1>1. IInv => NothingOutdated
  <2> SUFFICES ASSUME IInv, pc = "idle", NEW i \in Interfaces, up[i]
               PROVE  /\ ipAge[i] <= MinCooldown + Gap[i]
                      /\ checkAge[i] <= CheckCooldown[i] + Gap[i]
    BY DEF NothingOutdated
  <2>1. ipAge[i] <= MinCooldown + polled[i] /\ checkAge[i] <= CheckCooldown[i] + polled[i]
    BY DEF IInv, AgesWithPolls, Reading, Deciding
  <2>2. /\ ipAge[i] \in Int /\ checkAge[i] \in Int /\ polled[i] \in Int
        /\ polled[i] <= Gap[i]
    BY Numbers DEF IInv, TypeOK
  <2> QED  BY <2>1, <2>2, MinCooldownTyped, Numbers
<1> QED  BY <1>1, NetInvariant, PTL

\* The flags the constructor leaves uninitialised are set before they are printed, and
\* every path through connect_to closes the socket it opened.
THEOREM NetFlagsAndSockets == Spec => []FlagsSetSocketsClosed
<1>1. IInv => FlagsSetSocketsClosed
  <2> SUFFICES ASSUME IInv, pc = "idle"
               PROVE  /\ fds = 0
                      /\ \A i \in Interfaces : up[i] =>
                            \A f \in FamilySet : connected[i][f] # "unset"
    BY DEF FlagsSetSocketsClosed
  <2>1. fds = 0
    BY DEF IInv, OneSocket
  <2>2. ASSUME NEW i \in Interfaces, up[i], NEW f \in FamilySet
        PROVE  connected[i][f] # "unset"
    <3>1. AllSet(i)
      BY <2>2 DEF IInv, FlagsSet, Checking, Deciding
    <3>2. PICK k \in 1 .. Len(Families) : f = Families[k]
      BY DEF FamilySet
    <3> QED  BY <3>1, <3>2 DEF AllSet
  <2> QED  BY <2>1, <2>2
<1> QED  BY <1>1, NetInvariant, PTL
==============================================================================
