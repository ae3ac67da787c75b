-------------------------------- MODULE Net --------------------------------
(***************************************************************************)
(* The Net items: one per interface, and between them the static table of  *)
(* addresses that whichever item is updated first reads for all of them.   *)
(* Net::update_raw with update_ip_addresses, update_wireless_state and     *)
(* update_connection_state, and connect_to with the descriptor it holds.   *)
(*                                                                         *)
(* The loop around the items is EventLoop's: it comes to an item when it   *)
(* is due or forced, and at least every Gap seconds.  What the interfaces  *)
(* and the remote host do shows in what the calls of the items return.     *)
(***************************************************************************)
EXTENDS Integers, FiniteSets, Sequences

CONSTANTS
  Interfaces,     \* the interfaces the Net items are configured for
  Wireless,       \* those of type wireless
  Families,       \* address families, in the order their connection is checked
  Addresses,      \* what an interface may be addressed by
  NoAddress,      \* the empty string
  Links,          \* what a wireless interface may report of its link
  Cooldown,       \* Cooldown[i]: "cooldown" of item i
  CheckCooldown,  \* CheckCooldown[i]: "connection check cooldown" of item i
  Gap,            \* Gap[i]: most seconds between two updates of item i
  Never           \* the age of what never was; ages saturate here

\* Net::min_cooldown starts at 1000 and every constructor lowers it.
MinCooldown == CHOOSE c \in {Cooldown[i] : i \in Interfaces} \cup {1000} :
                 c <= 1000 /\ \A i \in Interfaces : c <= Cooldown[i]

ASSUME NetAssumption ==
  /\ Interfaces # {} /\ Wireless \subseteq Interfaces
  /\ Len(Families) \in Nat \ {0} /\ Never \in Nat
  /\ Cooldown \in [Interfaces -> Nat] /\ CheckCooldown \in [Interfaces -> Nat]
  /\ Gap \in [Interfaces -> Nat] /\ NoAddress \notin Addresses
  /\ \A i, j \in Interfaces :
       Gap[i] >= Cooldown[i] /\ Never > Gap[i] + CheckCooldown[i] + Cooldown[j]

FamilySet == {Families[k] : k \in 1 .. Len(Families)}
Entries   == [FamilySet -> Addresses \cup {NoAddress}]
Absent    == [f \in FamilySet |-> NoAddress]

VARIABLES
  pc,         \* idle, or where update_raw is
  item,       \* the item that is updated
  checking,   \* the index of the family update_connection_state is at
  result,     \* what update_raw is about to return
  fds,        \* the sockets that are open
  \* -- shared by the items
  addresses,  \* Net::addresses; an interface with no entry is Absent
  tableAge,   \* now - last_updated of update_ip_addresses
  \* -- per item
  up, ip,     \* the latter holds ipv4 and ipv6
  connected,  \* ipv4_connected, ipv6_connected: unset, yes or no
  link,       \* essid and quality
  checkAge,   \* now - last_connection_check
  valid,      \* StateItem::valid
  polled,     \* seconds since update_raw was last called
  \* -- history
  entryAge,   \* seconds since each entry of the table was read
  ipAge,      \* seconds since what stands in ip was read
  before      \* what the item showed when update_raw was called

tableVars == <<addresses, tableAge, entryAge>>
itemVars  == <<up, ip, connected, link, valid>>
ageVars   == <<checkAge, polled, ipAge>>
callVars  == <<item, checking, result, before>>
vars      == <<pc, callVars, fds, tableVars, itemVars, ageVars>>

\* What print_raw writes.
Shown(i) == IF up[i] THEN <<ip[i], connected[i], link[i]>> ELSE <<>>

------------------------------------------------------------------------------
(* update_raw *)

Update(i) ==
  /\ pc = "idle"
  /\ pc' = "table" /\ item' = i /\ before' = Shown(i)
  /\ result' = [ok |-> TRUE, changed |-> FALSE]
  /\ polled' = [polled EXCEPT ![i] = 0]
  /\ UNCHANGED <<checking, fds, tableVars, itemVars, checkAge, ipAge>>

\* update_ip_addresses trusts the table.
KeepTable ==
  /\ pc = "table" /\ tableAge < MinCooldown
  /\ pc' = "find"
  /\ UNCHANGED <<callVars, fds, tableVars, itemVars, ageVars>>

\* ReadTable that leaves entries of interfaces that are gone (mutant).
ReadTable_WithoutClear ==
  /\ pc = "table" /\ tableAge >= MinCooldown
  /\ tableAge' = 0
  /\ \E found \in [Interfaces -> Entries] :
       /\ addresses' = [i \in Interfaces |->
                          IF found[i] = Absent THEN addresses[i] ELSE found[i]]
       /\ entryAge' = [i \in Interfaces |-> IF found[i] = Absent THEN entryAge[i] ELSE 0]
  /\ pc' = "find"
  /\ UNCHANGED <<callVars, fds, itemVars, ageVars>>

\* It stamps and clears the table, and then reads it.
ReadTable ==
  /\ pc = "table" /\ tableAge >= MinCooldown
  /\ tableAge' = 0
  /\ \E found \in [Interfaces -> Entries] :
       /\ addresses' = found
       /\ entryAge' = [i \in Interfaces |-> IF found[i] = Absent THEN Never ELSE 0]
  /\ pc' = "find"
  /\ UNCHANGED <<callVars, fds, itemVars, ageVars>>

\* getifaddrs fails: the table stays empty, and counts as read.
ReadTableFails ==
  /\ pc = "table" /\ tableAge >= MinCooldown
  /\ tableAge' = 0
  /\ addresses' = [i \in Interfaces |-> Absent]
  /\ entryAge' = [i \in Interfaces |-> Never]
  /\ pc' = "find"
  /\ UNCHANGED <<callVars, fds, itemVars, ageVars>>

InterfaceMissing ==
  /\ pc = "find" /\ addresses[item] = Absent
  /\ up' = [up EXCEPT ![item] = FALSE]
  /\ result' = [result EXCEPT !.changed = up[item]]
  /\ pc' = "return"
  /\ UNCHANGED <<item, checking, before, fds, tableVars, ip, connected, link, valid,
                 ageVars>>

InterfaceFound ==
  /\ pc = "find" /\ addresses[item] # Absent
  /\ up' = [up EXCEPT ![item] = TRUE]
  /\ ip' = [ip EXCEPT ![item] = addresses[item]]
  /\ ipAge' = [ipAge EXCEPT ![item] = entryAge[item]]
  /\ result' = [result EXCEPT !.changed = ip[item] # addresses[item]]
  /\ pc' = IF item \in Wireless THEN "wireless" ELSE "check"
  /\ UNCHANGED <<item, checking, before, fds, tableVars, connected, link, valid,
                 checkAge, polled>>

\* update_wireless_state: a failing call may have left the part before it new.
ReadLink(ok) ==
  /\ pc = "wireless"
  /\ \E l \in Links : link' = [link EXCEPT ![item] = l]
  /\ result' = [ok |-> ok, changed |-> result.changed \/ ok]
  /\ pc' = "check"
  /\ UNCHANGED <<item, checking, before, fds, tableVars, up, ip, connected, valid,
                 ageVars>>

------------------------------------------------------------------------------
(* update_connection_state and connect_to *)

\* SkipCheck that reports only what is new (mutant).
SkipCheck_NothingNew ==
  /\ pc = "check" /\ checkAge[item] < CheckCooldown[item]
  /\ pc' = "return"
  /\ UNCHANGED <<callVars, fds, tableVars, itemVars, ageVars>>

\* The last check is recent; it reports a change all the same.
SkipCheck ==
  /\ pc = "check" /\ checkAge[item] < CheckCooldown[item]
  /\ result' = [result EXCEPT !.changed = TRUE]
  /\ pc' = "return"
  /\ UNCHANGED <<item, checking, before, fds, tableVars, itemVars, ageVars>>

BeginCheck ==
  /\ pc = "check" /\ checkAge[item] >= CheckCooldown[item]
  /\ checkAge' = [checkAge EXCEPT ![item] = 0]
  /\ checking' = 1
  /\ pc' = "socket"
  /\ UNCHANGED <<item, result, before, fds, tableVars, itemVars, polled, ipAge>>

\* Checked that goes on after the last family (mutant).
Checked_RunsOn(answer) ==
  /\ connected' = [connected EXCEPT ![item][Families[checking]] = answer]
  /\ checking' = checking + 1 /\ pc' = "socket"
  /\ UNCHANGED <<item, result, before, tableVars, up, ip, link, valid, ageVars>>

\* connect_to is through with a family: is_active says whether it returned a
\* socket, which goes out of scope.
Checked(answer) ==
  /\ connected' = [connected EXCEPT ![item][Families[checking]] = answer]
  /\ \/ /\ checking < Len(Families)
        /\ checking' = checking + 1 /\ pc' = "socket"
        /\ UNCHANGED result
     \/ /\ checking = Len(Families)
        /\ pc' = "return"
        /\ result' = [result EXCEPT !.changed = TRUE]
        /\ UNCHANGED checking
  /\ UNCHANGED <<item, before, tableVars, up, ip, link, valid, ageVars>>

\* No address to connect from, or no descriptor to be had.
NoSocket ==
  /\ pc = "socket"
  /\ Checked("no")
  /\ UNCHANGED fds

OpenSocket ==
  /\ pc = "socket" /\ ip[item][Families[checking]] # NoAddress
  /\ fds' = fds + 1
  /\ pc' = "bind"
  /\ UNCHANGED <<callVars, tableVars, itemVars, ageVars>>

Bind ==
  /\ pc = "bind"
  /\ pc' = "connect"
  /\ UNCHANGED <<callVars, fds, tableVars, itemVars, ageVars>>

\* An address that does not resolve, bind or connect fails: connect_to returns an
\* inactive socket, and its own is released.
ConnectFails ==
  /\ pc \in {"bind", "connect"}
  /\ fds' = fds - 1
  /\ Checked("no")

Connect ==
  /\ pc = "connect"
  /\ fds' = fds - 1
  /\ Checked("yes")

\* StateItem::update stores what update_raw returned.
Return ==
  /\ pc = "return"
  /\ valid' = [valid EXCEPT ![item] = result.ok]
  /\ pc' = "idle"
  /\ UNCHANGED <<callVars, fds, tableVars, up, ip, connected, link, ageVars>>

------------------------------------------------------------------------------

Older(age) == IF age < Never THEN age + 1 ELSE age

\* A second passes while no item is updated, or one looks up a name or connects.
Tick ==
  /\ pc \in {"idle", "bind", "connect"}
  /\ \A i \in Interfaces : polled[i] < Gap[i]
  /\ tableAge' = Older(tableAge)
  /\ entryAge' = [i \in Interfaces |-> Older(entryAge[i])]
  /\ ipAge'    = [i \in Interfaces |-> Older(ipAge[i])]
  /\ checkAge' = [i \in Interfaces |-> Older(checkAge[i])]
  /\ polled'   = [i \in Interfaces |-> polled[i] + 1]
  /\ UNCHANGED <<pc, callVars, fds, addresses, itemVars>>

\* Init with last_connection_check set to the present (mutant).
Init_CheckedNow ==
  /\ pc = "idle" /\ item \in Interfaces /\ checking = 1 /\ fds = 0
  /\ result = [ok |-> TRUE, changed |-> FALSE] /\ before = <<>>
  /\ addresses = [i \in Interfaces |-> Absent] /\ tableAge = Never
  /\ entryAge = [i \in Interfaces |-> Never]
  /\ up = [i \in Interfaces |-> FALSE] /\ ip = [i \in Interfaces |-> Absent]
  /\ connected = [i \in Interfaces |-> [f \in FamilySet |-> "unset"]]
  /\ link \in [Interfaces -> Links]
  /\ checkAge = [i \in Interfaces |-> 0] /\ ipAge = [i \in Interfaces |-> Never]
  /\ valid = [i \in Interfaces |-> FALSE] /\ polled = [i \in Interfaces |-> 0]

\* The flags of the constructor that are left unset; last_connection_check starts
\* at the epoch, and so does the time of the last update of an item.
Init ==
  /\ pc = "idle" /\ item \in Interfaces /\ checking = 1 /\ fds = 0
  /\ result = [ok |-> TRUE, changed |-> FALSE] /\ before = <<>>
  /\ addresses = [i \in Interfaces |-> Absent] /\ tableAge = Never
  /\ entryAge = [i \in Interfaces |-> Never]
  /\ up = [i \in Interfaces |-> FALSE] /\ ip = [i \in Interfaces |-> Absent]
  /\ connected = [i \in Interfaces |-> [f \in FamilySet |-> "unset"]]
  /\ link \in [Interfaces -> Links]
  /\ checkAge = [i \in Interfaces |-> Never] /\ ipAge = [i \in Interfaces |-> Never]
  /\ valid = [i \in Interfaces |-> FALSE] /\ polled = [i \in Interfaces |-> 0]

Next ==
  \/ \E i \in Interfaces : Update(i)
  \/ KeepTable \/ ReadTable \/ ReadTableFails
  \/ InterfaceMissing \/ InterfaceFound
  \/ \E ok \in BOOLEAN : ReadLink(ok)
  \/ SkipCheck \/ BeginCheck
  \/ NoSocket \/ OpenSocket \/ Bind \/ ConnectFails \/ Connect
  \/ Return
  \/ Tick

Spec == Init /\ [][Next]_vars
------------------------------------------------------------------------------
(* Properties *)

TypeOK ==
  /\ pc \in {"idle", "table", "find", "wireless", "check", "socket", "bind", "connect",
             "return"}
  /\ item \in Interfaces /\ checking \in 1 .. Len(Families)
  /\ result \in [ok : BOOLEAN, changed : BOOLEAN]
  /\ fds \in Int
  /\ addresses \in [Interfaces -> Entries] /\ ip \in [Interfaces -> Entries]
  /\ tableAge \in 0 .. Never
  /\ up \in [Interfaces -> BOOLEAN] /\ valid \in [Interfaces -> BOOLEAN]
  /\ connected \in [Interfaces -> [FamilySet -> {"unset", "yes", "no"}]]
  /\ link \in [Interfaces -> Links]
  /\ checkAge \in [Interfaces -> 0 .. Never] /\ ipAge \in [Interfaces -> 0 .. Never]
  /\ entryAge \in [Interfaces -> 0 .. Never]
  /\ \A i \in Interfaces : polled[i] \in 0 .. Gap[i]

\* What EventLoop takes for granted of an item (its UpdateRaw): an update that
\* fails, or that changes what the item prints, says `changed`.
ChangesReported ==
  pc = "return" =>
    /\ ~result.ok => result.changed
    /\ Shown(item) # before => result.changed

\* No address and no connection state on the bar is older than the item's gap and
\* the cooldown of its source, whichever item read the table and however often
\* reading failed.
NothingOutdated ==
  pc = "idle" =>
    \A i \in Interfaces :
      up[i] => /\ ipAge[i] <= MinCooldown + Gap[i]
               /\ checkAge[i] <= CheckCooldown[i] + Gap[i]

\* Nothing is printed of the flags the constructor leaves uninitialised, though
\* the first check may be skipped, and no socket survives an update.
FlagsSetSocketsClosed ==
  pc = "idle" =>
    /\ fds = 0
    /\ \A i \in Interfaces : up[i] => \A f \in FamilySet : connected[i][f] # "unset"
=============================================================================
