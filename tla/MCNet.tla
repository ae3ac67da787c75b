------------------------------- MODULE MCNet -------------------------------
(* A small instance of Net for TLC: a wired and a wireless interface. *)
EXTENDS Net, TLC

CONSTANTS eth, wlan

OneFamily    == <<"v4">>
TwoFamilies  == <<"v4", "v6">>
Cooldowns    == (eth :> 2) @@ (wlan :> 3)
ChecksApart  == (eth :> 3) @@ (wlan :> 2)
OneMore      == (eth :> 3) @@ (wlan :> 4)
=============================================================================
