--------------------------- MODULE PacketChannel ---------------------------
(***************************************************************************)
(* What write_message and read_message promise each other, with bytes,     *)
(* buffers and descriptors taken away: packets arrive whole, in order and  *)
(* at most once, and the receiver is told that no more will come only when *)
(* it has every packet the sender was told is sent.                        *)
(***************************************************************************)
EXTENDS Naturals, Sequences

CONSTANT Packets

VARIABLES sent,      \* the packets handed to the sender
          accepted,  \* how many of them the sender was told are sent
          received,  \* the packets the receiver was given
          ended      \* the receiver was told that no more will come

vars == <<sent, accepted, received, ended>>

Init == sent = <<>> /\ accepted = 0 /\ received = <<>> /\ ended = FALSE

Send ==
  /\ sent' \in Seq(Packets) /\ Len(sent') = Len(sent) + 1
  /\ \A k \in 1 .. Len(sent) : sent'[k] = sent[k]
  /\ UNCHANGED <<accepted, received, ended>>

Accept ==
  /\ ~ended /\ accepted < Len(sent)
  /\ accepted' = accepted + 1
  /\ UNCHANGED <<sent, received, ended>>

Receive ==
  /\ ~ended /\ Len(received) < Len(sent)
  /\ received' = Append(received, sent[Len(received) + 1])
  /\ UNCHANGED <<sent, accepted, ended>>

End ==
  /\ ~ended /\ accepted <= Len(received)
  /\ ended' = TRUE
  /\ UNCHANGED <<sent, accepted, received>>

Next == Send \/ Accept \/ Receive \/ End

Spec == Init /\ [][Next]_vars
============================================================================
