---------------------------- MODULE MCPulseAudio ----------------------------
(* A small instance of PulseAudio for TLC. *)
EXTENDS PulseAudio

\* Two volumes the bar does not tell apart, and one it does.
NearVolumes == {0, 65536, 65600}
=============================================================================
