----------------------------- MODULE MCEventLoop -----------------------------
(* Small instances of EventLoop for TLC. *)
EXTENDS EventLoop

CONSTANTS v1, v2

\* A slow polled item before a fast one; the fast one decides select's timeout.
SlowThenFast == <<2, 1>>
EveryTick    == <<1, 1>>
OnlyEvents   == {2}
BothEvents   == {1, 2}
\* The first item has one value, so that it changes by failing and recovering;
\* the second has two.
OneTwo       == <<{v1}, {v1, v2}>>
OneEach      == <<{v1}, {v1}>>
FirstHides   == <<FALSE, TRUE>>
==============================================================================
