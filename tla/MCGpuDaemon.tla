---------------------------- MODULE MCGpuDaemon ----------------------------
(* Small instances of GpuDaemon for TLC. *)
EXTENDS GpuDaemon

CONSTANTS d1, d2, c1, c2

TwoDaemons == {d1, d2}
OneDaemon  == {d1}
TwoClients == {c1, c2}
OneSilent  == {c2}
NoClients  == {}
=============================================================================
