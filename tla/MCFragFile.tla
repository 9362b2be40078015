----------------------------- MODULE MCFragFile -----------------------------
(* Small instances of FragFile for TLC: block sizes 2 and 3 in the place   *)
(* of 64 KiB and 1 MiB, and a source of no, one or up to three blocks.     *)
EXTENDS FragFile

SomeSizes == {0, 1, 5, 6}
SomeCompSizes == {2}
AllFaults == {"read", "spawn", "close"}
OnlyRead == {"read"}
=============================================================================
