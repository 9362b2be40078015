----------------------------- MODULE MCFragCli -----------------------------
(* Command lines of FragCli for TLC. *)
EXTENDS FragCli

SomeArguments == {"-d", "-t", "-L", "-h", "-3", "--verify", "0", "1", "2", "1k", "-",
                  "x", "x_lzo", "lzo", "empty"}
TestArguments == {"-3", "-t", "2", "x", "x_lzo"}
=============================================================================
