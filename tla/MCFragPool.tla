----------------------------- MODULE MCFragPool -----------------------------
(* Small instances of FragPool for TLC. *)
EXTENDS FragPool

(* The codes the decoder of lzo_cpu, built without overrun tests, returns. *)
OneError == {"LZO_E_INPUT_NOT_CONSUMED"}

AnyVerdict == {"good", "short"} \union OneError
AlwaysGood == {"good"}

Either == {"return", "trap"}
OnlyReturn == {"return"}
=============================================================================
