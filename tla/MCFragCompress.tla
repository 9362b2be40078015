--------------------------- MODULE MCFragCompress ---------------------------
(* Small instances of FragCompress for TLC. *)
EXTENDS FragCompress

OneError == {"LZO_E_ERROR"}
GoodOrOneError == {"good"} \union OneError
Either == {"return", "trap"}
=============================================================================
