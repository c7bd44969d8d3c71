---- MODULE MCIoBuf ----
(* A buffer that starts with room for two bytes and may grow to seven.     *)
EXTENDS IoBuf
====
