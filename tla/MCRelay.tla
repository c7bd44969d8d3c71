---- MODULE MCRelay ----
(* One client with three pieces of data and a target with two. *)
EXTENDS Relay

UpData == <<"u1", "u2", "u3">>
DownData == <<"d1", "d2">>
====
