---- MODULE MCTcpEvent ----
(* One connection, of a server or a client, with a send buffer shorter     *)
(* than the data.                                                          *)
EXTENDS TcpEvent

BothOwners == {"server", "client"}
NoOps == {}
PauseOps == {"stopreading"}
====
