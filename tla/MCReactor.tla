---- MODULE MCReactor ----
(* A server and a client on one loop, with two descriptors to use and one  *)
(* more that the acceptor finds too large; or with just the two.           *)
EXTENDS Reactor

ThreeFds == 3..5
TwoFds == 3..4
====
