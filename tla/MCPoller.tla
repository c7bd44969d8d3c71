---- MODULE MCPoller ----
(* Poller on two or three descriptors and as many events; the objects are  *)
(* interchangeable, the descriptors are numbers (the mask is arithmetic).  *)
EXTENDS Poller, TLC

CONSTANT MaxFd

MCFd == 0..MaxFd
ObjectSymmetry == Permutations(Event)
====
