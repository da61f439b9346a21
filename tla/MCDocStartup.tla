---------------------------- MODULE MCDocStartup ----------------------------
(* What the documentation of bcr says of an interface's own frames, on the  *)
(* host of MCStartup.                                                       *)
EXTENDS MCStartup

\* A packet is never relayed back out the interface it arrived on.
NeverEchoes == \A m \in sent : m.frame.on # m.egress
=============================================================================
