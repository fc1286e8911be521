------------------------------ MODULE MCBroker ------------------------------
(* Two frames and three polls: one poll in progress, one result in VariableCh
   or being published, and one roll that is late. *)
EXTENDS Broker

CONSTANTS f1, f2

MCFrames == {f1, f2}
=============================================================================
