--------------------------- MODULE MCMessengerPool ---------------------------
(* Two frames per poll, three actions delivered while the device collects,
   and one or two connections. *)
EXTENDS MessengerPool

CONSTANTS w1, w2, d1, d2, d3

MCWorkers == {w1, w2}
MCDeliveries == {d1, d2, d3}
=============================================================================
