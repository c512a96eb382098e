---------------------------- MODULE MCCommandParser ----------------------------
(* A scale of 2 on a 4-bit int with 5-bit longs, and numbers on both sides   *)
(* of every limit: of the scaled int (3, 4, -4, -5), of the scaled unsigned  *)
(* int (7, 8), of the long (-16, 15) and of the unsigned long (-31, 31), and *)
(* some beyond all of them.                                                  *)
EXTENDS CommandParser

MCNumbers == {-40, -31, -16, -5, -4, -1, 0, 1, 3, 4, 7, 8, 15, 31, 40}
MCGarbage == {NoCommand, [type |-> "MOVE", x |-> 5, y |-> -3, f |-> 7]}
===============================================================================
