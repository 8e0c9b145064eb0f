------------------------------- MODULE MCDesync -------------------------------
(* Desync with requests of at most eight bytes and two options.             *)
EXTENDS Desync

\* There is room for the headers, or for the first of two only.
ASSUME RoomForHeaders == \E s \in Sizes : BfSize - s \in 5 .. 9
=============================================================================
