--------------------------- MODULE MCStrategyCache ---------------------------
(* StrategyCache with three groups and two connections.                     *)
EXTENDS StrategyCache

\* A layout in which every group but the first is for retries, and one in which
\* a group for retries is followed by one that is not.
ASSUME Layouts = {{1, 2}, {1}}
=============================================================================
