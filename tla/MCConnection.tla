----------------------------- MODULE MCConnection -----------------------------
(* Connection with a request and an answer of a few bytes.                  *)
EXTENDS Connection

\* A split, and bytes before and after it.
ASSUME SomeSplit == \E p \in Splits : p < ReqLen
=============================================================================
