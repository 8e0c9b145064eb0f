----------------------------- MODULE MCEventLoop -----------------------------
(* EventLoop on a pool of a few items and a short iteration counter.        *)
EXTENDS EventLoop

\* The smallest pool where a ring for UDP fits.
ASSUME EnoughItems == Max >= 4
=============================================================================
