---------------------------- MODULE MCVpnService ----------------------------
(* Small instances of VpnService for TLC: see the MCVpnService_*.cfg files. *)
EXTENDS VpnService

\* There is a loop job for every socket the calls can open and a Telegram job
\* for every connection they can make, so the bounds never block a start().
ASSUME EnoughJobs ==
    /\ Cardinality(Loops) >= Cardinality(StartCalls) * (Attempts + 1)
    /\ Cardinality(TgJobs) >= Cardinality(StartCalls)

=============================================================================
