----------------------------- MODULE MCAndroidApp -----------------------------
(* AndroidApp with a few clicks: each start of the proxy needs a job, and   *)
(* OnDestroy covers what five calls can make wait for the mutex.           *)
EXTENDS AndroidApp, FiniteSets

ASSUME EnoughJobs == Cardinality(Jobs) >= Cardinality(Calls)
ASSUME FewCalls == Cardinality(Calls) <= 5

=============================================================================
