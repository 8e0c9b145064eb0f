--------------------------- MODULE MCWindowsEngine ---------------------------
(* WindowsEngine with a few presets and threads.                            *)
EXTENDS WindowsEngine

\* A benchmark and a test, so that both kinds of thread run beside the window.
ASSUME EnoughThreads == Tunes # {} /\ Tests # {}
=============================================================================
