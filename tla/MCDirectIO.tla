----------------------------- MODULE MCDirectIO -----------------------------
(* The instance of DirectIO for TLC: two threads and every call; the       *)
(* firmware answers a configuration question with 64 bytes, and recv_raw   *)
(* is called for that many or too few.                                     *)
EXTENDS DirectIO

MCThreads == {"player", "config"}
MCCalls == CallNames
MCConfigLens == {64}
MCRawLens == {1, 64}
=============================================================================
