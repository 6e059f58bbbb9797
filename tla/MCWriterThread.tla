--------------------------- MODULE MCWriterThread ---------------------------
(* Instances of WriterThread for TLC: the .cfg files give its constants.   *)
EXTENDS WriterThread

AllOps == {"set_flush", "flush", "reset"}
NoOps == {}
SignalOnly == {"set_flush"}
FlushOnly == {"flush"}
=============================================================================
