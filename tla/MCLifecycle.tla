---------------------------- MODULE MCLifecycle ----------------------------
(* Instance of Lifecycle for TLC.  The ring size a client asks for lies    *)
(* below the minimum, the threshold above; neither is the default.         *)
EXTENDS Lifecycle

MCRingSizes == {1}
MCDiffSizes == {3}

TwoPicos == {"pico", "other"}
BothBackends == {"usb", "serial"}
=============================================================================
