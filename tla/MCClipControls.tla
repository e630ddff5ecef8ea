---------------------------- MODULE MCClipControls ----------------------------
(* ClipControls for TLC: values on, inside and outside every limit.        *)
EXTENDS ClipControls

MCInputs == {-1, 0, 1, 2, 3, 4, 5}
=============================================================================
