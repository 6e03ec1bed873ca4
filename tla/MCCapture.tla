------------------------------ MODULE MCCapture ------------------------------
(* The capture panel with pages of one exchange.                              *)
EXTENDS Capture
=============================================================================
