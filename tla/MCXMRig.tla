------------------------------ MODULE MCXMRig --------------------------------
(* The engine with callers that may do anything at any time.               *)
EXTENDS XMRig
=============================================================================
