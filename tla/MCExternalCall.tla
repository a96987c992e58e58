---------------------------- MODULE MCExternalCall ----------------------------
(* A request that does not fit its pipe, an output limit below what the    *)
(* process may write, and a shutdown on top of the timeout.                *)
EXTENDS ExternalCall
=============================================================================
