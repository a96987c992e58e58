---------------------------- MODULE MCEventStream ----------------------------
(* One client of each kind; pages of two events, so that a stream of four  *)
(* takes more than one page and a page can be cut in the middle.           *)
EXTENDS EventStream

CONSTANTS s1, b1
=============================================================================
