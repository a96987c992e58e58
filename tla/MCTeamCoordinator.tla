-------------------------- MODULE MCTeamCoordinator --------------------------
(* A leader with room for one member and one level, two calls of spawn     *)
(* that race, and ids for children that must not become members.           *)
EXTENDS TeamCoordinator, TLC

CONSTANTS l, a, b, d, c1, c2
=============================================================================
