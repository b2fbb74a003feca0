----------------------------- MODULE MCDiscovery -----------------------------
(***************************************************************************)
(* Instances of Discovery: what the entries of the config match.           *)
(***************************************************************************)
EXTENDS Discovery

CONSTANTS p1, p2

(* Each desk has a name of its own.                                        *)
OwnNames == <<{p1}, {p2}>>

(* One desk.                                                               *)
Alone == <<{p1}>>
=============================================================================
