---------------------------- MODULE MCJobLifetime ----------------------------
(* Instances of JobLifetime for TLC. *)
EXTENDS JobLifetime

(* A job whose defaults are still to be stored, and one whose spec has them *)
(* all, as when it was copied from a stored job.                            *)
Incomplete == [complete |-> FALSE, dependent |-> TRUE]
Complete == [complete |-> TRUE, dependent |-> TRUE]
Independent == [complete |-> FALSE, dependent |-> FALSE]

MCSubmissions == <<{Incomplete}, {Complete, Independent}>>
=============================================================================
