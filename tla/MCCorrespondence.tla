-------------------------- MODULE MCCorrespondence --------------------------
(* Two people; only the page of the first does two things at a time.       *)
EXTENDS Correspondence

MCSlots == [p \in Person |-> IF p \in Known THEN {1, 2} ELSE {1}]
=============================================================================
