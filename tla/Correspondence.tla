--------------------------- MODULE Correspondence ---------------------------
(***************************************************************************)
(* The two ways in which messages leave the application in somebody's      *)
(* name: the sealed conversations of the messenger (Messenger) and the     *)
(* signed actions of an agency bot (AgencyTools).  They share no state; a  *)
(* behaviour follows one of them, chosen at its start.                     *)
(***************************************************************************)
EXTENDS Messenger, AgencyTools

VARIABLE way

correspondenceVars == <<way, vars, agencyVars>>

CorrespondenceInit ==
  /\ way \in {"messenger", "agency"} /\ Init /\ AgencyInit
  /\ way = "messenger" => transport = "jmap" /\ pds = "cursor"
  /\ way = "agency" => \A p \in Person : verified[p] /\ admits[p]

Messages == way = "messenger" /\ Next /\ UNCHANGED <<way, agencyVars>>
Agency   == way = "agency" /\ AgencyNext /\ UNCHANGED <<way, vars>>

CorrespondenceNext == Messages \/ Agency

CorrespondenceSpec == CorrespondenceInit /\ [][CorrespondenceNext]_correspondenceVars
=============================================================================
