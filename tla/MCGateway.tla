----------------------------- MODULE MCGateway -----------------------------
(***************************************************************************)
(* Instances of Gateway for TLC.  Ids, secrets and tokens are numbers, so  *)
(* a configuration only bounds how many are drawn, and says what the       *)
(* surroundings of the process may do to it.                               *)
(***************************************************************************)
EXTENDS Gateway

MCOneLabel == {"a"}
MCTwoLabels == {"a", "b"}
MCUrls == {"u"}

MCAllMishaps == Mishap
MCBadEdits == {"garbage", "malformed", "removed"}
MCTameMishaps == {"garbage", "removed"}
=============================================================================
