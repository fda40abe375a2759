-------------------------------- MODULE MCTcp ---------------------------------
(***************************************************************************)
(* A host that writes two bytes and closes at once.                        *)
(***************************************************************************)
EXTENDS Tcp, TLC

CONSTANTS side1, side2

Written == side1 :> 2 @@ side2 :> 0
Spec == Init /\ [][Next]_vars
=============================================================================
