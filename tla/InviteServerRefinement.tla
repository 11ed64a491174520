----------------------- MODULE InviteServerRefinement -----------------------
(***************************************************************************)
(* InviteServer implements InviteServerPromise.                            *)
(***************************************************************************)
EXTENDS InviteServer

(* CTransaction::GetState: Sending2xx is reported as Terminated.           *)
GetState ==
  IF ta.terminated \/ ta.state = "Sending2xx" THEN "Terminated" ELSE ta.state

FinalChosen == CASE ua.state = "Accepted" -> Ok
                 [] ua.state = "Rejected" -> Reject
                 [] OTHER -> NoMsg

Promise == INSTANCE InviteServerPromise
  WITH Provisional <- Provisional \cup {Trying},
       state <- GetState, final <- FinalChosen, wire <- hist.wire

(* Every step of the server side is one the peer was promised.             *)
KeepsPromise == Promise!Spec
=============================================================================
