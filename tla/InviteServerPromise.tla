------------------------ MODULE InviteServerPromise ------------------------
(***************************************************************************)
(* What the server side of an INVITE promises to the peer, told in the     *)
(* states CTransaction::GetState reports (Sending2xx counts as Terminated) *)
(* and the responses that reach the wire: provisional responses first, in  *)
(* order; then one final response is chosen for good; an error response is *)
(* repeated only in Completed and Confirmed, a 2xx only once the           *)
(* transaction counts as terminated, or by the user agent after it.        *)
(***************************************************************************)
EXTENDS Integers

CONSTANTS Provisional, Ok, Reject, NoMsg

VARIABLES
  state,   \* as GetState reports it
  final,   \* the final response chosen, or NoMsg
  wire     \* the last response sent

vars == <<state, final, wire>>

Init == state = "Proceeding" /\ final = NoMsg /\ wire = NoMsg

SendProvisional ==
  /\ state = "Proceeding"
  /\ wire' \in {r \in Provisional : r >= wire}
  /\ UNCHANGED <<state, final>>

Choose(f) ==
  /\ final = NoMsg /\ state = "Proceeding"
  /\ final' = f
  /\ UNCHANGED wire

(* The choice takes effect at once, or when the responses queued before it *)
(* have gone out.                                                          *)
ChooseReject == Choose(Reject) /\ state' \in {"Proceeding", "Completed"}
ChooseOk     == Choose(Ok) /\ state' \in {"Proceeding", "Terminated"}

Move ==
  /\ state = "Proceeding" /\ final # NoMsg
  /\ state' = IF final = Ok THEN "Terminated" ELSE "Completed"
  /\ wire' \in {wire} \cup {r \in Provisional : r >= wire}
  /\ UNCHANGED final

SendReject ==
  /\ final = Reject /\ state \in {"Completed", "Confirmed"}
  /\ wire' = Reject
  /\ UNCHANGED <<state, final>>

SendOk ==
  /\ final = Ok /\ state = "Terminated"
  /\ wire' = Ok
  /\ UNCHANGED <<state, final>>

Acknowledged ==
  /\ state = "Completed" /\ state' = "Confirmed"
  /\ UNCHANGED <<final, wire>>

End ==
  /\ state # "Terminated" /\ state' = "Terminated"
  /\ UNCHANGED <<final, wire>>

Next ==
  \/ SendProvisional \/ ChooseReject \/ ChooseOk \/ Move
  \/ SendReject \/ SendOk \/ Acknowledged \/ End

Spec == Init /\ [][Next]_vars
=============================================================================
