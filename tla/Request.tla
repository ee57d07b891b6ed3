------------------------------- MODULE Request -------------------------------
(***************************************************************************)
(* What a client may expect of a call that works for some time: the work   *)
(* ends one way or the other, and the client gets that verdict once, or    *)
(* gives up.  StatusStream implements it when no channel fills up unread.  *)
(***************************************************************************)

VARIABLES
  outcome,   \* of the work: "none" so far, "ok" or "error"
  answer     \* what the client has: "waiting", "success", "failure", "gone"

Init == outcome = "none" /\ answer = "waiting"

Work ==
  /\ outcome = "none" /\ outcome' \in {"ok", "error"}
  /\ UNCHANGED answer

Answer ==
  /\ answer = "waiting" /\ outcome # "none"
  /\ answer' = IF outcome = "ok" THEN "success" ELSE "failure"
  /\ UNCHANGED outcome

GiveUp == answer = "waiting" /\ answer' = "gone" /\ UNCHANGED outcome

Next == Work \/ Answer \/ GiveUp

Safe == Init /\ [][Next]_<<outcome, answer>>

Spec == Safe /\ <>(answer # "waiting")
===============================================================================
