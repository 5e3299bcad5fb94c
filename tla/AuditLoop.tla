------------------------------ MODULE AuditLoop ------------------------------
(***************************************************************************)
(* What the generator-auditor loop promises, without saying how: up to     *)
(* Limit attempts are made one after the other, an attempt that passes the *)
(* audit (or that is no SQL at all) is the last one, and the answer is the *)
(* last attempt, called approved exactly when its own audit approved it.   *)
(***************************************************************************)
EXTENDS Integers, Sequences

CONSTANTS
  Texts,      \* what the language model may answer
  Limit       \* the largest number of attempts

VARIABLES
  tried,      \* the attempts, oldest first: [text, verdict]
  status,     \* "running", "approved", "rejected" or "failed"
  answer      \* << >>, or << text >> once the loop has returned one

Verdicts == {"approved", "rejected", "not_sql"}

Final(verdict) == verdict \in {"approved", "not_sql"}

Init == tried = << >> /\ status = "running" /\ answer = << >>

Try(text, verdict) ==
  /\ status = "running"
  /\ Len(tried) < Limit
  /\ tried # << >> => ~Final(tried[Len(tried)].verdict)
  /\ tried' = Append(tried, [text |-> text, verdict |-> verdict])
  /\ UNCHANGED << status, answer >>

Answer ==
  /\ status = "running"
  /\ tried # << >>
  /\ Final(tried[Len(tried)].verdict) \/ Len(tried) = Limit
  /\ status' = IF tried[Len(tried)].verdict = "approved"
               THEN "approved" ELSE "rejected"
  /\ answer' = << tried[Len(tried)].text >>
  /\ UNCHANGED tried

(* The language model may fail at any time; there is then no answer.       *)
Fail ==
  /\ status = "running"
  /\ status' = "failed"
  /\ UNCHANGED << tried, answer >>

Next ==
  \/ \E text \in Texts, verdict \in Verdicts : Try(text, verdict)
  \/ Answer
  \/ Fail

Spec == Init /\ [][Next]_<< tried, status, answer >>
=============================================================================
