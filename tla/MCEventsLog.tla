----------------------------- MODULE MCEventsLog -----------------------------
(* Three request threads and two admin requests.                           *)
EXTENDS EventsLog

CONSTANTS c1, c2, c3, a1, a2

MCCalls == {c1, c2, c3}
MCReads == {a1, a2}

(* Two users; one statement approved, one rejected for two classes, one of *)
(* them found twice, and a call without a verdict.                         *)
MCEvent ==
  [c \in MCCalls |->
     CASE c = c1 -> [user |-> "anna", approved |-> "true",
                     tables |-> <<"client">>, vulns |-> << >>]
       [] c = c2 -> [user |-> "anna", approved |-> "false",
                     tables |-> <<"client", "account">>, vulns |-> <<"DML", "SLOW", "DML">>]
       [] OTHER  -> [user |-> "anonymous", approved |-> "",
                     tables |-> <<"account">>, vulns |-> << >>]]
=============================================================================
