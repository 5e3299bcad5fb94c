---------------------------- MODULE MCDbSessions -----------------------------
(* Five tables, of which one is skipped, two may not fit and two refer to   *)
(* others; three tasks, of the categories A, B and D.                        *)
EXTENDS DbSessions

MCTables == << "account", "client", "cycle", "empty", "payment" >>
MCEmpty == {"empty"}
MCUnfit == {"account", "cycle"}
MCLinked == {"client", "payment"}
MCCatEnds == << 1, 2, 2 >>

MCRequests ==
  Statement({<< >>, << "--", "newline", "/*" >>},
            {<< "space" >>, << "newline" >>, << "newline", "space" >>},
            {<< "select", "space", "word" >>, << "with", "space", "word" >>,
             << "with", "newline" >>, << "update", "space", "select" >>},
            {<< >>, << "query" >>, << "change", "commit" >>, << "rollback", "change" >>})

(* Texts of one statement, a pair that is rolled back, two that commit.    *)
MCCandidates ==
  {<< >>, << "same" >>, << "other" >>, << "change" >>, << "set", "returning" >>,
   << "set", "commit" >>, << "rollback", "change", "same" >>}

MCQueries ==
  << [expect |-> "safe", kind |-> "query"], [expect |-> "vuln", kind |-> "change"],
     [expect |-> "vuln", kind |-> "query"], [expect |-> "vuln", kind |-> "other"] >>
=============================================================================
