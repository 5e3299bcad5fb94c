----------------------------- MODULE MCPipeline -----------------------------
(***************************************************************************)
(* Statements for the model checker, each a text a model could return.     *)
(***************************************************************************)
EXTENDS Pipeline

Text(head, marks, cols) ==
  [head |-> head, marks |-> marks \cup {"keyword"}, cols |-> cols]

\* SELECT id, status FROM credit_contract WHERE id = 1 LIMIT 10
Clean == Text("select", {"where", "limit", "one_table"}, << >>)
\* SELECT credit_amount FROM credit_contract WHERE id IN (SELECT id FROM t)
Tolerated == Text("select", {"where", "subquery_no_limit"}, << "financial_numeric" >>)
\* SELECT id FROM credit_contract
Dump == Text("select", {"one_table"}, << >>)
\* SELECT * FROM credit_contract, sim_client
StarCartesian == Text("select", {"star", "comma_from", "pii_table"}, << >>)
\* UPDATE credit_contract SET status = 0 WHERE 1 = 1
BulkUpdate == Text("update", {"where", "where_true", "one_table"}, << >>)
\* DROP TABLE credit_contract
Drop == Text("other", {"ddl"}, << >>)
\* SELECT a FROM t WHRE  -- caught by the parser alone
Broken == Text("select", {"where", "limit", "unparsable"}, << >>)
\* "Hello! What would you like to know?"
Prose == [head |-> "other", marks |-> {}, cols |-> << >>]

\* SELECT *, inn FROM a, b: five classes, DIRECT_SENSITIVE among them
FiveClasses == Text("select", {"star", "comma_from", "catalog"}, << "national_id" >>)
\* SELECT * FROM phantom LIMIT 5: one class again, one new
OneAgainOneNew == Text("select", {"star", "limit", "unknown_table"}, << >>)

MCStatements == {Clean, Tolerated, Dump, StarCartesian, BulkUpdate, Drop, Broken, Prose}
MCOutages == {{}, {"ast_checker"}, Checkers}

MCContractStatements == {Clean, Tolerated, Dump, Prose}
MCWindowStatements == {Clean, FiveClasses, OneAgainOneNew, Prose}
NoOutage == {{}}
=============================================================================
