------------------------------- MODULE Auditor -------------------------------
(***************************************************************************)
(* The hybrid auditor (nodes/auditor.py with audit/sensitive.py,           *)
(* schema_sensitive.py, schema_validator.py and ast_checker.py) as         *)
(* operators: which findings Phase 1 makes of a statement, in which order, *)
(* and the verdict drawn from them.                                        *)
(*                                                                         *)
(* A statement is what the checkers' expressions recognise in it, after    *)
(* comments were stripped:                                                 *)
(*   head   the keyword it starts with (re.match at the first character),  *)
(*   marks  the fragments found anywhere in it (re.search),                *)
(*   cols   the categories of the raw, unmasked columns of its select list *)
(*          in the order they are listed.                                  *)
(* Every risk score of the code is a whole number, so a risk is a Nat.     *)
(***************************************************************************)
EXTENDS Integers, Sequences, FiniteSets, FiniteSetsExt

Heads == {"select", "update", "delete", "other"}

Marks == {"keyword", "star", "alias_star", "count_star", "returns_setof",
          "where", "where_true", "aggregate", "limit", "comma_from", "join",
          "leading_wildcard", "func_in_where", "deep_offset",
          "union", "union_null", "union_system", "pg_sleep", "case_sleep",
          "definer", "search_path", "execute_concat", "format_s",
          "input_concat", "pii_literal", "ddl", "dcl", "catalog",
          "pii_table", "comment_pii", "unknown_table", "one_table", "cte",
          "unknown_column", "unparsable", "join_no_on", "subquery_no_limit"}

(* detect_column: the category of a sensitive column and its risk.         *)
ColumnRisk ==
  [credentials |-> 8, payment |-> 8, national_id |-> 7, financial_account |-> 7,
   contact |-> 5, personal |-> 5, financial_secret |-> 6, financial |-> 7,
   financial_numeric |-> 2]

Categories == DOMAIN ColumnRisk

Statement == [head : Heads, marks : SUBSET Marks, cols : Seq(Categories)]

(* The checkers run_phase1 calls under try/except: one that raises, or     *)
(* whose dependency is missing, contributes nothing.                       *)
Checkers == {"schema_sensitive", "schema_validator", "ast_checker"}

VulnClasses == {"SELECT_STAR", "DML_NO_WHERE", "NO_PAGINATION", "SLOW_QUERY",
                "SQL_INJ_UNION", "SQL_INJ_TIME", "PRIV_ESCALATE",
                "PLPGSQL_UNSAFE", "SQL_INJ_CLASSIC", "DIRECT_SENSITIVE",
                "DDL_DESTRUCTIVE", "DCL_LEAK", "SCHEMA_INTROSPECT",
                "SCHEMA_HALLUCINATION", "PARSE_ERROR", "NOT_A_QUERY"}

Risks == 0..10
RISK_THRESHOLD == 4

Finding == [class : VulnClasses, risk : Risks]

Found(class, risk) == << [class |-> class, risk |-> risk] >>

When(condition, findings) == IF condition THEN findings ELSE << >>

Has(q, mark) == mark \in q.marks
-----------------------------------------------------------------------------
(* Phase 1: one operator per rule.                                         *)

RuleSelectStar(q) ==
  When(/\ ~Has(q, "returns_setof")
       /\ Has(q, "star") \/ (Has(q, "alias_star") /\ ~Has(q, "count_star")),
       Found("SELECT_STAR", 5))

RuleDmlNoWhere(q) ==
  When(/\ q.head \in {"update", "delete"}
       /\ ~Has(q, "where") \/ Has(q, "where_true"),
       Found("DML_NO_WHERE", 9))

RuleNoLimit(q) ==
  When(/\ q.head = "select"
       /\ q.marks \cap {"aggregate", "limit", "where"} = {},
       Found("NO_PAGINATION", 4))

RuleSlowQuery(q) ==
  When(Has(q, "comma_from") /\ ~Has(q, "join"), Found("SLOW_QUERY", 7))
  \o When(Has(q, "leading_wildcard"), Found("SLOW_QUERY", 5))
  \o When(Has(q, "func_in_where"), Found("SLOW_QUERY", 5))
  \o When(Has(q, "deep_offset"), Found("SLOW_QUERY", 5))

RuleUnion(q) ==
  When(Has(q, "union") /\ (Has(q, "union_null") \/ Has(q, "union_system")),
       Found("SQL_INJ_UNION", IF Has(q, "union_null") THEN 8 ELSE 9))

RulePgSleep(q) ==
  When(Has(q, "pg_sleep"),
       Found("SQL_INJ_TIME", IF Has(q, "case_sleep") THEN 9 ELSE 8))

RuleSecurityDefiner(q) ==
  When(Has(q, "definer") /\ ~Has(q, "search_path"), Found("PRIV_ESCALATE", 8))

RulePlpgsqlConcat(q) ==
  When(Has(q, "execute_concat") \/ Has(q, "format_s"),
       Found("PLPGSQL_UNSAFE", IF Has(q, "execute_concat") THEN 8 ELSE 7))

RuleInjectionMarker(q) ==
  When(Has(q, "input_concat"), Found("SQL_INJ_CLASSIC", 10))

RuleSensitiveColumns(q) ==
  [i \in 1..Len(q.cols) |->
     [class |-> "DIRECT_SENSITIVE", risk |-> ColumnRisk[q.cols[i]]]]
  \o When(Has(q, "pii_literal"), Found("DIRECT_SENSITIVE", 7))

RuleDdlDestructive(q) == When(Has(q, "ddl"), Found("DDL_DESTRUCTIVE", 10))

RuleDclGrant(q) == When(Has(q, "dcl"), Found("DCL_LEAK", 10))

RuleSchemaIntrospect(q) == When(Has(q, "catalog"), Found("SCHEMA_INTROSPECT", 7))

PHASE1_RULES(q) ==
  RuleSelectStar(q) \o RuleDmlNoWhere(q) \o RuleNoLimit(q) \o RuleSlowQuery(q)
  \o RuleUnion(q) \o RulePgSleep(q) \o RuleSecurityDefiner(q)
  \o RulePlpgsqlConcat(q) \o RuleInjectionMarker(q) \o RuleSensitiveColumns(q)
  \o RuleDdlDestructive(q) \o RuleDclGrant(q) \o RuleSchemaIntrospect(q)
-----------------------------------------------------------------------------
(* The three checkers beside the rules.                                    *)

SchemaSensitive(q) ==
  When((Has(q, "star") \/ Has(q, "alias_star")) /\ Has(q, "pii_table"),
       Found("DIRECT_SENSITIVE", 7))
  \o When(Has(q, "comment_pii"), Found("DIRECT_SENSITIVE", 7))

SchemaValidate(q) ==
  When(Has(q, "unknown_table"), Found("SCHEMA_HALLUCINATION", 7))
  \o When(Has(q, "unknown_column") /\ Has(q, "one_table") /\ ~Has(q, "cte"),
          Found("SCHEMA_HALLUCINATION", 5))

AstCheck(q) ==
  IF Has(q, "unparsable")
  THEN Found("PARSE_ERROR", 9)
  ELSE When(Has(q, "join_no_on"), Found("SLOW_QUERY", 7))
       \o When(Has(q, "subquery_no_limit"), Found("NO_PAGINATION", 3))

(* run_phase1, when the checkers of the set down fail during this call.    *)
RunPhase1(q, down) ==
  PHASE1_RULES(q)
  \o When("schema_sensitive" \notin down, SchemaSensitive(q))
  \o When("schema_validator" \notin down, SchemaValidate(q))
  \o When("ast_checker" \notin down, AstCheck(q))
-----------------------------------------------------------------------------
(* HybridAuditor.audit: the worst finding decides.  Phase 2 only adds      *)
(* recommendations to the findings, so it does not appear in the verdict.  *)

OverallRisk(findings) ==
  Max({0} \cup {findings[i].risk : i \in DOMAIN findings})

ApprovesAtThreshold(risk) == risk <= RISK_THRESHOLD
Approves(risk) == risk < RISK_THRESHOLD

AuditResult == [approved : BOOLEAN, risk : Risks, vulns : Seq(Finding)]

Audit(findings) ==
  [approved |-> Approves(OverallRisk(findings)),
   risk |-> OverallRisk(findings),
   vulns |-> findings]

(* Phase 2 calls the LLM judge only when Phase 1 found something.          *)
CallsJudge(findings) == findings # << >>
=============================================================================
