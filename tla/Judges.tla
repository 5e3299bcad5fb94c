------------------------------- MODULE Judges -------------------------------
(***************************************************************************)
(* The small judges of the teaching notebooks: the seven rules of          *)
(* notebooks/colab_pipeline.ipynb, the mock judge of the reflection        *)
(* notebook (simulations/build_part4.py), the three judges compared in     *)
(* build_part5.py and the two rule auditors of build_part2.py and          *)
(* build_part3.py, with the statements each of them is shown.              *)
(*                                                                         *)
(* A statement is the set of fragments the judges look for in it; "select", *)
(* "update" and "delete" stand for the word it starts with.                *)
(***************************************************************************)
EXTENDS Integers, Sequences

Flag(class, risk) == << [class |-> class, risk |-> risk] >>
If(condition, findings) == IF condition THEN findings ELSE << >>

(* max(..., default=0)                                                     *)
Worst(findings) ==
  LET risks == {0} \cup {findings[i].risk : i \in DOMAIN findings}
  IN  CHOOSE r \in risks : \A other \in risks : other <= r

THRESHOLD == 4
Passed(findings) == Worst(findings) < THRESHOLD
ClassesOf(findings) == {findings[i].class : i \in DOMAIN findings}
-----------------------------------------------------------------------------
(* The notebook's rules.                                                   *)
rule_select_star(q) == If("star" \in q, Flag("SELECT_STAR", 5))

rule_dml_no_where(q) ==
  If(q \cap {"update", "delete"} # {} /\ "where" \notin q, Flag("DML_NO_WHERE", 9))

(* "count(" is looked for with its parenthesis, so that the name of the    *)
(* table count_turnover ("count") is not taken for an aggregate.           *)
rule_no_limit_by_word(q) ==
  If(/\ "select" \in q
     /\ q \cap {"aggregate", "count", "group_by", "limit", "where"} = {},
     Flag("NO_PAGINATION", 4))
rule_no_limit(q) ==
  If(/\ "select" \in q
     /\ q \cap {"aggregate", "group_by"} = {}
     /\ q \cap {"limit", "where"} = {},
     Flag("NO_PAGINATION", 4))

rule_sqli_classic(q) == If("glued" \in q, Flag("SQL_INJ_CLASSIC", 10))

rule_union(q) ==
  If("union" \in q /\ q \cap {"sys_object", "comment", "select_null"} # {},
     Flag("SQL_INJ_UNION", 8))

rule_pg_sleep(q) == If("pg_sleep" \in q, Flag("SQL_INJ_TIME", 9))

(* Any alias before " from " counts as a mask.                             *)
rule_sensitive(q) ==
  If("sensitive" \in q /\ "alias" \notin q, Flag("DIRECT_SENSITIVE", 7))

RULES(q) ==
  rule_select_star(q) \o rule_dml_no_where(q) \o rule_no_limit(q)
  \o rule_sqli_classic(q) \o rule_union(q) \o rule_pg_sleep(q)
  \o rule_sensitive(q)

judge(q) == RULES(q)

(* The ten cards; every one has a good statement, the last seven a bad one *)
(* too, and these are what [r for r in DATASET if "bad" in r] keeps.       *)
SafeCards ==
  << [good |-> {"select", "where", "limit"}],
     [good |-> {"select", "aggregate", "alias", "group_by"}],
     [good |-> {"select", "where"}] >>
BadCards ==
  << [good |-> {"select", "where", "limit"}, bad |-> {"select", "star", "where", "limit"}],
     [good |-> {"update", "where"}, bad |-> {"update"}],
     [good |-> {"select", "count", "limit"}, bad |-> {"select", "count"}],
     [good |-> {"select", "where"}, bad |-> {"select", "where", "glued"}],
     [good |-> {"select", "where"},
      bad |-> {"select", "where", "union", "sys_object", "comment"}],
     [good |-> {"select", "where"}, bad |-> {"select", "where", "pg_sleep"}],
     [good |-> {"select", "sensitive", "alias", "limit"}, bad |-> {"select", "sensitive"}] >>
DATASET == SafeCards \o BadCards

Case(sql, truth) == [sql |-> sql, truth |-> truth]
CardCases ==
  [i \in 1..Len(BadCards) |-> Case(BadCards[i].bad, TRUE)]
  \o [i \in 1..Len(DATASET) |-> Case(DATASET[i].good, FALSE)]
-----------------------------------------------------------------------------
(* build_part4: the mock judge of the reflection loop.                     *)
mock_judge(q) ==
  If("star" \in q, Flag("SELECT_STAR", 5))
  \o If(q \cap {"update", "delete"} # {} /\ "where" \notin q, Flag("DML_NO_WHERE", 9))
  \o If("select" \in q /\ q \cap {"limit", "count_star"} = {}, Flag("NO_PAGINATION", 4))
-----------------------------------------------------------------------------
(* build_part2 and build_part3: the auditors of one rule.                  *)
audit_R002_R003(q) ==
  If(/\ q \cap {"update", "delete"} # {}
     /\ "where" \notin q \/ "always_true" \in q,
     Flag("DML_NO_WHERE", 9))

DmlCases == << Case({"update"}, TRUE), Case({"update", "where", "always_true"}, TRUE),
               Case({"update", "where"}, FALSE) >>

audit_R004_no_limit(q) ==
  IF "select" \notin q \/ q \cap {"aggregate", "group_by"} # {}
  THEN << >>
  ELSE IF "limit" \notin q
       THEN Flag("NO_PAGINATION", 4)
       ELSE If("huge_limit" \in q, Flag("NO_PAGINATION", 3))

LimitCases == << Case({"select"}, TRUE), Case({"select", "limit", "huge_limit"}, TRUE),
                 Case({"select", "limit"}, FALSE), Case({"select", "aggregate"}, FALSE) >>
-----------------------------------------------------------------------------
(* build_part5: rules alone, a guessing model alone, and the two together. *)
CASES ==
  << Case({"pg_sleep", "migration"}, FALSE),
     Case({"update", "where", "pg_sleep", "case_when", "password"}, TRUE),
     Case({"select", "permissions"}, TRUE),
     Case({"select", "aggregate", "where"}, FALSE) >>

judge_A_rules_only(q) ==
  If("pg_sleep" \in q, Flag("SQL_INJ_TIME", 8))
  \o If(q \cap {"update", "delete"} # {} /\ "where" \notin q, Flag("DML_NO_WHERE", 9))
  \o If("star" \in q, Flag("SELECT_STAR", 5))
  \o If("password" \in q, Flag("DIRECT_SENSITIVE", 7))

(* The score in tenths, before rng.uniform(-0.2, 0.2) is added.            *)
Score(q) ==
  IF "pg_sleep" \in q
  THEN IF "case_when" \in q THEN 8 ELSE 5
  ELSE IF "delete" \in q /\ "where" \notin q THEN 9
  ELSE IF "star" \in q THEN 4
  ELSE IF "permissions" \in q THEN 3
  ELSE 0
Noise == -2..2
judge_B_llm_only(q, noise) == If(Score(q) + noise > 5, Flag("guess", 0))

(* The context drops a finding, raises its risk or adds one.               *)
Triaged(q, finding) ==
  IF finding.class = "SQL_INJ_TIME"
  THEN If("migration" \notin q,
          << [finding EXCEPT !.risk = IF "case_when" \in q THEN 9 ELSE @] >>)
  ELSE IF finding.class = "DML_NO_WHERE" /\ "cleanup_comment" \in q
       THEN << [finding EXCEPT !.risk = 2] >>
       ELSE << finding >>

phase2_triage(q, findings) ==
  LET kept[i \in 0..Len(findings)] ==
        IF i = 0 THEN << >> ELSE kept[i - 1] \o Triaged(q, findings[i])
      triaged == kept[Len(findings)]
  IN  triaged \o If("permissions" \in q /\ "DIRECT_SENSITIVE" \notin ClassesOf(triaged),
                    Flag("DIRECT_SENSITIVE", 7))

judge_C_hybrid(q) == phase2_triage(q, judge_A_rules_only(q))
=============================================================================
