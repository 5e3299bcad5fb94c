--------------------------- MODULE PipelineProofs ---------------------------
(***************************************************************************)
(* The theorems about SQLSecurityPipeline.run and the agents it calls:     *)
(* what the auditor's verdict guarantees, what the reflector returns, the  *)
(* invariants of the loop, and that it implements AuditLoop; for every set *)
(* of statements the language model may answer with, every limit, every    *)
(* window and any failing checkers.                                        *)
(***************************************************************************)
EXTENDS Pipeline, SequenceTheorems, TLAPS, WellFoundedInduction

(* Induction on the natural numbers stated about sets, so that a proof can *)
(* use it without instantiating an operator, and the existence of a        *)
(* greatest element, for Max.                                              *)

(* A non-empty set of natural numbers has a least element.                 *)
LEMMA SmallestOf ==
  ASSUME NEW T \in SUBSET Nat, T # {}
  PROVE  \E x \in T : \A y \in T : x <= y
<1> DEFINE R == OpToRel(<, Nat)
<1>1. IsWellFoundedOn(R, Nat)
  BY NatLessThanWellFounded
<1>2. \A x, y \in Nat : y < x => << y, x >> \in R
  BY DEF OpToRel
<1> HIDE DEF R
<1>3. \E x \in T : \A y \in T : ~(<< y, x >> \in R)
  BY <1>1, WFMin
<1>4. PICK x \in T : \A y \in T : ~(<< y, x >> \in R)
  BY <1>3
<1>5. ASSUME NEW y \in T PROVE x <= y
  <2>1. x \in Nat /\ y \in Nat
    OBVIOUS
  <2>2. ~(y < x)
    BY <1>2, <1>4, <2>1, Zenon
  <2>3. QED
    BY <2>1, <2>2, SMT
<1>6. QED
  BY <1>5, Zenon

(* What holds of 0 and is handed from i to i + 1 holds up to n.            *)
LEMMA InductionUpTo ==
  ASSUME NEW n \in Nat, NEW P,
         0 \in P,
         \A i \in 0..(n - 1) : i \in P => i + 1 \in P
  PROVE  0..n \subseteq P
<1> DEFINE T == (0..n) \ P
<1> SUFFICES ASSUME T # {} PROVE FALSE
  OBVIOUS
<1>1. PICK x \in T : \A y \in T : x <= y
  <2>1. T \in SUBSET Nat
    OBVIOUS
  <2> HIDE DEF T
  <2>2. QED
    BY <2>1, SmallestOf
<1>2. x \in 1..n
  BY <1>1
<1>3. x - 1 \in P
  BY <1>1, <1>2
<1>4. (x - 1) + 1 \in P
  BY <1>2, <1>3
<1>5. QED
  BY <1>1, <1>2, <1>4

(* A non-empty set of numbers up to n has a greatest element.              *)
LEMMA LargestOf ==
  ASSUME NEW n \in Nat, NEW T \in SUBSET (0..n), T # {}
  PROVE  \E x \in T : \A y \in T : x >= y
<1> DEFINE U == {n - x : x \in T}
<1>1. U \in SUBSET Nat /\ U # {}
  <2>1. \A x \in T : n - x \in Nat
    OBVIOUS
  <2>2. U \subseteq Nat
    BY <2>1
  <2>3. U # {}
    BY Zenon
  <2>4. QED
    BY <2>2, <2>3
<1>2. PICK u \in U : \A v \in U : u <= v
  <2> HIDE DEF U
  <2>1. QED
    BY <1>1, SmallestOf
<1>3. PICK x \in T : u = n - x
  OBVIOUS
<1>4. ASSUME NEW y \in T PROVE x >= y
  <2>1. n - y \in U
    OBVIOUS
  <2>2. n - x <= n - y
    BY <1>2, <1>3, <2>1
  <2>3. x \in 0..n /\ y \in 0..n
    OBVIOUS
  <2>4. QED
    BY <2>2, <2>3
<1>5. QED
  BY <1>4

-----------------------------------------------------------------------------
(* The auditor.                                                            *)

(* What a rule or a checker can find; NOT_A_QUERY comes from the pipeline. *)
RuleClasses == VulnClasses \ {"NOT_A_QUERY"}
RuleFinding == [class : RuleClasses, risk : Risks]

(* A finding that is enough for a rejection.                               *)
Serious(findings) == \E i \in DOMAIN findings : findings[i].risk >= RISK_THRESHOLD

LEMMA SeriousConcat ==
  ASSUME NEW s \in Seq(RuleFinding), NEW t \in Seq(RuleFinding)
  PROVE  s \o t \in Seq(RuleFinding) /\ (Serious(s \o t) <=> Serious(s) \/ Serious(t))
<1>1. /\ s \o t \in Seq(RuleFinding)
      /\ Len(s \o t) = Len(s) + Len(t) /\ Len(s) \in Nat /\ Len(t) \in Nat
      /\ DOMAIN s = 1..Len(s) /\ DOMAIN t = 1..Len(t)
      /\ DOMAIN (s \o t) = 1..(Len(s) + Len(t))
  BY ConcatProperties
<1>2. \A i \in DOMAIN (s \o t) :
        (s \o t)[i] = IF i <= Len(s) THEN s[i] ELSE t[i - Len(s)]
  BY <1>1, ConcatProperties
<1>3. ASSUME Serious(s \o t) PROVE Serious(s) \/ Serious(t)
  <2>1. PICK i \in DOMAIN (s \o t) : (s \o t)[i].risk >= RISK_THRESHOLD
    BY <1>3 DEF Serious
  <2>2. CASE i <= Len(s)
    <3>1. i \in DOMAIN s /\ (s \o t)[i] = s[i]
      BY <1>1, <1>2, <2>2
    <3>2. QED
      BY <2>1, <3>1 DEF Serious
  <2>3. CASE i > Len(s)
    <3>1. i - Len(s) \in DOMAIN t /\ (s \o t)[i] = t[i - Len(s)]
      BY <1>1, <1>2, <2>3
    <3>2. QED
      BY <2>1, <3>1 DEF Serious
  <2>4. QED
    BY <1>1, <2>2, <2>3
<1>4. ASSUME Serious(s) PROVE Serious(s \o t)
  <2>1. PICK i \in DOMAIN s : s[i].risk >= RISK_THRESHOLD
    BY <1>4 DEF Serious
  <2>2. i \in DOMAIN (s \o t) /\ (s \o t)[i] = s[i]
    BY <1>1, <1>2
  <2>3. QED
    BY <2>1, <2>2 DEF Serious
<1>5. ASSUME Serious(t) PROVE Serious(s \o t)
  <2>1. PICK i \in DOMAIN t : t[i].risk >= RISK_THRESHOLD
    BY <1>5 DEF Serious
  <2>2. i + Len(s) \in DOMAIN (s \o t) /\ (s \o t)[i + Len(s)] = t[i]
    BY <1>1, <1>2
  <2>3. QED
    BY <2>1, <2>2 DEF Serious
<1>6. QED
  BY <1>1, <1>3, <1>4, <1>5

LEMMA FoundType ==
  ASSUME NEW class \in RuleClasses, NEW risk \in Risks
  PROVE  /\ Found(class, risk) \in Seq(RuleFinding)
         /\ risk >= RISK_THRESHOLD => Serious(Found(class, risk))
<1>1. Found(class, risk) \in Seq(RuleFinding)
  BY DEF Found, RuleFinding
<1>2. risk >= RISK_THRESHOLD => Serious(Found(class, risk))
  BY DEF Serious, Found
<1>3. QED
  BY <1>1, <1>2
-----------------------------------------------------------------------------
LEMMA RiskOfFinding ==
  ASSUME NEW findings \in Seq(RuleFinding), NEW i \in DOMAIN findings
  PROVE  findings[i] \in RuleFinding /\ findings[i].class \in RuleClasses /\ findings[i].risk \in Risks
<1>1. findings[i] \in RuleFinding
  OBVIOUS
<1>2. QED
  BY <1>1 DEF RuleFinding

(* The worst of the findings.                                              *)
LEMMA OverallRiskBounds ==
  ASSUME NEW findings \in Seq(RuleFinding)
  PROVE  /\ OverallRisk(findings) \in Risks
         /\ \A i \in DOMAIN findings : findings[i].risk <= OverallRisk(findings)
         /\ findings = << >> => OverallRisk(findings) = 0
<1> DEFINE R == {0} \cup {findings[i].risk : i \in DOMAIN findings}
<1>1. R \in SUBSET (0..10) /\ R # {}
  <2>1. \A i \in DOMAIN findings : findings[i].risk \in 0..10
    BY RiskOfFinding DEF Risks
  <2>2. QED
    BY <2>1
<1>2. \E x \in R : \A y \in R : x >= y
  <2> HIDE DEF R
  <2>1. QED
    BY <1>1, LargestOf
<1>3. Max(R) \in R /\ \A y \in R : Max(R) >= y
  <2> HIDE DEF R
  <2>1. QED
    BY <1>2, Zenon DEF Max
<1>4. OverallRisk(findings) = Max(R)
  BY DEF OverallRisk
<1>5. ASSUME NEW i \in DOMAIN findings PROVE findings[i].risk <= Max(R)
  <2>1. findings[i].risk \in R
    OBVIOUS
  <2>2. findings[i].risk \in 0..10 /\ Max(R) \in 0..10 /\ Max(R) >= findings[i].risk
    BY <1>1, <1>3, <2>1
  <2>3. QED
    BY <2>2
<1>6. findings = << >> => R = {0}
  OBVIOUS
<1>7. QED
  BY <1>1, <1>3, <1>4, <1>5, <1>6 DEF Risks

LEMMA AuditType ==
  ASSUME NEW findings \in Seq(RuleFinding)
  PROVE  /\ Audit(findings) \in AuditResult
         /\ Serious(findings) => ~Audit(findings).approved
         /\ ~Audit(findings).approved => Len(findings) \in Nat \ {0}
         /\ Audit(findings).vulns = findings
<1>1. OverallRisk(findings) \in Risks
  BY OverallRiskBounds
<1>2. Audit(findings) \in AuditResult
  <2>1. findings \in Seq(Finding)
    <3>1. RuleFinding \subseteq Finding
      BY DEF RuleFinding, RuleClasses, Finding
    <3>2. QED
      BY <3>1, SeqMonotonic
  <2>2. QED
    BY <1>1, <2>1 DEF Audit, AuditResult, Approves, RISK_THRESHOLD, Risks
<1>3. Audit(findings).approved <=> OverallRisk(findings) < 4
  BY Zenon DEF Audit, Approves, RISK_THRESHOLD
<1>4. ASSUME Serious(findings) PROVE ~Audit(findings).approved
  <2>1. PICK i \in DOMAIN findings : findings[i].risk >= RISK_THRESHOLD
    BY <1>4 DEF Serious
  <2>2. findings[i].risk <= OverallRisk(findings) /\ findings[i].risk \in Risks
    BY OverallRiskBounds, RiskOfFinding
  <2>3. ~(OverallRisk(findings) < 4)
    BY <1>1, <2>1, <2>2 DEF RISK_THRESHOLD, Risks
  <2>4. QED
    BY <1>3, <2>3, Zenon
<1>5. ASSUME ~Audit(findings).approved PROVE Len(findings) \in Nat \ {0}
  <2>1. OverallRisk(findings) # 0
    <3>1. ~(OverallRisk(findings) < 4)
      BY <1>3, <1>5, Zenon
    <3>2. QED
      BY <3>1
  <2>2. findings # << >>
    BY <2>1, OverallRiskBounds
  <2>3. QED
    BY <2>2, EmptySeq
<1>6. Audit(findings).vulns = findings
  BY DEF Audit
<1>7. QED
  BY <1>2, <1>4, <1>5, <1>6
-----------------------------------------------------------------------------
LEMMA SeriousConcat5 ==
  ASSUME NEW a \in Seq(RuleFinding), NEW b \in Seq(RuleFinding), NEW c \in Seq(RuleFinding),
         NEW d \in Seq(RuleFinding), NEW e \in Seq(RuleFinding)
  PROVE  /\ a \o b \o c \o d \o e \in Seq(RuleFinding)
         /\ Serious(a \o b \o c \o d \o e) <=>
              Serious(a) \/ Serious(b) \/ Serious(c) \/ Serious(d) \/ Serious(e)
<1>1. a \o b \in Seq(RuleFinding) /\ (Serious(a \o b) <=> Serious(a) \/ Serious(b))
  BY SeriousConcat
<1>2. /\ a \o b \o c \in Seq(RuleFinding)
      /\ Serious(a \o b \o c) <=> Serious(a \o b) \/ Serious(c)
  BY <1>1, SeriousConcat
<1>3. /\ a \o b \o c \o d \in Seq(RuleFinding)
      /\ Serious(a \o b \o c \o d) <=> Serious(a \o b \o c) \/ Serious(d)
  BY <1>2, SeriousConcat
<1>4. /\ a \o b \o c \o d \o e \in Seq(RuleFinding)
      /\ Serious(a \o b \o c \o d \o e) <=> Serious(a \o b \o c \o d) \/ Serious(e)
  BY <1>3, SeriousConcat
<1>5. QED
  BY <1>1, <1>2, <1>3, <1>4, Zenon

(* Every rule returns findings.                                            *)
LEMMA RulesType ==
  ASSUME NEW q \in Statement
  PROVE  /\ RuleSelectStar(q) \in Seq(RuleFinding) /\ RuleDmlNoWhere(q) \in Seq(RuleFinding)
         /\ RuleNoLimit(q) \in Seq(RuleFinding) /\ RuleSlowQuery(q) \in Seq(RuleFinding)
         /\ RuleUnion(q) \in Seq(RuleFinding) /\ RulePgSleep(q) \in Seq(RuleFinding)
         /\ RuleSecurityDefiner(q) \in Seq(RuleFinding) /\ RulePlpgsqlConcat(q) \in Seq(RuleFinding)
         /\ RuleInjectionMarker(q) \in Seq(RuleFinding) /\ RuleSensitiveColumns(q) \in Seq(RuleFinding)
         /\ RuleDdlDestructive(q) \in Seq(RuleFinding) /\ RuleDclGrant(q) \in Seq(RuleFinding)
         /\ RuleSchemaIntrospect(q) \in Seq(RuleFinding)
<1> USE DEF RuleClasses, VulnClasses, Risks
<1>1. RuleSelectStar(q) \in Seq(RuleFinding)
  BY FoundType DEF When, RuleSelectStar
<1>2. RuleDmlNoWhere(q) \in Seq(RuleFinding)
  BY FoundType DEF When, RuleDmlNoWhere
<1>3. RuleNoLimit(q) \in Seq(RuleFinding)
  BY FoundType DEF When, RuleNoLimit
<1>4. RuleSlowQuery(q) \in Seq(RuleFinding)
  BY FoundType, ConcatProperties DEF When, RuleSlowQuery
<1>5. RuleUnion(q) \in Seq(RuleFinding)
  <2>1. CASE Has(q, "union_null")
    BY <2>1, FoundType DEF When, RuleUnion
  <2>2. CASE ~Has(q, "union_null")
    BY <2>2, FoundType DEF When, RuleUnion
  <2>3. QED
    BY <2>1, <2>2
<1>6. RulePgSleep(q) \in Seq(RuleFinding)
  <2>1. CASE Has(q, "case_sleep")
    BY <2>1, FoundType DEF When, RulePgSleep
  <2>2. CASE ~Has(q, "case_sleep")
    BY <2>2, FoundType DEF When, RulePgSleep
  <2>3. QED
    BY <2>1, <2>2
<1>7. RuleSecurityDefiner(q) \in Seq(RuleFinding)
  BY FoundType DEF When, RuleSecurityDefiner
<1>8. RulePlpgsqlConcat(q) \in Seq(RuleFinding)
  <2>1. CASE Has(q, "execute_concat")
    BY <2>1, FoundType DEF When, RulePlpgsqlConcat
  <2>2. CASE ~Has(q, "execute_concat")
    BY <2>2, FoundType DEF When, RulePlpgsqlConcat
  <2>3. QED
    BY <2>1, <2>2
<1>9. RuleInjectionMarker(q) \in Seq(RuleFinding)
  BY FoundType DEF When, RuleInjectionMarker
<1>10. RuleSensitiveColumns(q) \in Seq(RuleFinding)
  <2> DEFINE perColumn == [i \in 1..Len(q.cols) |->
                 [class |-> "DIRECT_SENSITIVE", risk |-> ColumnRisk[q.cols[i]]]]
  <2>1. perColumn \in Seq(RuleFinding)
    <3>1. q.cols \in Seq(Categories)
      BY DEF Statement
    <3>2. \A c \in Categories : ColumnRisk[c] \in Risks
      BY DEF Categories, ColumnRisk
    <3>3. \A i \in 1..Len(q.cols) : ColumnRisk[q.cols[i]] \in Risks
      BY <3>1, <3>2, ElementOfSeq
    <3>4. Len(q.cols) \in Nat
      BY <3>1
    <3>5. QED
      BY <3>3, <3>4 DEF RuleFinding
  <2>2. When(Has(q, "pii_literal"), Found("DIRECT_SENSITIVE", 7)) \in Seq(RuleFinding)
    BY FoundType DEF When
  <2>3. RuleSensitiveColumns(q)
          = perColumn \o When(Has(q, "pii_literal"), Found("DIRECT_SENSITIVE", 7))
    BY DEF RuleSensitiveColumns
  <2> HIDE DEF perColumn
  <2>4. QED
    BY <2>1, <2>2, <2>3, ConcatProperties
<1>11. RuleDdlDestructive(q) \in Seq(RuleFinding)
  BY FoundType DEF When, RuleDdlDestructive
<1>12. RuleDclGrant(q) \in Seq(RuleFinding)
  BY FoundType DEF When, RuleDclGrant
<1>13. RuleSchemaIntrospect(q) \in Seq(RuleFinding)
  BY FoundType DEF When, RuleSchemaIntrospect
<1>14. QED
  BY <1>1, <1>2, <1>3, <1>4, <1>5, <1>6, <1>7, <1>8, <1>9, <1>10, <1>11, <1>12, <1>13

(* So do the three checkers, also when they fail.                          *)
LEMMA CheckersType ==
  ASSUME NEW q \in Statement, NEW down
  PROVE  /\ When("schema_sensitive" \notin down, SchemaSensitive(q)) \in Seq(RuleFinding)
         /\ When("schema_validator" \notin down, SchemaValidate(q)) \in Seq(RuleFinding)
         /\ When("ast_checker" \notin down, AstCheck(q)) \in Seq(RuleFinding)
<1> USE DEF RuleClasses, VulnClasses, Risks
<1>1. SchemaSensitive(q) \in Seq(RuleFinding)
  BY FoundType, ConcatProperties DEF When, SchemaSensitive
<1>2. SchemaValidate(q) \in Seq(RuleFinding)
  BY FoundType, ConcatProperties DEF When, SchemaValidate
<1>3. AstCheck(q) \in Seq(RuleFinding)
  <2>1. Found("PARSE_ERROR", 9) \in Seq(RuleFinding)
    BY FoundType
  <2>2. When(Has(q, "join_no_on"), Found("SLOW_QUERY", 7)) \in Seq(RuleFinding)
    BY FoundType DEF When
  <2>3. When(Has(q, "subquery_no_limit"), Found("NO_PAGINATION", 3)) \in Seq(RuleFinding)
    BY FoundType DEF When
  <2>4. QED
    BY <2>1, <2>2, <2>3, ConcatProperties DEF AstCheck
<1>4. QED
  BY <1>1, <1>2, <1>3 DEF When

(* A statement a person would call harmful whoever asked for it.           *)
BulkWrite(q) ==
  q.head \in {"update", "delete"} /\ (~Has(q, "where") \/ Has(q, "where_true"))
UnboundedDump(q) == q.head = "select" /\ q.marks \cap {"where", "limit", "aggregate"} = {}

(* Phase 1 finds something serious in it whatever else it finds and        *)
(* whichever of the three checkers fail (auditor.py:250-280).              *)
THEOREM HarmIsFound ==
  ASSUME NEW q \in Statement, NEW down
  PROVE  /\ RunPhase1(q, down) \in Seq(RuleFinding)
         /\ BulkWrite(q) \/ UnboundedDump(q) \/ Has(q, "ddl") \/ Has(q, "dcl") =>
              Serious(RunPhase1(q, down))
<1> DEFINE p1 == RuleSelectStar(q) \o RuleDmlNoWhere(q) \o RuleNoLimit(q)
                   \o RuleSlowQuery(q) \o RuleUnion(q)
           p2 == p1 \o RulePgSleep(q) \o RuleSecurityDefiner(q)
                   \o RulePlpgsqlConcat(q) \o RuleInjectionMarker(q)
           p3 == p2 \o RuleSensitiveColumns(q) \o RuleDdlDestructive(q)
                   \o RuleDclGrant(q) \o RuleSchemaIntrospect(q)
<1>1. p1 \in Seq(RuleFinding) /\ (Serious(RuleDmlNoWhere(q)) \/ Serious(RuleNoLimit(q)) => Serious(p1))
  BY RulesType, SeriousConcat5
<1> HIDE DEF p1
<1>2. p2 \in Seq(RuleFinding) /\ (Serious(p1) => Serious(p2))
  BY <1>1, RulesType, SeriousConcat5
<1> HIDE DEF p2
<1>3. /\ p3 \in Seq(RuleFinding)
      /\ Serious(p2) \/ Serious(RuleDdlDestructive(q)) \/ Serious(RuleDclGrant(q)) => Serious(p3)
  <2>1. /\ RuleSensitiveColumns(q) \in Seq(RuleFinding) /\ RuleDdlDestructive(q) \in Seq(RuleFinding)
        /\ RuleDclGrant(q) \in Seq(RuleFinding) /\ RuleSchemaIntrospect(q) \in Seq(RuleFinding)
    BY RulesType
  <2>2. QED
    BY <1>2, <2>1, SeriousConcat5
<1>4. PHASE1_RULES(q) = p3
  BY DEF PHASE1_RULES, p1, p2, p3
<1> HIDE DEF p3
<1> DEFINE x == When("schema_sensitive" \notin down, SchemaSensitive(q))
           y == When("schema_validator" \notin down, SchemaValidate(q))
           z == When("ast_checker" \notin down, AstCheck(q))
<1>5. x \in Seq(RuleFinding) /\ y \in Seq(RuleFinding) /\ z \in Seq(RuleFinding)
  BY CheckersType
<1>6. RunPhase1(q, down) = p3 \o x \o y \o z
  BY <1>4 DEF RunPhase1
<1> HIDE DEF x, y, z
<1>7. p3 \o x \in Seq(RuleFinding) /\ (Serious(p3) => Serious(p3 \o x))
  BY <1>3, <1>5, SeriousConcat
<1>8. p3 \o x \o y \in Seq(RuleFinding) /\ (Serious(p3 \o x) => Serious(p3 \o x \o y))
  BY <1>5, <1>7, SeriousConcat
<1>9. /\ p3 \o x \o y \o z \in Seq(RuleFinding)
      /\ Serious(p3 \o x \o y) => Serious(p3 \o x \o y \o z)
  BY <1>5, <1>8, SeriousConcat
<1>10. BulkWrite(q) => Serious(RuleDmlNoWhere(q))
  BY FoundType DEF When, BulkWrite, RuleDmlNoWhere, RuleClasses, VulnClasses, Risks, RISK_THRESHOLD
<1>11. UnboundedDump(q) => Serious(RuleNoLimit(q))
  BY FoundType DEF When, UnboundedDump, RuleNoLimit, RuleClasses, VulnClasses, Risks, RISK_THRESHOLD
<1>12. Has(q, "ddl") => Serious(RuleDdlDestructive(q))
  BY FoundType DEF When, RuleDdlDestructive, RuleClasses, VulnClasses, Risks, RISK_THRESHOLD
<1>13. Has(q, "dcl") => Serious(RuleDclGrant(q))
  BY FoundType DEF When, RuleDclGrant, RuleClasses, VulnClasses, Risks, RISK_THRESHOLD
<1>14. QED
  BY <1>1, <1>2, <1>3, <1>6, <1>7, <1>8, <1>9, <1>10, <1>11, <1>12, <1>13, Zenon

-----------------------------------------------------------------------------
(* The reflector.                                                          *)

(* The body of the loop "combined[l.rule_id] = l" after i new lessons.     *)
Body(prev, new, g, i) ==
  IF i = 0 THEN prev
  ELSE IF new[i] \in RuleIds(g[i - 1]) THEN g[i - 1] ELSE Append(g[i - 1], new[i])

Unfolds(prev, new, k, g) == g = [i \in 0..k |-> Body(prev, new, g, i)]

LEMMA CombineStepsExist ==
  ASSUME NEW prev, NEW new, NEW n \in Nat
  PROVE  \E g : Unfolds(prev, new, n, g)
<1> DEFINE P == {k \in 0..n : \E g : Unfolds(prev, new, k, g)}
<1>1. 0 \in P
  <2> DEFINE g == [i \in 0..0 |-> prev]
  <2>1. \A i \in 0..0 : Body(prev, new, g, i) = prev
    BY DEF Body
  <2>2. g = [i \in 0..0 |-> Body(prev, new, g, i)]
    BY <2>1
  <2>3. Unfolds(prev, new, 0, g)
    BY <2>2 DEF Unfolds
  <2>4. QED
    BY <2>3
<1>2. ASSUME NEW k \in 0..(n - 1), k \in P PROVE k + 1 \in P
  <2>1. PICK g : Unfolds(prev, new, k, g)
    BY <1>2
  <2> DEFINE h == [i \in 0..(k + 1) |->
                     IF i <= k THEN g[i] ELSE Body(prev, new, g, k + 1)]
  <2>2. ASSUME NEW i \in 0..k PROVE h[i] = Body(prev, new, h, i)
    <3>1. h[i] = g[i] /\ g[i] = Body(prev, new, g, i)
      BY <2>1 DEF Unfolds
    <3>2. i # 0 => h[i - 1] = g[i - 1]
      OBVIOUS
    <3> HIDE DEF h
    <3>3. QED
      BY <3>1, <3>2 DEF Body
  <2>3. h[k + 1] = Body(prev, new, h, k + 1)
    <3>1. h[k + 1] = Body(prev, new, g, k + 1) /\ h[k] = g[k]
      OBVIOUS
    <3> HIDE DEF h
    <3>2. QED
      BY <3>1 DEF Body
  <2>4. DOMAIN h = 0..(k + 1) /\ h = [i \in 0..(k + 1) |-> h[i]]
    OBVIOUS
  <2> HIDE DEF h
  <2>5. \A i \in 0..(k + 1) : h[i] = Body(prev, new, h, i)
    BY <2>2, <2>3
  <2>6. Unfolds(prev, new, k + 1, h)
    BY <2>4, <2>5 DEF Unfolds
  <2>7. QED
    BY <2>6
<1> HIDE DEF P
<1>3. 0..n \subseteq P
  BY <1>1, <1>2, InductionUpTo
<1>4. QED
  BY <1>3 DEF P

LEMMA CombineStepsUnfold ==
  ASSUME NEW prev, NEW new, Len(new) \in Nat
  PROVE  Unfolds(prev, new, Len(new), CombineSteps(prev, new))
<1>1. PICK g : Unfolds(prev, new, Len(new), g)
  BY CombineStepsExist
<1>2. QED
  BY <1>1, Zenon DEF CombineSteps, Unfolds, Body
-----------------------------------------------------------------------------
Distinct(s) == \A i, j \in DOMAIN s : s[i] = s[j] => i = j

(* After i new lessons the dict c holds distinct ids, old and new ones     *)
(* only; either nothing was added to it or a new lesson is its last.       *)
Combined(S, prev, new, c, i) ==
  /\ c \in Seq(S)
  /\ Distinct(c)
  /\ RuleIds(c) \subseteq RuleIds(prev) \cup RuleIds(new)
  /\ \/ c = prev /\ \A j \in 1..i : new[j] \in RuleIds(prev)
     \/ Len(c) > 0 /\ c[Len(c)] \in RuleIds(new)

(* One more lesson keeps all that.                                         *)
LEMMA CombineOne ==
  ASSUME NEW S, NEW prev \in Seq(S), NEW new \in Seq(S),
         NEW i \in 0..(Len(new) - 1), NEW c, Combined(S, prev, new, c, i)
  PROVE  /\ new[i + 1] \in RuleIds(c) => Combined(S, prev, new, c, i + 1)
         /\ new[i + 1] \notin RuleIds(c) =>
              Combined(S, prev, new, Append(c, new[i + 1]), i + 1)
<1> DEFINE x == new[i + 1]
<1>1. x \in S /\ x \in RuleIds(new) /\ c \in Seq(S) /\ i + 1 \in 1..Len(new)
  BY DEF Combined, RuleIds
<1>2. ASSUME x \in RuleIds(c) PROVE Combined(S, prev, new, c, i + 1)
  <2>1. CASE c = prev /\ \A j \in 1..i : new[j] \in RuleIds(prev)
    <3>1. \A j \in 1..(i + 1) : new[j] \in RuleIds(prev)
      BY <1>2, <2>1
    <3>2. QED
      BY <2>1, <3>1 DEF Combined
  <2>2. CASE Len(c) > 0 /\ c[Len(c)] \in RuleIds(new)
    BY <2>2 DEF Combined
  <2>3. QED
    BY <2>1, <2>2 DEF Combined
<1>3. ASSUME x \notin RuleIds(c) PROVE Combined(S, prev, new, Append(c, x), i + 1)
  <2> DEFINE d == Append(c, x)
  <2>1. /\ d \in Seq(S) /\ d # << >> /\ Len(d) = Len(c) + 1 /\ d[Len(d)] = x
        /\ Len(c) \in Nat /\ \A j \in 1..Len(c) : d[j] = c[j]
    BY <1>1, AppendProperties
  <2>2. DOMAIN d = 1..(Len(c) + 1) /\ DOMAIN c = 1..Len(c)
    BY <1>1, <2>1
  <2> HIDE DEF d, x
  <2>3. Distinct(d)
    <3>1. Distinct(c)
      BY DEF Combined
    <3>2. \A j \in 1..Len(c) : c[j] # x
      BY <1>3, <2>2 DEF RuleIds
    <3>3. QED
      BY <2>1, <2>2, <3>1, <3>2 DEF Distinct
  <2>4. RuleIds(d) \subseteq RuleIds(c) \cup {x}
    BY <2>1, <2>2 DEF RuleIds
  <2>5. Combined(S, prev, new, d, i + 1)
    BY <1>1, <2>1, <2>3, <2>4 DEF Combined
  <2>6. QED
    BY <2>5 DEF d
<1>4. QED
  BY <1>2, <1>3

LEMMA CombineAll ==
  ASSUME NEW S, NEW prev \in Seq(S), Distinct(prev), NEW new \in Seq(S)
  PROVE  Combined(S, prev, new, Combine(prev, new), Len(new))
<1> DEFINE C == CombineSteps(prev, new)
           P == {i \in 0..Len(new) : Combined(S, prev, new, C[i], i)}
<1>1. Len(new) \in Nat
  OBVIOUS
<1>2. \A i \in 0..Len(new) : C[i] = Body(prev, new, C, i)
  BY <1>1, CombineStepsUnfold DEF Unfolds
<1> HIDE DEF C
<1>3. 0 \in P
  BY <1>1, <1>2 DEF Body, Combined
<1>4. ASSUME NEW i \in 0..(Len(new) - 1), i \in P PROVE i + 1 \in P
  <2>1. Combined(S, prev, new, C[i], i)
    BY <1>4
  <2>2. i + 1 \in 0..Len(new) /\ i + 1 # 0 /\ (i + 1) - 1 = i
    BY <1>1
  <2>3. C[i + 1] = IF new[i + 1] \in RuleIds(C[i]) THEN C[i] ELSE Append(C[i], new[i + 1])
    BY <1>2, <2>2 DEF Body
  <2>4. Combined(S, prev, new, C[i + 1], i + 1)
    BY <2>1, <2>3, CombineOne
  <2>5. QED
    BY <2>2, <2>4
<1> HIDE DEF P
<1>5. 0..Len(new) \subseteq P
  BY <1>1, <1>3, <1>4, InductionUpTo
<1>6. Len(new) \in P
  BY <1>1, <1>5
<1>7. QED
  BY <1>6 DEF P, C, Combine
-----------------------------------------------------------------------------
(* list[-n:] keeps the order, the last element and at most n of them.      *)
LEMMA LastNProperties ==
  ASSUME NEW S, NEW s \in Seq(S), NEW n \in Nat \ {0}
  PROVE  \E k \in Nat :
           /\ LastN(s, n) \in Seq(S)
           /\ Len(LastN(s, n)) + k = Len(s)
           /\ Len(LastN(s, n)) <= n
           /\ k = 0 \/ Len(LastN(s, n)) = n
           /\ \A i \in 1..Len(LastN(s, n)) : LastN(s, n)[i] = s[i + k]
<1> DEFINE k == IF Len(s) > n THEN Len(s) - n ELSE 0
           t == SubSeq(s, k + 1, Len(s))
<1>1. /\ Len(s) \in Nat /\ k \in Nat /\ Len(s) - k <= n /\ k <= Len(s)
      /\ k = 0 \/ Len(s) - k = n
  OBVIOUS
<1>2. LastN(s, n) = t
  BY <1>1 DEF LastN
<1> HIDE DEF k
<1>3. \A i \in (k + 1)..Len(s) : s[i] \in S
  BY <1>1
<1>4. /\ t \in Seq(S)
      /\ Len(t) = IF k + 1 <= Len(s) THEN Len(s) - (k + 1) + 1 ELSE 0
      /\ \A i \in 1..(Len(s) - (k + 1) + 1) : t[i] = s[(k + 1) + i - 1]
  BY <1>1, <1>3, SubSeqProperties
<1> HIDE DEF t
<1>5. Len(t) = Len(s) - k
  BY <1>1, <1>4
<1>6. \A i \in 1..Len(t) : t[i] = s[i + k]
  <2>1. \A i \in 1..(Len(s) - k) : (k + 1) + i - 1 = i + k
    BY <1>1
  <2>2. QED
    BY <1>1, <1>4, <1>5, <2>1
<1>7. QED
  BY <1>1, <1>2, <1>4, <1>5, <1>6

LEMMA Windowed ==
  ASSUME NEW S, NEW s \in Seq(S)
  PROVE  \E k \in Nat :
           /\ LastN(s, Window) \in Seq(S)
           /\ Len(LastN(s, Window)) + k = Len(s)
           /\ Len(LastN(s, Window)) <= Window
           /\ k = 0 \/ Len(LastN(s, Window)) = Window
           /\ \A i \in 1..Len(LastN(s, Window)) : LastN(s, Window)[i] = s[i + k]
<1>1. Window \in Nat \ {0}
  BY WindowAssumption
<1>2. QED
  BY <1>1, LastNProperties

ClassesOf(vulns) == {vulns[i].class : i \in DOMAIN vulns}

(* A lesson list the generator can be given: distinct lessons, no more     *)
(* than the window holds.                                                  *)
Lessons(S) == {s \in Seq(S) : Distinct(s) /\ Len(s) <= Window}

(* Reflecting on findings yields a lesson list again, made of old lessons  *)
(* and of classes just found, at least one of them just found.             *)
THEOREM ReflectTeaches ==
  ASSUME NEW S, NEW vulns, Len(vulns) \in Nat \ {0}, DOMAIN vulns = 1..Len(vulns),
         \A i \in DOMAIN vulns : vulns[i].class \in S,
         NEW prev \in Lessons(S)
  PROVE  /\ Reflect(vulns, prev) \in Lessons(S)
         /\ Len(Reflect(vulns, prev)) > 0
         /\ RuleIds(Reflect(vulns, prev)) \subseteq RuleIds(prev) \cup ClassesOf(vulns)
         /\ RuleIds(Reflect(vulns, prev)) \cap ClassesOf(vulns) # {}
<1> DEFINE new == LessonsOf(vulns)
           c == Combine(prev, new)
           r == LastN(c, Window)
<1> USE WindowAssumption
<1>1. /\ new \in Seq(S) /\ Len(new) = Len(vulns) /\ DOMAIN new = DOMAIN vulns
      /\ \A i \in DOMAIN vulns : new[i] = vulns[i].class
  BY DEF LessonsOf
<1>2. RuleIds(new) = ClassesOf(vulns)
  BY <1>1 DEF RuleIds, ClassesOf
<1>3. prev \in Seq(S) /\ Distinct(prev) /\ Len(prev) \in Nat /\ Len(prev) <= Window
  BY DEF Lessons
<1> HIDE DEF new
<1>4. Combined(S, prev, new, c, Len(new))
  BY <1>1, <1>3, CombineAll
<1> HIDE DEF c
<1>5. c \in Seq(S) /\ Len(c) \in Nat /\ DOMAIN c = 1..Len(c) /\ Distinct(c)
  BY <1>4 DEF Combined
<1>6. PICK k \in Nat :
        /\ r \in Seq(S) /\ Len(r) + k = Len(c) /\ Len(r) <= Window
        /\ k = 0 \/ Len(r) = Window
        /\ \A i \in 1..Len(r) : r[i] = c[i + k]
  BY <1>5, Windowed
<1> HIDE DEF r
<1>7. /\ DOMAIN r = 1..Len(r) /\ Len(r) \in Nat
      /\ \A i \in 1..Len(r) : i + k \in 1..Len(c)
  BY <1>5, <1>6
<1>8. Len(c) > 0 => Len(r) > 0 /\ r[Len(r)] = c[Len(c)]
  <2>1. Len(c) > 0 => Len(r) > 0
    <3>1. Window \in Nat /\ Window # 0
      BY WindowAssumption
    <3>2. Len(r) + k = Len(c) /\ (k = 0 \/ Len(r) = Window)
      BY <1>6
    <3>3. Len(r) \in Nat /\ Len(c) \in Nat
      BY <1>5, <1>7
    <3>4. QED
      BY <3>1, <3>2, <3>3
  <2>2. Len(r) > 0 => Len(r) \in 1..Len(r)
    BY <1>7
  <2>3. QED
    BY <1>6, <2>1, <2>2
<1>9. RuleIds(r) \subseteq RuleIds(c)
  <2>1. \A i \in DOMAIN r : i + k \in DOMAIN c /\ r[i] = c[i + k]
    BY <1>5, <1>6, <1>7
  <2>2. QED
    BY <2>1 DEF RuleIds
<1>10. Distinct(r)
  <2>1. ASSUME NEW i \in DOMAIN r, NEW j \in DOMAIN r, r[i] = r[j] PROVE i = j
    <3>1. i + k \in DOMAIN c /\ j + k \in DOMAIN c /\ c[i + k] = c[j + k]
      BY <1>5, <1>6, <1>7, <2>1
    <3>2. i + k = j + k
      BY <1>5, <3>1 DEF Distinct
    <3>3. i \in Nat /\ j \in Nat
      BY <1>7
    <3>4. QED
      BY <3>2, <3>3
  <2>2. QED
    BY <2>1 DEF Distinct
<1>11. Len(r) > 0 /\ RuleIds(r) \cap RuleIds(new) # {}
  <2>1. CASE Len(c) > 0 /\ c[Len(c)] \in RuleIds(new)
    <3>1. Len(r) > 0 /\ r[Len(r)] = c[Len(c)]
      BY <1>8, <2>1
    <3>2. Len(r) \in DOMAIN r
      BY <1>7, <3>1
    <3>3. r[Len(r)] \in RuleIds(r)
      BY <3>2 DEF RuleIds
    <3>4. QED
      BY <2>1, <3>1, <3>3
  <2>2. CASE c = prev /\ \A j \in 1..Len(new) : new[j] \in RuleIds(prev)
    <3>1. new[1] \in RuleIds(prev) /\ new[1] \in RuleIds(new)
      BY <1>1, <2>2 DEF RuleIds
    <3>2. PICK j \in DOMAIN prev : prev[j] = new[1]
      BY <3>1 DEF RuleIds
    <3>3. j \in 1..Len(c) /\ k = 0
      BY <1>3, <1>5, <1>6, <2>2, <3>2
    <3>4. j \in 1..Len(r) /\ r[j] = new[1]
      BY <1>5, <1>6, <2>2, <3>2, <3>3
    <3>5. r[j] \in RuleIds(r) /\ Len(r) > 0
      BY <1>7, <3>4 DEF RuleIds
    <3>6. QED
      BY <3>1, <3>4, <3>5
  <2>3. QED
    BY <1>4, <2>1, <2>2 DEF Combined
<1>12. Len(r) <= Window
  BY <1>5, <1>6
<1>13. RuleIds(r) \subseteq RuleIds(prev) \cup RuleIds(new)
  BY <1>4, <1>9 DEF Combined
<1>14. Reflect(vulns, prev) = r
  BY DEF Reflect, r, c, new
<1>15. QED
  BY <1>2, <1>6, <1>10, <1>11, <1>12, <1>13, <1>14 DEF Lessons

-----------------------------------------------------------------------------
(* The loop.                                                               *)

(* How far the history and the log have come at each place of run().       *)
Position ==
  /\ pc = "loop" => Len(sql_history) = it /\ Len(iterations_log) = it
  /\ pc = "generating" =>
       it > 0 /\ Len(sql_history) = it - 1 /\ Len(iterations_log) = it - 1
  /\ pc = "auditing" =>
       it > 0 /\ Len(sql_history) = it /\ Len(iterations_log) = it - 1
  /\ pc \in {"exit", "done"} => it > 0 /\ Len(iterations_log) = it

(* The log is the history with verdicts; last_* are those of its end.      *)
LogAndHistory ==
  /\ pc \in {"loop", "generating", "auditing"} =>
       \A i \in 1..Len(iterations_log) : sql_history[i] = iterations_log[i].sql
  /\ pc = "auditing" => HasSqlKeyword(sql_history[it]) /\ sql_history[it] \in Statements
  /\ Len(iterations_log) = 0 => last_sql = EmptyText /\ last_audit = NoAudit
  /\ Len(iterations_log) > 0 =>
       /\ last_sql = iterations_log[Len(iterations_log)].sql
       /\ last_audit = iterations_log[Len(iterations_log)].audit

(* An approved attempt is harmless, a rejected one comes with findings.    *)
SoundVerdict(entry) ==
  /\ entry.audit.approved => ~Harmful(entry.sql)
  /\ ~entry.audit.approved => Len(entry.audit.vulns) \in Nat \ {0}

Settles(entry) == entry.audit.approved \/ entry.audit = NotAQuery

(* Only the last attempt settles the matter, and then the loop is left.    *)
Verdicts ==
  /\ \A i \in 1..Len(iterations_log) : SoundVerdict(iterations_log[i])
  /\ \A i \in 1..Len(iterations_log) :
       Settles(iterations_log[i]) =>
         i = Len(iterations_log) /\ pc \in {"exit", "done"}
  /\ pc = "exit" => Settles(iterations_log[Len(iterations_log)])
  /\ pc = "done" =>
       Settles(iterations_log[Len(iterations_log)]) \/ Len(iterations_log) = Limit

ClassesSeen == UNION {ClassesFound(iterations_log[k]) : k \in DOMAIN iterations_log}

(* The lessons are what the generator is to be taught next.                *)
LessonsLearnt ==
  /\ reflection \in Lessons(VulnClasses)
  /\ RuleIds(reflection) \subseteq ClassesSeen
  /\ pc = "loop" /\ Len(iterations_log) > 0 =>
       /\ Len(reflection) > 0
       /\ RuleIds(reflection) \cap ClassesFound(iterations_log[Len(iterations_log)]) # {}

ResultInv ==
  /\ pc # "done" => result = << >>
  /\ pc = "done" => result = << SystemResult >>

IInv ==
  /\ TypeOK
  /\ Position
  /\ LogAndHistory
  /\ Verdicts
  /\ LessonsLearnt
  /\ RetryShowsTheRejectedAttempt
  /\ PromptTeaches
  /\ ResultInv
-----------------------------------------------------------------------------
LEMMA LimitType == Limit \in Nat \ {0}
  BY LimitAssumption DEF Limit, DEFAULT_MAX_ITERATIONS

LEMMA ConstantTypes ==
  /\ EmptyText \in Statement
  /\ NoAudit \in AuditResult
  /\ NotAQuery \in AuditResult
  /\ Len(NotAQuery.vulns) = 1
  /\ NotAQuery.vulns[1].class = "NOT_A_QUERY"
  /\ ~NotAQuery.approved /\ ~NoAudit.approved
  /\ NoAudit.vulns = << >>
<1>1. EmptyText \in Statement
  BY DEF EmptyText, Statement, Heads, Categories
<1>2. NoAudit \in AuditResult
  BY DEF NoAudit, AuditResult, Risks
<1>3. NotAQuery.vulns = << [class |-> "NOT_A_QUERY", risk |-> 10] >>
  BY DEF NotAQuery, Found
<1>4. NotAQuery.vulns \in Seq(Finding)
  BY <1>3 DEF Finding, VulnClasses, Risks
<1>5. NotAQuery \in AuditResult
  BY <1>4 DEF NotAQuery, AuditResult, Risks
<1>6. ~NotAQuery.approved /\ ~NoAudit.approved /\ NoAudit.vulns = << >>
  BY DEF NotAQuery, NoAudit
<1>7. QED
  BY <1>1, <1>2, <1>3, <1>5, <1>6

(* What an audit of the statement q can return, whatever fails.            *)
LEMMA AuditsOf ==
  ASSUME NEW q \in Statement, HasSqlKeyword(q), NEW down, NEW audit,
         audit = Audit(RunPhase1(q, down))
  PROVE  /\ audit \in AuditResult
         /\ audit # NotAQuery
         /\ audit.approved => ~Harmful(q)
         /\ ~audit.approved => Len(audit.vulns) \in Nat \ {0}
<1> DEFINE findings == RunPhase1(q, down)
<1>1. /\ findings \in Seq(RuleFinding)
      /\ BulkWrite(q) \/ UnboundedDump(q) \/ Has(q, "ddl") \/ Has(q, "dcl") =>
           Serious(findings)
  BY HarmIsFound
<1> HIDE DEF findings
<1>2. /\ audit \in AuditResult
      /\ Serious(findings) => ~audit.approved
      /\ ~audit.approved => Len(findings) \in Nat \ {0}
      /\ audit.vulns = findings
  BY <1>1, AuditType DEF findings
<1>3. Harmful(q) => Serious(findings)
  BY <1>1 DEF Harmful, HasSqlKeyword, BulkWrite, UnboundedDump
<1>4. audit # NotAQuery
  <2>1. SUFFICES ASSUME findings = NotAQuery.vulns PROVE FALSE
    BY <1>2
  <2>2. 1 \in DOMAIN findings /\ findings[1].class = "NOT_A_QUERY"
    BY <1>1, <2>1, ConstantTypes
  <2>3. findings[1].class \in RuleClasses
    BY <1>1, <2>2, RiskOfFinding
  <2>4. QED
    BY <2>2, <2>3 DEF RuleClasses
<1>5. QED
  BY <1>2, <1>3, <1>4

LEMMA InitInv == Init => IInv
<1> SUFFICES ASSUME Init PROVE IInv
  OBVIOUS
<1> USE DEF Init
<1>1. TypeOK
  BY LimitType, ConstantTypes DEF TypeOK, Pcs, NoRetry
<1>2. Position
  BY DEF Position
<1>3. LogAndHistory
  BY DEF LogAndHistory
<1>4. Verdicts
  BY DEF Verdicts
<1>5. LessonsLearnt
  BY WindowAssumption DEF LessonsLearnt, Lessons, Distinct, RuleIds
<1>6. RetryShowsTheRejectedAttempt /\ PromptTeaches /\ ResultInv
  BY DEF RetryShowsTheRejectedAttempt, PromptTeaches, ResultInv
<1>7. QED
  BY <1>1, <1>2, <1>3, <1>4, <1>5, <1>6 DEF IInv
-----------------------------------------------------------------------------
(* What the invariant says of the sequences, in a form the provers use.    *)
LEMMA LogTypes ==
  ASSUME TypeOK
  PROVE  /\ Len(iterations_log) \in Nat
         /\ DOMAIN iterations_log = 1..Len(iterations_log)
         /\ \A i \in 1..Len(iterations_log) :
              /\ iterations_log[i] \in LogEntry
              /\ iterations_log[i].sql \in Statement
              /\ iterations_log[i].audit \in AuditResult
              /\ iterations_log[i].audit.vulns \in Seq(Finding)
              /\ iterations_log[i].audit.approved \in BOOLEAN
         /\ Len(sql_history) \in Nat
         /\ \A i \in 1..Len(sql_history) : sql_history[i] \in Statement
<1>1. iterations_log \in Seq(LogEntry) /\ sql_history \in Seq(Statement)
  BY DEF TypeOK
<1>2. \A i \in 1..Len(iterations_log) : iterations_log[i] \in LogEntry
  BY <1>1
<1>3. QED
  BY <1>1, <1>2 DEF LogEntry, AuditResult

LEMMA StartIterationInv ==
  ASSUME IInv, StartIteration
  PROVE  IInv'
<1> USE DEF StartIteration
<1>1. TypeOK /\ Position /\ LogAndHistory /\ Verdicts /\ LessonsLearnt
  BY DEF IInv
<1>2. /\ it \in Nat /\ it + 1 \in 1..Limit /\ Limit \in Nat
      /\ Len(sql_history) = it /\ Len(iterations_log) = it
  BY <1>1, LimitType DEF TypeOK, Position, MoreIterations
<1>3. it = 0 => RetryBlock(sql_history, last_audit) = NoRetry
  BY <1>1, <1>2 DEF LogAndHistory, RetryBlock
<1>4. ASSUME it > 0
      PROVE  /\ RetryBlock(sql_history, last_audit) =
                   [shown |-> TRUE, sql |-> iterations_log[it].sql,
                    problems |-> iterations_log[it].audit.vulns]
             /\ iterations_log[it].audit.vulns # << >>
  <2>1. /\ last_audit = iterations_log[it].audit /\ it \in 1..Len(iterations_log)
        /\ sql_history[it] = iterations_log[it].sql
    BY <1>1, <1>2, <1>4 DEF LogAndHistory
  <2>2. ~iterations_log[it].audit.approved
    BY <1>1, <2>1 DEF Verdicts, Settles
  <2>3. Len(iterations_log[it].audit.vulns) \in Nat \ {0}
    BY <1>1, <2>1, <2>2 DEF Verdicts, SoundVerdict
  <2>4. iterations_log[it].audit.vulns # << >>
    BY <2>3
  <2>5. last_audit # NoAudit
    BY <2>1, <2>4, ConstantTypes
  <2>6. sql_history # << >> /\ LastOf(sql_history) = sql_history[it]
    BY <1>2, <1>4 DEF LastOf
  <2>7. QED
    BY <2>1, <2>2, <2>4, <2>5, <2>6 DEF RetryBlock
<1>5. TypeOK'
  <2>1. RetryBlock(sql_history, last_audit)
          \in [shown : BOOLEAN, sql : Statement, problems : Seq(Finding)]
    <3>1. CASE it = 0
      <4>1. NoRetry \in [shown : BOOLEAN, sql : Statement, problems : Seq(Finding)]
        BY ConstantTypes DEF NoRetry
      <4>2. QED
        BY <1>3, <3>1, <4>1, Zenon
    <3>2. CASE it > 0
      <4>1. it \in 1..Len(iterations_log)
        BY <1>2, <3>2
      <4>2. /\ iterations_log[it].sql \in Statement
            /\ iterations_log[it].audit.vulns \in Seq(Finding)
        BY <1>1, <4>1, LogTypes
      <4>3. [shown |-> TRUE, sql |-> iterations_log[it].sql,
             problems |-> iterations_log[it].audit.vulns]
               \in [shown : BOOLEAN, sql : Statement, problems : Seq(Finding)]
        BY <4>2
      <4>4. QED
        BY <1>4, <3>2, <4>3
    <3>3. QED
      BY <1>2, <3>1, <3>2
  <2>2. reflection \in Seq(VulnClasses)
    BY <1>1 DEF TypeOK
  <2>3. QED
    BY <1>1, <1>2, <2>1, <2>2 DEF TypeOK, Pcs
<1>6. Position'
  BY <1>2 DEF Position
<1>7. LogAndHistory'
  BY <1>1 DEF LogAndHistory
<1>8. Verdicts'
  BY <1>1 DEF Verdicts
<1>9. LessonsLearnt'
  BY <1>1 DEF LessonsLearnt, ClassesSeen
<1>10. RetryShowsTheRejectedAttempt'
  BY <1>2, <1>3, <1>4 DEF RetryShowsTheRejectedAttempt
<1>11. PromptTeaches'
  <2>1. SUFFICES ASSUME it > 0 PROVE PromptTeaches'
    BY <1>2 DEF PromptTeaches
  <2>2. /\ Len(reflection) > 0 /\ reflection \in Lessons(VulnClasses)
        /\ RuleIds(reflection) \cap ClassesFound(iterations_log[it]) # {}
        /\ RuleIds(reflection) \subseteq ClassesSeen
    BY <1>1, <1>2, <2>1 DEF LessonsLearnt
  <2>3. Len(reflection) \in 1..Window
    BY <2>2, WindowAssumption DEF Lessons
  <2>4. Distinct(reflection)
    BY <2>2 DEF Lessons
  <2>5. (it + 1) - 1 = it
    BY <1>2
  <2>6. QED
    BY <2>2, <2>3, <2>4, <2>5 DEF PromptTeaches, Distinct, ClassesSeen
<1>12. ResultInv'
  BY DEF IInv, ResultInv
<1>13. QED
  BY <1>5, <1>6, <1>7, <1>8, <1>9, <1>10, <1>11, <1>12 DEF IInv

LEMMA GenerateSqlInv ==
  ASSUME IInv, NEW q \in Statements, GenerateSql(q)
  PROVE  IInv'
<1> USE DEF GenerateSql
<1>1. TypeOK /\ Position /\ LogAndHistory /\ Verdicts /\ LessonsLearnt
  BY DEF IInv
<1>2. q \in Statement /\ it \in Nat /\ it > 0
  BY <1>1, StatementsAssumption DEF TypeOK, Position
<1>3. /\ sql_history' \in Seq(Statement)
      /\ Len(sql_history') = it /\ sql_history'[it] = q
      /\ Len(iterations_log) = it - 1
      /\ \A i \in 1..(it - 1) : sql_history'[i] = sql_history[i]
  BY <1>1, <1>2, AppendProperties DEF TypeOK, Position
<1>4. TypeOK'
  BY <1>1, <1>3 DEF TypeOK, Pcs
<1>5. Position'
  BY <1>2, <1>3 DEF Position
<1>6. LogAndHistory'
  BY <1>1, <1>3 DEF LogAndHistory
<1>7. Verdicts'
  BY <1>1 DEF Verdicts
<1>8. LessonsLearnt'
  BY <1>1 DEF LessonsLearnt, ClassesSeen
<1>9. RetryShowsTheRejectedAttempt' /\ PromptTeaches' /\ ResultInv'
  BY DEF IInv, RetryShowsTheRejectedAttempt, PromptTeaches, ResultInv
<1>10. QED
  BY <1>4, <1>5, <1>6, <1>7, <1>8, <1>9 DEF IInv

(* One more entry in the log.                                              *)
LEMMA AppendEntry ==
  ASSUME TypeOK, NEW entry \in LogEntry, iterations_log' = Append(iterations_log, entry)
  PROVE  /\ iterations_log' \in Seq(LogEntry)
         /\ Len(iterations_log') = Len(iterations_log) + 1
         /\ \A i \in 1..Len(iterations_log) : iterations_log'[i] = iterations_log[i]
         /\ iterations_log'[Len(iterations_log) + 1] = entry
         /\ DOMAIN iterations_log' = 1..(Len(iterations_log) + 1)
         /\ ClassesSeen \subseteq ClassesSeen'
         /\ ClassesFound(entry) \subseteq ClassesSeen'
<1>1. iterations_log \in Seq(LogEntry)
  BY DEF TypeOK
<1>2. /\ iterations_log' \in Seq(LogEntry)
      /\ Len(iterations_log') = Len(iterations_log) + 1
      /\ \A i \in 1..Len(iterations_log) : iterations_log'[i] = iterations_log[i]
      /\ iterations_log'[Len(iterations_log) + 1] = entry
  BY <1>1, AppendProperties
<1>3. /\ DOMAIN iterations_log = 1..Len(iterations_log) /\ Len(iterations_log) \in Nat
      /\ DOMAIN iterations_log' = 1..(Len(iterations_log) + 1)
  BY <1>1, <1>2
<1>4. ClassesSeen' = UNION {ClassesFound(iterations_log'[k]) : k \in DOMAIN iterations_log'}
  BY DEF ClassesSeen, ClassesFound
<1>5. ASSUME NEW k \in DOMAIN iterations_log
      PROVE  ClassesFound(iterations_log[k]) \subseteq ClassesSeen'
  <2>1. k \in DOMAIN iterations_log' /\ iterations_log'[k] = iterations_log[k]
    BY <1>2, <1>3
  <2>2. QED
    BY <1>4, <2>1
<1>6. ClassesSeen \subseteq ClassesSeen'
  BY <1>5 DEF ClassesSeen
<1>7. ClassesFound(entry) \subseteq ClassesSeen'
  <2>1. Len(iterations_log) + 1 \in DOMAIN iterations_log'
    BY <1>3
  <2>2. QED
    BY <1>2, <1>4, <2>1
<1>8. QED
  BY <1>2, <1>3, <1>6, <1>7

LEMMA GenerateProseInv ==
  ASSUME IInv, NEW q \in Statements, GenerateProse(q)
  PROVE  IInv'
<1> USE DEF GenerateProse
<1> DEFINE entry == [sql |-> q, audit |-> NotAQuery]
<1>1. TypeOK /\ Position /\ LogAndHistory /\ Verdicts /\ LessonsLearnt
  BY DEF IInv
<1>2. q \in Statement /\ it \in Nat /\ it > 0 /\ Len(iterations_log) = it - 1
  BY <1>1, StatementsAssumption DEF TypeOK, Position
<1>3. entry \in LogEntry
  BY <1>2, ConstantTypes DEF LogEntry
<1>4. /\ iterations_log' \in Seq(LogEntry)
      /\ Len(iterations_log') = it
      /\ \A i \in 1..(it - 1) : iterations_log'[i] = iterations_log[i]
      /\ iterations_log'[it] = entry
      /\ ClassesSeen \subseteq ClassesSeen'
  BY <1>1, <1>2, <1>3, AppendEntry
<1>5. sql_history' \in Seq(Statement)
  BY <1>1, <1>2, AppendProperties DEF TypeOK
<1>6. TypeOK'
  BY <1>1, <1>2, <1>4, <1>5, ConstantTypes DEF TypeOK, Pcs
<1>7. Position'
  BY <1>2, <1>4 DEF Position
<1>8. LogAndHistory'
  BY <1>2, <1>4 DEF LogAndHistory
<1>9. Verdicts'
  <2>1. SoundVerdict(entry) /\ Settles(entry)
    BY ConstantTypes DEF SoundVerdict, Settles
  <2>2. \A i \in 1..(it - 1) : SoundVerdict(iterations_log[i]) /\ ~Settles(iterations_log[i])
    BY <1>1, <1>2 DEF Verdicts
  <2>3. \A i \in 1..it : i = it \/ i \in 1..(it - 1)
    BY <1>2
  <2> HIDE DEF entry
  <2>4. QED
    BY <1>2, <1>4, <2>1, <2>2, <2>3 DEF Verdicts
<1>10. LessonsLearnt'
  BY <1>1, <1>4 DEF LessonsLearnt
<1>11. RetryShowsTheRejectedAttempt' /\ PromptTeaches' /\ ResultInv'
  BY DEF IInv, RetryShowsTheRejectedAttempt, PromptTeaches, ResultInv
<1>12. QED
  BY <1>6, <1>7, <1>8, <1>9, <1>10, <1>11 DEF IInv

(* The exceptions, and the return.                                         *)
LEMMA RaisesInv ==
  ASSUME IInv, GeneratorRaises \/ JudgeRaises
  PROVE  IInv'
<1>1. /\ pc' = "raised" /\ pc # "done"
      /\ UNCHANGED << it, sql_history, iterations_log, reflection, last_sql,
                      last_audit, prompt, events, result >>
  BY DEF GeneratorRaises, JudgeRaises
<1>2. TypeOK'
  BY <1>1 DEF IInv, TypeOK, Pcs
<1>3. Position' /\ LogAndHistory' /\ ResultInv'
  BY <1>1 DEF IInv, Position, LogAndHistory, ResultInv
<1>4. Verdicts'
  <2>1. pc \in {"generating", "auditing"}
    BY DEF GeneratorRaises, JudgeRaises
  <2>2. QED
    BY <1>1, <2>1 DEF IInv, Verdicts
<1>5. LessonsLearnt'
  BY <1>1 DEF IInv, LessonsLearnt, ClassesSeen
<1>6. RetryShowsTheRejectedAttempt' /\ PromptTeaches'
  BY <1>1 DEF RetryShowsTheRejectedAttempt, PromptTeaches
<1>7. QED
  BY <1>2, <1>3, <1>4, <1>5, <1>6 DEF IInv

LEMMA ReturnInv ==
  ASSUME IInv, Return
  PROVE  IInv'
<1> USE DEF Return
<1>1. TypeOK /\ Position /\ LogAndHistory /\ Verdicts /\ LessonsLearnt
  BY DEF IInv
<1>2. Len(iterations_log) = it /\ it > 0 /\ (pc = "loop" => it = Limit)
  BY <1>1, LimitType DEF Position, LoopLeft
<1>3. TypeOK'
  <2>1. Len(result') = 1
    OBVIOUS
  <2>2. QED
    BY <1>1, <2>1 DEF TypeOK, Pcs
<1>4. Position'
  BY <1>2 DEF Position
<1>5. LogAndHistory'
  BY <1>1 DEF LogAndHistory
<1>6. Verdicts'
  BY <1>1, <1>2 DEF Verdicts, LoopLeft
<1>7. LessonsLearnt'
  BY <1>1 DEF LessonsLearnt, ClassesSeen
<1>8. RetryShowsTheRejectedAttempt' /\ PromptTeaches'
  BY DEF RetryShowsTheRejectedAttempt, PromptTeaches
<1>9. ResultInv'
  BY DEF ResultInv, SystemResult
<1>10. QED
  BY <1>3, <1>4, <1>5, <1>6, <1>7, <1>8, <1>9 DEF IInv

LEMMA AuditInv ==
  ASSUME IInv, pc = "auditing", NEW down,
         NEW audit, audit = Audit(RunPhase1(LastOf(sql_history), down)),
         AuditAndReflect(audit)
  PROVE  IInv'
<1> DEFINE q == LastOf(sql_history)
           entry == [sql |-> q, audit |-> audit]
<1>1. TypeOK /\ Position /\ LogAndHistory /\ Verdicts /\ LessonsLearnt
  BY DEF IInv
<1>2. it \in Nat /\ it > 0 /\ Len(sql_history) = it /\ Len(iterations_log) = it - 1
  BY <1>1 DEF TypeOK, Position
<1>3. q \in Statement /\ HasSqlKeyword(q) /\ q = sql_history[it]
  BY <1>1, <1>2, LogTypes DEF LastOf, LogAndHistory
<1>4. /\ audit \in AuditResult
      /\ audit # NotAQuery
      /\ audit.approved => ~Harmful(q)
      /\ ~audit.approved => Len(audit.vulns) \in Nat \ {0}
  BY <1>3, AuditsOf
<1>5. /\ last_sql' = q /\ last_audit' = audit
      /\ iterations_log' = Append(iterations_log, entry)
      /\ UNCHANGED << it, sql_history, prompt, result >>
  BY DEF AuditAndReflect, LogAudit
<1>6. pc' = IF audit.approved THEN "exit" ELSE "loop"
  BY DEF AuditAndReflect, AfterAudit
<1>7. reflection' = IF audit.approved THEN reflection ELSE Reflect(audit.vulns, reflection)
  BY DEF AuditAndReflect
<1>8. entry \in LogEntry
  BY <1>3, <1>4 DEF LogEntry
<1> HIDE DEF q, entry
<1>9. /\ iterations_log' \in Seq(LogEntry)
      /\ Len(iterations_log') = it
      /\ \A i \in 1..(it - 1) : iterations_log'[i] = iterations_log[i]
      /\ iterations_log'[it] = entry
      /\ ClassesSeen \subseteq ClassesSeen'
      /\ ClassesFound(entry) \subseteq ClassesSeen'
  BY <1>1, <1>2, <1>5, <1>8, AppendEntry
<1>10. entry.sql = q /\ entry.audit = audit
  BY DEF entry
<1>11. /\ reflection' \in Lessons(VulnClasses)
       /\ RuleIds(reflection') \subseteq RuleIds(reflection) \cup ClassesFound(entry)
       /\ ~audit.approved =>
            /\ Len(reflection') > 0
            /\ RuleIds(reflection') \cap ClassesFound(entry) # {}
  <2>1. reflection \in Lessons(VulnClasses)
    BY <1>1 DEF LessonsLearnt
  <2>2. CASE audit.approved
    BY <1>7, <2>1, <2>2
  <2>3. CASE ~audit.approved
    <3>1. audit.vulns \in Seq(Finding)
      BY <1>4 DEF AuditResult
    <3>2. Len(audit.vulns) \in Nat \ {0} /\ DOMAIN audit.vulns = 1..Len(audit.vulns)
      BY <1>4, <2>3, <3>1
    <3>3. \A i \in DOMAIN audit.vulns : audit.vulns[i].class \in VulnClasses
      <4>1. \A i \in DOMAIN audit.vulns : audit.vulns[i] \in Finding
        BY <3>1
      <4>2. QED
        BY <4>1 DEF Finding
    <3>4. ClassesOf(audit.vulns) = ClassesFound(entry)
      BY <1>10 DEF ClassesOf, ClassesFound
    <3>5. reflection' = Reflect(audit.vulns, reflection)
      BY <1>7, <2>3
    <3>6. QED
      BY <2>1, <2>3, <3>2, <3>3, <3>4, <3>5, ReflectTeaches
  <2>4. QED
    BY <2>2, <2>3
<1>12. TypeOK'
  <2>1. reflection' \in Seq(VulnClasses)
    BY <1>11 DEF Lessons
  <2>2. pc' \in Pcs
    BY <1>6 DEF Pcs
  <2>3. QED
    BY <1>1, <1>3, <1>4, <1>5, <1>9, <2>1, <2>2 DEF TypeOK
<1>13. Position'
  BY <1>2, <1>5, <1>6, <1>9 DEF Position
<1>14. LogAndHistory'
  <2>1. \A i \in 1..it : sql_history[i] = iterations_log'[i].sql
    <3>1. \A i \in 1..(it - 1) : sql_history[i] = iterations_log[i].sql
      BY <1>1, <1>2 DEF LogAndHistory
    <3>2. \A i \in 1..it : i = it \/ i \in 1..(it - 1)
      BY <1>2
    <3>3. QED
      BY <1>3, <1>9, <1>10, <3>1, <3>2
  <2>2. pc' # "auditing"
    BY <1>6
  <2>3. QED
    BY <1>2, <1>5, <1>9, <1>10, <2>1, <2>2 DEF LogAndHistory
<1>15. Verdicts'
  <2>1. SoundVerdict(entry)
    BY <1>4, <1>10 DEF SoundVerdict
  <2>2. Settles(entry) <=> audit.approved
    BY <1>4, <1>10 DEF Settles
  <2>3. \A i \in 1..(it - 1) : SoundVerdict(iterations_log[i]) /\ ~Settles(iterations_log[i])
    BY <1>1, <1>2 DEF Verdicts
  <2>4. \A i \in 1..it : i = it \/ i \in 1..(it - 1)
    BY <1>2
  <2>5. QED
    BY <1>2, <1>6, <1>9, <2>1, <2>2, <2>3, <2>4 DEF Verdicts
<1>16. LessonsLearnt'
  <2>1. RuleIds(reflection') \subseteq ClassesSeen'
    BY <1>1, <1>9, <1>11 DEF LessonsLearnt
  <2>2. pc' = "loop" =>
          Len(reflection') > 0 /\ RuleIds(reflection') \cap ClassesFound(iterations_log'[it]) # {}
    BY <1>6, <1>9, <1>11
  <2>3. QED
    BY <1>9, <1>11, <2>1, <2>2 DEF LessonsLearnt
<1>17. RetryShowsTheRejectedAttempt' /\ PromptTeaches'
  BY <1>6 DEF RetryShowsTheRejectedAttempt, PromptTeaches
<1>18. ResultInv'
  BY <1>5, <1>6 DEF IInv, ResultInv
<1>19. QED
  BY <1>12, <1>13, <1>14, <1>15, <1>16, <1>17, <1>18 DEF IInv

LEMMA StutterInv == ASSUME IInv, UNCHANGED vars PROVE IInv'
  BY DEF vars, IInv, TypeOK, Position, LogAndHistory, Verdicts, LessonsLearnt,
         ClassesSeen, RetryShowsTheRejectedAttempt, PromptTeaches, ResultInv, SystemResult

LEMMA NextInv == IInv /\ [Next]_vars => IInv'
<1> SUFFICES ASSUME IInv, [Next]_vars PROVE IInv'
  OBVIOUS
<1>1. CASE StartIteration
  BY <1>1, StartIterationInv
<1>2. CASE \E q \in Statements : GenerateSql(q) \/ GenerateProse(q)
  BY <1>2, GenerateSqlInv, GenerateProseInv
<1>3. CASE AuditSql
  <2>1. PICK audit \in {Audit(findings) : findings \in PossibleFindings} : AuditAndReflect(audit)
    BY <1>3 DEF AuditSql
  <2>2. PICK down \in Outages : audit = Audit(RunPhase1(LastOf(sql_history), down))
    BY <2>1 DEF PossibleFindings
  <2>3. QED
    BY <1>3, <2>1, <2>2, AuditInv DEF AuditSql
<1>4. CASE GeneratorRaises \/ JudgeRaises
  BY <1>4, RaisesInv
<1>5. CASE Return
  BY <1>5, ReturnInv
<1>6. CASE UNCHANGED vars
  BY <1>6, StutterInv
<1>7. QED
  BY <1>1, <1>2, <1>3, <1>4, <1>5, <1>6 DEF Next

(* The inductive invariant holds, whatever the constants.                  *)
THEOREM Inductive == Spec => []IInv
  BY InitInv, NextInv, PTL DEF Spec

(* Type correctness.                                                       *)
THEOREM TypeCorrect == Spec => []TypeOK
<1>1. IInv => TypeOK
  BY DEF IInv
<1>2. QED
  BY <1>1, Inductive, PTL

LEMMA AnswerFromInv == ASSUME IInv PROVE AnswerIsTheLastAttempt
<1> SUFFICES ASSUME pc = "done" PROVE AnswerIsTheLastAttempt
  BY DEF AnswerIsTheLastAttempt
<1> DEFINE n == Len(iterations_log)
<1>1. TypeOK /\ Position /\ LogAndHistory /\ Verdicts
  BY DEF IInv
<1>2. result = << SystemResult >>
  BY DEF IInv, ResultInv
<1>3. n = it /\ n \in 1..Limit /\ DOMAIN iterations_log = 1..n
  BY <1>1, LimitType, LogTypes DEF Position, TypeOK
<1>4. last_sql = iterations_log[n].sql /\ last_audit = iterations_log[n].audit
  BY <1>1, <1>3 DEF LogAndHistory
<1>5. /\ SystemResult.iterations_used = n
      /\ SystemResult.final_sql = last_sql
      /\ SystemResult.approved = last_audit.approved
      /\ SystemResult.early_exit = NonSqlExit(iterations_log)
  BY DEF SystemResult
<1>6. \A i \in 1..(n - 1) : ~iterations_log[i].audit.approved
  <2>1. \A i \in 1..(n - 1) : i \in 1..n /\ i # n
    BY <1>3
  <2>2. QED
    BY <1>1, <2>1 DEF Verdicts, Settles
<1>7. ASSUME ~iterations_log[n].audit.approved
      PROVE  n = Limit \/ NonSqlExit(iterations_log)
  <2>1. iterations_log[n].audit = NotAQuery \/ n = Limit
    BY <1>1, <1>7 DEF Verdicts, Settles
  <2>2. ASSUME iterations_log[n].audit = NotAQuery PROVE NonSqlExit(iterations_log)
    <3>1. n \in DOMAIN iterations_log
      BY <1>3
    <3>2. NotAQuery.vulns = << [class |-> "NOT_A_QUERY", risk |-> 10] >>
      BY DEF NotAQuery, Found
    <3>3. 1 \in DOMAIN iterations_log[n].audit.vulns
          /\ iterations_log[n].audit.vulns[1].class = "NOT_A_QUERY"
      BY <2>2, <3>2
    <3>4. QED
      BY <3>1, <3>3 DEF NonSqlExit
  <2>3. QED
    BY <2>1, <2>2
<1>8. result[1] = SystemResult
  BY <1>2
<1> HIDE DEF n
<1>9. QED
  BY <1>3, <1>4, <1>5, <1>6, <1>7, <1>8 DEF AnswerIsTheLastAttempt, n

(* The answer is the last attempt, with that attempt's own verdict.        *)
THEOREM AnswerCorrect == Spec => []AnswerIsTheLastAttempt
<1>1. IInv => AnswerIsTheLastAttempt
  BY AnswerFromInv
<1>2. QED
  BY <1>1, Inductive, PTL

(* The retry prompt shows the rejected text beside its own problems.       *)
THEOREM RetryCorrect == Spec => []RetryShowsTheRejectedAttempt
<1>1. IInv => RetryShowsTheRejectedAttempt
  BY DEF IInv
<1>2. QED
  BY <1>1, Inductive, PTL

(* Every prompt after the first teaches something that was just found.     *)
THEOREM AlwaysTeaches == Spec => []PromptTeaches
<1>1. IInv => PromptTeaches
  BY DEF IInv
<1>2. QED
  BY <1>1, Inductive, PTL

LEMMA HarmlessFromInv == ASSUME IInv PROVE HarmfulNeverApproved
<1>1. SUFFICES ASSUME NEW r \in {result[i] : i \in DOMAIN result}, r.approved
               PROVE  ~Harmful(r.final_sql)
  BY DEF HarmfulNeverApproved
<1>2. pc = "done" /\ result = << SystemResult >>
  BY <1>1 DEF IInv, ResultInv
<1>3. r = SystemResult
  BY <1>1, <1>2
<1>4. /\ SystemResult.final_sql = last_sql
      /\ SystemResult.approved = last_audit.approved
  BY DEF SystemResult
<1>5. Len(iterations_log) = it /\ it > 0 /\ it \in Nat
  BY <1>2 DEF IInv, Position, TypeOK
<1>6. SoundVerdict(iterations_log[it]) /\ last_sql = iterations_log[it].sql
      /\ last_audit = iterations_log[it].audit
  BY <1>5 DEF IInv, Verdicts, LogAndHistory
<1>7. QED
  BY <1>1, <1>3, <1>4, <1>6 DEF SoundVerdict

(* No harmful statement is ever returned as approved.                      *)
THEOREM HarmlessAnswers == Spec => []HarmfulNeverApproved
<1>1. IInv => HarmfulNeverApproved
  BY HarmlessFromInv
<1>2. QED
  BY <1>1, Inductive, PTL
-----------------------------------------------------------------------------
(* What on_event is told.                                                  *)
Kinds == {"iter_start", "generator_start", "generator_done", "auditor_start",
          "auditor_done", "non_sql_output", "reflector_start", "reflector_done"}
Closes(e) == e.event \in {"auditor_done", "non_sql_output"}

Notice == [event : Kinds, iteration : Nat, approved : BOOLEAN]

Told == events \in Seq(Notice) /\ EventsTellTheLog

LEMMA NoticeType ==
  ASSUME NEW name \in Kinds, NEW n \in Nat
  PROVE  /\ Event(name, n) \in Notice
         /\ Closes(Event(name, n)) <=> name \in {"auditor_done", "non_sql_output"}
         /\ Event(name, n).iteration = n /\ ~Event(name, n).approved
  BY DEF Notice, Event, Closes

LEMMA Joined ==
  ASSUME NEW S, NEW s \in Seq(S), NEW t \in Seq(S)
  PROVE  /\ s \o t \in Seq(S)
         /\ DOMAIN (s \o t) = DOMAIN s \cup {Len(s) + j : j \in DOMAIN t}
         /\ \A i \in DOMAIN s : (s \o t)[i] = s[i]
         /\ \A j \in DOMAIN t : (s \o t)[Len(s) + j] = t[j]
         /\ \A i \in DOMAIN s, j \in DOMAIN t :
              i < Len(s) + j /\ i \in Nat /\ j \in Nat /\ Len(s) + j \notin DOMAIN s
<1> DEFINE r == s \o t
<1>1. /\ r \in Seq(S) /\ Len(r) = Len(s) + Len(t)
      /\ \A i \in 1..Len(r) : r[i] = IF i <= Len(s) THEN s[i] ELSE t[i - Len(s)]
  BY ConcatProperties
<1>2. /\ DOMAIN r = 1..Len(r) /\ DOMAIN s = 1..Len(s) /\ DOMAIN t = 1..Len(t)
      /\ Len(s) \in Nat /\ Len(t) \in Nat
  BY <1>1
<1> HIDE DEF r
<1>3. DOMAIN r = DOMAIN s \cup {Len(s) + j : j \in DOMAIN t}
  <2>1. ASSUME NEW i \in DOMAIN r PROVE i \in DOMAIN s \cup {Len(s) + j : j \in DOMAIN t}
    <3>1. CASE i > Len(s)
      <4>1. i - Len(s) \in DOMAIN t /\ i = Len(s) + (i - Len(s))
        BY <1>1, <1>2, <3>1
      <4>2. QED
        BY <4>1
    <3>2. QED
      BY <1>1, <1>2, <3>1
  <2>2. ASSUME NEW i \in DOMAIN s \cup {Len(s) + j : j \in DOMAIN t} PROVE i \in DOMAIN r
    BY <1>1, <1>2
  <2>3. QED
    BY <2>1, <2>2
<1>4. \A i \in DOMAIN s : r[i] = s[i]
  BY <1>1, <1>2
<1>5. ASSUME NEW j \in DOMAIN t PROVE r[Len(s) + j] = t[j]
  <2>1. Len(s) + j \in 1..Len(r) /\ ~(Len(s) + j <= Len(s)) /\ (Len(s) + j) - Len(s) = j
    BY <1>1, <1>2
  <2>2. QED
    BY <1>1, <2>1
<1>6. \A i \in DOMAIN s, j \in DOMAIN t :
         i < Len(s) + j /\ i \in Nat /\ j \in Nat /\ Len(s) + j \notin DOMAIN s
  BY <1>2
<1>7. QED
  BY <1>1, <1>3, <1>4, <1>5, <1>6 DEF r

LEMMA MoreNotices ==
  ASSUME events \in Seq(Notice), NEW more \in Seq(Notice), events' = events \o more
  PROVE  /\ events' \in Seq(Notice)
         /\ DOMAIN events' = DOMAIN events \cup {Len(events) + j : j \in DOMAIN more}
         /\ \A i \in DOMAIN events : events'[i] = events[i]
         /\ \A j \in DOMAIN more : events'[Len(events) + j] = more[j]
         /\ \A i \in DOMAIN events, j \in DOMAIN more :
              i < Len(events) + j /\ i \in Nat /\ j \in Nat /\ Len(events) + j \notin DOMAIN events
<1>1. /\ events' \in Seq(Notice)
      /\ DOMAIN events' = DOMAIN events \cup {Len(events) + j : j \in DOMAIN more}
      /\ \A i \in DOMAIN events : events'[i] = events[i]
      /\ \A j \in DOMAIN more : events'[Len(events) + j] = more[j]
  BY Joined
<1>2. \A i \in DOMAIN events, j \in DOMAIN more :
         i < Len(events) + j /\ i \in Nat /\ j \in Nat /\ Len(events) + j \notin DOMAIN events
  BY Joined, Zenon
<1>3. QED
  BY <1>1, <1>2, Zenon

(* Notices that close no iteration, and no new entry.                      *)
LEMMA SilentNotices ==
  ASSUME Told, NEW more \in Seq(Notice), events' = events \o more,
         \A j \in DOMAIN more : ~Closes(more[j]),
         UNCHANGED iterations_log
  PROVE  Told'
<1>1. events \in Seq(Notice) /\ EventsTellTheLog
  BY DEF Told
<1>2. /\ events' \in Seq(Notice)
      /\ DOMAIN events' = DOMAIN events \cup {Len(events) + j : j \in DOMAIN more}
      /\ \A i \in DOMAIN events : events'[i] = events[i]
      /\ \A j \in DOMAIN more : events'[Len(events) + j] = more[j]
  BY <1>1, MoreNotices
<1>3. Closing = {i \in DOMAIN events : Closes(events[i])}
      /\ Closing' = {i \in DOMAIN events' : Closes(events'[i])}
  BY DEF Closing, Closes
<1>4. Closing' = Closing /\ Closing \subseteq DOMAIN events
  BY <1>2, <1>3
<1>5. \A i \in Closing : events'[i] = events[i]
  BY <1>2, <1>4
<1>6. {events'[i].iteration : i \in Closing} = {events[i].iteration : i \in Closing}
  BY <1>5
<1>7. EventsTellTheLog'
  BY <1>1, <1>4, <1>5, <1>6 DEF EventsTellTheLog
<1>8. QED
  BY <1>2, <1>7 DEF Told

(* One notice that closes the iteration whose entry is made.               *)
LEMMA ClosingNotice ==
  ASSUME Told, NEW more \in Seq(Notice), events' = events \o more,
         NEW k \in DOMAIN more,
         \A j \in DOMAIN more : Closes(more[j]) <=> j = k,
         iterations_log \in Seq(LogEntry), NEW entry \in LogEntry,
         iterations_log' = Append(iterations_log, entry),
         more[k].iteration = Len(iterations_log) + 1,
         more[k].approved = entry.audit.approved
  PROVE  Told'
<1> DEFINE new == Len(events) + k
           n == Len(iterations_log) + 1
<1>1. events \in Seq(Notice) /\ EventsTellTheLog
  BY DEF Told
<1>2. /\ events' \in Seq(Notice)
      /\ DOMAIN events' = DOMAIN events \cup {Len(events) + j : j \in DOMAIN more}
      /\ \A i \in DOMAIN events : events'[i] = events[i]
      /\ \A j \in DOMAIN more : events'[Len(events) + j] = more[j]
      /\ \A i \in DOMAIN events, j \in DOMAIN more :
           i < Len(events) + j /\ i \in Nat /\ j \in Nat /\ Len(events) + j \notin DOMAIN events
  BY <1>1, MoreNotices, Zenon
<1>3. /\ n \in Nat /\ n \notin DOMAIN iterations_log
      /\ DOMAIN iterations_log' = DOMAIN iterations_log \cup {n}
      /\ \A i \in DOMAIN iterations_log : iterations_log'[i] = iterations_log[i] /\ i < n
      /\ iterations_log'[n] = entry
  <2>1. /\ Len(iterations_log) \in Nat /\ DOMAIN iterations_log = 1..Len(iterations_log)
        /\ iterations_log' \in Seq(LogEntry) /\ Len(iterations_log') = n
        /\ \A i \in 1..Len(iterations_log) : iterations_log'[i] = iterations_log[i]
        /\ iterations_log'[n] = entry
    BY AppendProperties
  <2>2. DOMAIN iterations_log' = 1..n
    BY <2>1
  <2>3. QED
    BY <2>1, <2>2
<1>4. /\ Closing = {i \in DOMAIN events : Closes(events[i])}
      /\ Closing' = {i \in DOMAIN events' : Closes(events'[i])}
  BY DEF Closing, Closes
<1>5. events'[new] = more[k] /\ events'[new].iteration = n
      /\ events'[new].approved = entry.audit.approved
  BY <1>2
<1> HIDE DEF n
<1>6. ASSUME NEW i \in Closing' PROVE i \in Closing \cup {new}
  <2>1. CASE i \in DOMAIN events
    BY <1>2, <1>4, <2>1
  <2>2. CASE i \notin DOMAIN events
    <3>1. PICK j \in DOMAIN more : i = Len(events) + j
      BY <1>2, <1>4, <2>2
    <3>2. Closes(more[j])
      BY <1>2, <1>4, <3>1
    <3>3. QED
      BY <3>1, <3>2
  <2>3. QED
    BY <2>1, <2>2
<1>7. new \in Closing'
  BY <1>2, <1>4
<1>8. Closing' = Closing \cup {new}
  <2>1. \A i \in Closing : i \in Closing'
    BY <1>2, <1>4
  <2> HIDE DEF new
  <2>2. QED
    BY <1>6, <1>7, <2>1, Zenon
<1>9. /\ \A i \in Closing : events'[i] = events[i] /\ i < new /\ i \in Nat
      /\ new \notin Closing /\ new \in Nat
  BY <1>1, <1>2, <1>4
<1> HIDE DEF new
<1>10. \A i \in Closing : events[i].iteration \in DOMAIN iterations_log
  BY <1>1 DEF EventsTellTheLog
<1>11. {events'[i].iteration : i \in Closing'} = DOMAIN iterations_log'
  <2> DEFINE Before == {events[i].iteration : i \in Closing}
             After == {events'[i].iteration : i \in Closing'}
  <2>1. After = Before \cup {n}
    <3>1. ASSUME NEW i \in Closing'
          PROVE  events'[i].iteration \in Before \cup {n}
      <4>1. CASE i \in Closing
        BY <1>9, <4>1
      <4>2. CASE i = new
        BY <1>5, <4>2
      <4>3. QED
        BY <1>8, <4>1, <4>2
    <3>2. ASSUME NEW i \in Closing PROVE events[i].iteration \in After
      BY <1>8, <1>9
    <3>3. n \in After
      BY <1>5, <1>7
    <3>4. QED
      BY <3>1, <3>2, <3>3
  <2>2. QED
    BY <1>1, <1>3, <2>1 DEF EventsTellTheLog
<1>12. ASSUME NEW i \in Closing', NEW j \in Closing', i < j
       PROVE  events'[i].iteration < events'[j].iteration
  <2>1. i \in Closing
    <3>1. CASE i = new
      <4>1. j \in Closing \/ j = new
        BY <1>8
      <4>2. QED
        BY <1>9, <1>12, <3>1, <4>1
    <3>2. QED
      BY <1>8, <3>1
  <2>2. CASE j \in Closing
    <3>1. events'[i] = events[i] /\ events'[j] = events[j]
      BY <1>9, <2>1, <2>2
    <3>2. events[i].iteration < events[j].iteration
      BY <1>1, <1>12, <2>1, <2>2 DEF EventsTellTheLog
    <3>3. QED
      BY <3>1, <3>2
  <2>3. CASE j = new
    <3>1. events'[i] = events[i] /\ events[i].iteration \in DOMAIN iterations_log
      BY <1>9, <1>10, <2>1
    <3>2. events'[j].iteration = n
      BY <1>5, <2>3
    <3>3. QED
      BY <1>3, <3>1, <3>2
  <2>4. QED
    BY <1>8, <2>2, <2>3
<1>13. ASSUME NEW i \in Closing'
       PROVE  events'[i].approved = iterations_log'[events'[i].iteration].audit.approved
  <2>1. CASE i \in Closing
    <3>1. events'[i] = events[i] /\ events[i].iteration \in DOMAIN iterations_log
      BY <1>9, <1>10, <2>1
    <3>2. events[i].approved = iterations_log[events[i].iteration].audit.approved
      BY <1>1, <2>1 DEF EventsTellTheLog
    <3>3. QED
      BY <1>3, <3>1, <3>2
  <2>2. CASE i = new
    BY <1>3, <1>5, <2>2
  <2>3. QED
    BY <1>8, <2>1, <2>2
<1>14. QED
  BY <1>2, <1>11, <1>12, <1>13 DEF Told, EventsTellTheLog

LEMMA ToldInit == Init => Told
<1> SUFFICES ASSUME Init PROVE Told
  OBVIOUS
<1>1. events = << >> /\ iterations_log = << >>
  BY DEF Init
<1>2. Closing = {}
  BY <1>1 DEF Closing
<1>3. QED
  BY <1>1, <1>2 DEF Told, EventsTellTheLog

LEMMA TwoNotices ==
  ASSUME NEW a \in Notice, NEW b \in Notice
  PROVE  /\ << a, b >> \in Seq(Notice) /\ DOMAIN << a, b >> = {1, 2}
         /\ << a, b >>[1] = a /\ << a, b >>[2] = b
  OBVIOUS

LEMMA TwoSilent ==
  ASSUME Told, NEW a \in Notice, NEW b \in Notice, ~Closes(a), ~Closes(b),
         events' = events \o << a, b >>, UNCHANGED iterations_log
  PROVE  Told'
<1> DEFINE more == << a, b >>
<1>1. /\ more \in Seq(Notice) /\ DOMAIN more = {1, 2}
      /\ more[1] = a /\ more[2] = b /\ events' = events \o more
  BY TwoNotices
<1> HIDE DEF more
<1>2. \A j \in DOMAIN more : ~Closes(more[j])
  BY <1>1
<1>3. QED
  BY <1>1, <1>2, SilentNotices

LEMMA ThreeNotices ==
  ASSUME NEW a \in Notice, NEW b \in Notice, NEW c \in Notice
  PROVE  /\ << a, b, c >> \in Seq(Notice) /\ DOMAIN << a, b, c >> = {1, 2, 3}
         /\ << a, b, c >>[1] = a /\ << a, b, c >>[2] = b /\ << a, b, c >>[3] = c
  OBVIOUS

LEMMA OneNotice ==
  ASSUME NEW a \in Notice
  PROVE  /\ << a >> \in Seq(Notice) /\ DOMAIN << a >> = {1} /\ << a >>[1] = a
         /\ \A s \in Seq(Notice) : Append(s, a) = s \o << a >>
  OBVIOUS

LEMMA ToldNext ==
  ASSUME IInv, Told, [Next]_vars
  PROVE  Told'
<1>1. /\ it \in Nat /\ iterations_log \in Seq(LogEntry) /\ sql_history \in Seq(Statement)
      /\ pc \in {"generating", "auditing"} => Len(iterations_log) + 1 = it
  <2>1. it \in Nat /\ iterations_log \in Seq(LogEntry) /\ sql_history \in Seq(Statement)
    BY LimitType DEF IInv, TypeOK
  <2>2. QED
    BY <2>1 DEF IInv, Position
<1>2. CASE StartIteration
  <2> DEFINE a == Event("iter_start", it + 1)
             b == Event("generator_start", it + 1)
  <2>1. a \in Notice /\ b \in Notice /\ ~Closes(a) /\ ~Closes(b)
    BY <1>1, NoticeType DEF Kinds
  <2>2. events' = events \o << a, b >> /\ UNCHANGED iterations_log
    BY <1>2 DEF StartIteration
  <2> HIDE DEF a, b
  <2>3. QED
    BY <2>1, <2>2, TwoSilent
<1>3. ASSUME NEW q \in Statements, GenerateSql(q) PROVE Told'
  <2> DEFINE a == Event("generator_done", it)
             b == Event("auditor_start", it)
  <2>1. a \in Notice /\ b \in Notice /\ ~Closes(a) /\ ~Closes(b)
    BY <1>1, NoticeType DEF Kinds
  <2>2. events' = events \o << a, b >> /\ UNCHANGED iterations_log
    BY <1>3 DEF GenerateSql
  <2> HIDE DEF a, b
  <2>3. QED
    BY <2>1, <2>2, TwoSilent
<1>4. ASSUME NEW q \in Statements, GenerateProse(q) PROVE Told'
  <2> DEFINE a == Event("generator_done", it)
             b == Event("non_sql_output", it)
             entry == [sql |-> q, audit |-> NotAQuery]
  <2>1. a \in Notice /\ b \in Notice /\ ~Closes(a) /\ Closes(b)
        /\ b.iteration = it /\ b.approved = FALSE
    BY <1>1, NoticeType DEF Kinds, Event
  <2>2. /\ events' = events \o << a, b >>
        /\ iterations_log' = Append(iterations_log, entry)
        /\ pc = "generating"
    BY <1>4 DEF GenerateProse
  <2>3. entry \in LogEntry /\ entry.audit.approved = FALSE
    BY StatementsAssumption, ConstantTypes DEF LogEntry, NotAQuery
  <2> HIDE DEF a, b, entry
  <2> DEFINE more == << a, b >>
  <2>4. /\ more \in Seq(Notice) /\ DOMAIN more = {1, 2}
        /\ more[1] = a /\ more[2] = b
    BY <2>1, TwoNotices
  <2>5. events' = events \o more
    BY <2>2
  <2> HIDE DEF more
  <2>6. 2 \in DOMAIN more /\ \A j \in DOMAIN more : Closes(more[j]) <=> j = 2
    BY <2>1, <2>4
  <2>7. more[2].iteration = Len(iterations_log) + 1 /\ more[2].approved = entry.audit.approved
    BY <1>1, <2>1, <2>2, <2>3, <2>4
  <2>8. QED
    BY <1>1, <2>2, <2>3, <2>4, <2>5, <2>6, <2>7, ClosingNotice
<1>5. ASSUME NEW audit, NEW down, pc = "auditing",
             audit = Audit(RunPhase1(LastOf(sql_history), down)), AuditAndReflect(audit)
      PROVE  Told'
  <2> DEFINE a == AuditorDone(it, audit)
             b == Event("reflector_start", it)
             c == Event("reflector_done", it)
             entry == [sql |-> LastOf(sql_history), audit |-> audit]
  <2>1. entry \in LogEntry /\ entry.audit = audit /\ audit.approved \in BOOLEAN
    <3>1. iterations_log' = Append(iterations_log, entry) /\ Len(sql_history) = it /\ it > 0
      BY <1>5 DEF AuditAndReflect, LogAudit, IInv, Position
    <3>2. LastOf(sql_history) \in Statement /\ HasSqlKeyword(LastOf(sql_history))
      BY <1>1, <1>5, <3>1 DEF LastOf, IInv, LogAndHistory
    <3>3. audit \in AuditResult
      BY <1>5, <3>2, AuditsOf
    <3>4. QED
      BY <3>2, <3>3 DEF LogEntry, AuditResult
  <2>2. a \in Notice /\ Closes(a) /\ a.iteration = it /\ a.approved = entry.audit.approved
    BY <1>1, <2>1 DEF AuditorDone, Notice, Kinds, Closes
  <2>3. b \in Notice /\ c \in Notice /\ ~Closes(b) /\ ~Closes(c)
    BY <1>1, NoticeType DEF Kinds
  <2>4. /\ iterations_log' = Append(iterations_log, entry)
        /\ audit.approved => events' = Append(events, a)
        /\ ~audit.approved => events' = events \o << a, b, c >>
    BY <1>5 DEF AuditAndReflect, LogAudit
  <2> HIDE DEF a, b, c, entry
  <2>5. events \in Seq(Notice)
    BY DEF Told
  <2> DEFINE more == IF audit.approved THEN << a >> ELSE << a, b, c >>
  <2>6. /\ more \in Seq(Notice) /\ 1 \in DOMAIN more /\ more[1] = a
        /\ events' = events \o more
        /\ \A j \in DOMAIN more : Closes(more[j]) <=> j = 1
    <3>1. CASE audit.approved
      <4>1. more = << a >>
        BY <3>1
      <4>2. << a >> \in Seq(Notice) /\ DOMAIN << a >> = {1} /\ << a >>[1] = a
            /\ events' = events \o << a >>
        BY <2>2, <2>4, <2>5, <3>1, OneNotice
      <4>3. QED
        BY <2>2, <4>1, <4>2
    <3>2. CASE ~audit.approved
      <4>1. more = << a, b, c >>
        BY <3>2
      <4>2. /\ more \in Seq(Notice) /\ DOMAIN more = {1, 2, 3}
            /\ more[1] = a /\ more[2] = b /\ more[3] = c
        BY <2>2, <2>3, <4>1, ThreeNotices
      <4>3. events' = events \o more
        BY <2>4, <3>2, <4>1
      <4> HIDE DEF more
      <4>4. QED
        BY <2>2, <2>3, <4>2, <4>3
    <3>3. QED
      BY <3>1, <3>2
  <2> HIDE DEF more
  <2>7. more[1].iteration = Len(iterations_log) + 1 /\ more[1].approved = entry.audit.approved
    BY <1>1, <1>5, <2>2, <2>6
  <2>8. QED
    BY <1>1, <2>1, <2>4, <2>6, <2>7, ClosingNotice
<1>6. CASE AuditSql
  <2>1. PICK audit \in {Audit(findings) : findings \in PossibleFindings} : AuditAndReflect(audit)
    BY <1>6 DEF AuditSql
  <2>2. PICK down \in Outages : audit = Audit(RunPhase1(LastOf(sql_history), down))
    BY <2>1 DEF PossibleFindings
  <2>3. QED
    BY <1>5, <1>6, <2>1, <2>2 DEF AuditSql
<1>7. CASE GeneratorRaises \/ JudgeRaises \/ Return \/ UNCHANGED vars
  <2>1. UNCHANGED << events, iterations_log >>
    BY <1>7 DEF GeneratorRaises, JudgeRaises, Return, vars
  <2>2. QED
    BY <2>1 DEF Told, EventsTellTheLog, Closing
<1>8. QED
  BY <1>2, <1>3, <1>4, <1>6, <1>7 DEF Next

(* For any number of iterations, any statements and any outages: the       *)
(* listener is told of every finished iteration once, in order, and with   *)
(* the verdict the log has (pipeline.py:97-135).                           *)
THEOREM EventsCorrect == Spec => []EventsTellTheLog
<1>1. Told => EventsTellTheLog
  BY DEF Told
<1>2. QED
  BY <1>1, ToldInit, ToldNext, Inductive, PTL DEF Spec
-----------------------------------------------------------------------------
(* The refinement: what AuditLoop sees of the log.                         *)
Attempt(entry) == [text |-> entry.sql, verdict |-> VerdictOf(entry.audit)]

AttemptType == [text : Statement, verdict : {"approved", "rejected", "not_sql"}]

LEMMA TriedFacts ==
  ASSUME TypeOK
  PROVE  /\ Tried \in Seq(AttemptType)
         /\ Len(Tried) = Len(iterations_log)
         /\ \A i \in 1..Len(iterations_log) : Tried[i] = Attempt(iterations_log[i])
<1>1. Len(iterations_log) \in Nat
  BY LogTypes
<1>2. ASSUME NEW i \in 1..Len(iterations_log)
      PROVE  Attempt(iterations_log[i]) \in AttemptType
  BY LogTypes DEF Attempt, AttemptType, VerdictOf
<1>3. Tried = [i \in 1..Len(iterations_log) |-> Attempt(iterations_log[i])]
  BY DEF Tried, Attempt
<1>4. QED
  BY <1>1, <1>2, <1>3

LEMMA TriedGrows ==
  ASSUME TypeOK, TypeOK', NEW entry \in LogEntry,
         iterations_log' = Append(iterations_log, entry)
  PROVE  Tried' = Append(Tried, Attempt(entry))
<1>1. /\ Tried \in Seq(AttemptType) /\ Len(Tried) = Len(iterations_log)
      /\ \A i \in 1..Len(iterations_log) : Tried[i] = Attempt(iterations_log[i])
  BY TriedFacts
<1>2. /\ Len(iterations_log') = Len(iterations_log) + 1 /\ Len(iterations_log) \in Nat
      /\ \A i \in 1..Len(iterations_log) : iterations_log'[i] = iterations_log[i]
      /\ iterations_log'[Len(iterations_log) + 1] = entry
  BY AppendEntry, LogTypes
<1>3. Tried' = [i \in 1..Len(iterations_log') |-> Attempt(iterations_log'[i])]
  BY DEF Tried, Attempt, VerdictOf
<1>4. Attempt(entry) \in AttemptType
  BY DEF Attempt, AttemptType, VerdictOf, LogEntry
<1> DEFINE s == Append(Tried, Attempt(entry))
<1>5. /\ s \in Seq(AttemptType) /\ Len(s) = Len(iterations_log) + 1
      /\ \A i \in 1..Len(iterations_log) : s[i] = Attempt(iterations_log[i])
      /\ s[Len(iterations_log) + 1] = Attempt(entry)
  BY <1>1, <1>4, AppendProperties
<1> HIDE DEF s
<1>6. s = [i \in 1..(Len(iterations_log) + 1) |-> s[i]]
  BY <1>2, <1>5
<1>7. \A i \in 1..(Len(iterations_log) + 1) : s[i] = Attempt(iterations_log'[i])
  <2>1. \A i \in 1..(Len(iterations_log) + 1) :
          i \in 1..Len(iterations_log) \/ i = Len(iterations_log) + 1
    BY <1>2
  <2>2. QED
    BY <1>2, <1>5, <2>1
<1>8. s = [i \in 1..(Len(iterations_log) + 1) |-> Attempt(iterations_log'[i])]
  BY <1>6, <1>7
<1>9. QED
  BY <1>2, <1>3, <1>8 DEF s

Answered == IF result = << >> THEN << >> ELSE << result[1].final_sql >>

AbstractVars == << Tried, StatusNow, Answered >>

LEMMA InitRefines == Init => Loop!Init
  BY DEF Init, Loop!Init, Tried, StatusNow

(* The log and the outcome untouched: a stutter.                           *)
LEMMA Stutters ==
  ASSUME UNCHANGED << iterations_log, result >>,
         pc \notin {"done", "raised"}, pc' \notin {"done", "raised"}
  PROVE  UNCHANGED AbstractVars
  BY DEF AbstractVars, Tried, StatusNow, Answered, VerdictOf

(* A new log entry: an attempt.                                            *)
LEMMA Tries ==
  ASSUME IInv, TypeOK', pc \in {"generating", "auditing"}, pc' \notin {"done", "raised"},
         NEW q \in Statements, NEW audit \in AuditResult, result' = result,
         iterations_log' = Append(iterations_log, [sql |-> q, audit |-> audit])
  PROVE  \E text \in Statements, verdict \in Loop!Verdicts : Loop!Try(text, verdict)
<1> DEFINE entry == [sql |-> q, audit |-> audit]
<1>1. TypeOK /\ Position /\ Verdicts
  BY DEF IInv
<1>2. entry \in LogEntry /\ Attempt(entry) = [text |-> q, verdict |-> VerdictOf(audit)]
  BY StatementsAssumption DEF LogEntry, Attempt
<1>3. Tried' = Append(Tried, [text |-> q, verdict |-> VerdictOf(audit)])
  BY <1>1, <1>2, TriedGrows
<1>4. Len(Tried) < Limit
  <2>1. Len(Tried) = it - 1 /\ it \in 0..Limit
    BY <1>1, TriedFacts DEF Position, TypeOK
  <2>2. QED
    BY <2>1, LimitType
<1>5. Tried # << >> => ~Loop!Final(Tried[Len(Tried)].verdict)
  <2>1. SUFFICES ASSUME Tried # << >> PROVE ~Loop!Final(Tried[Len(Tried)].verdict)
    OBVIOUS
  <2>2. Len(Tried) \in 1..Len(iterations_log) /\ Len(Tried) = Len(iterations_log)
    BY <1>1, <2>1, TriedFacts
  <2>3. ~Settles(iterations_log[Len(Tried)])
    BY <1>1, <2>2 DEF Verdicts
  <2>4. Tried[Len(Tried)].verdict = "rejected"
    <3>1. Tried[Len(Tried)] = Attempt(iterations_log[Len(Tried)])
      BY <1>1, <2>2, TriedFacts
    <3>2. Tried[Len(Tried)].verdict = VerdictOf(iterations_log[Len(Tried)].audit)
      BY <3>1 DEF Attempt
    <3>3. VerdictOf(iterations_log[Len(Tried)].audit) = "rejected"
      BY <2>3, Zenon DEF VerdictOf, Settles
    <3>4. QED
      BY <3>2, <3>3
  <2>5. QED
    BY <2>4 DEF Loop!Final
<1>6. StatusNow = "running" /\ StatusNow' = "running"
  BY DEF StatusNow
<1>7. VerdictOf(audit) \in Loop!Verdicts
  BY DEF VerdictOf, Loop!Verdicts
<1>8. Loop!Try(q, VerdictOf(audit))
  BY <1>3, <1>4, <1>5, <1>6 DEF Loop!Try
<1>9. QED
  BY <1>7, <1>8

LEMMA Fails ==
  ASSUME IInv, GeneratorRaises \/ JudgeRaises
  PROVE  Loop!Fail
<1>1. StatusNow = "running" /\ StatusNow' = "failed"
  BY DEF GeneratorRaises, JudgeRaises, StatusNow
<1>2. UNCHANGED << iterations_log, result >>
  BY DEF GeneratorRaises, JudgeRaises
<1>3. UNCHANGED << Tried, Answered >>
  BY <1>2 DEF Tried, Answered, VerdictOf
<1>4. QED
  BY <1>1, <1>3 DEF Loop!Fail, Answered

LEMMA Answers ==
  ASSUME IInv, Return
  PROVE  Loop!Answer
<1> DEFINE n == Len(iterations_log)
<1>1. TypeOK /\ Position /\ Verdicts /\ LogAndHistory
  BY DEF IInv
<1>2. n = it /\ n > 0 /\ n \in Nat /\ (pc = "loop" => n = Limit)
  BY <1>1, LimitType DEF Position, Return, LoopLeft, TypeOK
<1>3. Tried # << >> /\ Len(Tried) = n /\ Tried[n] = Attempt(iterations_log[n])
  BY <1>1, <1>2, TriedFacts
<1>4. last_audit = iterations_log[n].audit /\ last_sql = iterations_log[n].sql
  BY <1>1, <1>2 DEF LogAndHistory
<1>5. Tried[n].verdict = VerdictOf(last_audit) /\ Tried[n].text = last_sql
  BY <1>3, <1>4 DEF Attempt
<1>6. Loop!Final(Tried[n].verdict) \/ n = Limit
  <2>1. pc = "exit" \/ n = Limit
    BY <1>2 DEF Return, LoopLeft
  <2>2. pc = "exit" => Settles(iterations_log[n])
    BY <1>1 DEF Verdicts
  <2>3. QED
    BY <1>4, <1>5, <2>1, <2>2 DEF Settles, VerdictOf, Loop!Final
<1>7. UNCHANGED Tried
  BY DEF Return, Tried, VerdictOf
<1>8. StatusNow = "running"
  BY DEF Return, LoopLeft, StatusNow
<1>9. StatusNow' = IF Tried[n].verdict = "approved" THEN "approved" ELSE "rejected"
  <2>1. StatusNow' = IF last_audit.approved THEN "approved" ELSE "rejected"
    BY DEF Return, StatusNow
  <2>2. QED
    BY <1>5, <2>1 DEF VerdictOf
<1>10. Answered' = << Tried[n].text >>
  BY <1>5 DEF Return, Answered, SystemResult
<1> HIDE DEF n
<1>11. QED
  BY <1>3, <1>6, <1>7, <1>8, <1>9, <1>10 DEF Loop!Answer, Answered

LEMMA NextRefines ==
  ASSUME IInv, IInv', [Next]_vars
  PROVE  [Loop!Next]_AbstractVars
<1>1. TypeOK'
  BY DEF IInv
<1>2. CASE StartIteration
  BY <1>2, Stutters DEF StartIteration
<1>3. ASSUME NEW q \in Statements, GenerateSql(q) PROVE UNCHANGED AbstractVars
  BY <1>3, Stutters DEF GenerateSql
<1>4. ASSUME NEW q \in Statements, GenerateProse(q) PROVE Loop!Next
  <2>1. \E text \in Statements, verdict \in Loop!Verdicts : Loop!Try(text, verdict)
    BY <1>1, <1>4, Tries, ConstantTypes DEF GenerateProse
  <2>2. QED
    BY <2>1 DEF Loop!Next
<1>5. CASE AuditSql
  <2>1. PICK audit \in {Audit(findings) : findings \in PossibleFindings} : AuditAndReflect(audit)
    BY <1>5 DEF AuditSql
  <2>2. PICK down \in Outages : audit = Audit(RunPhase1(LastOf(sql_history), down))
    BY <2>1 DEF PossibleFindings
  <2>3. /\ LastOf(sql_history) \in Statements /\ HasSqlKeyword(LastOf(sql_history))
        /\ LastOf(sql_history) \in Statement
    BY <1>5, StatementsAssumption DEF IInv, LogAndHistory, Position, AuditSql, LastOf
  <2>4. audit \in AuditResult
    BY <2>2, <2>3, AuditsOf
  <2>5. /\ iterations_log' = Append(iterations_log, [sql |-> LastOf(sql_history), audit |-> audit])
        /\ result' = result /\ pc' \notin {"done", "raised"} /\ pc = "auditing"
    BY <1>5, <2>1 DEF AuditAndReflect, LogAudit, AfterAudit, AuditSql
  <2>6. \E text \in Statements, verdict \in Loop!Verdicts : Loop!Try(text, verdict)
    BY <1>1, <2>3, <2>4, <2>5, Tries
  <2>7. QED
    BY <2>6 DEF Loop!Next
<1>6. CASE GeneratorRaises \/ JudgeRaises
  BY <1>6, Fails DEF Loop!Next
<1>7. CASE Return
  BY <1>7, Answers DEF Loop!Next
<1>8. CASE UNCHANGED vars
  BY <1>8 DEF vars, AbstractVars, Tried, StatusNow, Answered, VerdictOf
<1>9. QED
  BY <1>2, <1>3, <1>4, <1>5, <1>6, <1>7, <1>8 DEF Next

(* run() implements the audit loop it promises.                            *)
THEOREM Implements == Spec => ImplementsAuditLoop
<1>1. Init => Loop!Init
  BY InitRefines
<1>2. IInv /\ IInv' /\ [Next]_vars => [Loop!Next]_AbstractVars
  BY NextRefines
<1>3. QED
  BY <1>1, <1>2, Inductive, PTL DEF Spec, ImplementsAuditLoop, Loop!Spec, AbstractVars, Answered
=============================================================================
