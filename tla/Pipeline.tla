------------------------------ MODULE Pipeline ------------------------------
(***************************************************************************)
(* SQLSecurityPipeline.run (pipeline.py): generate, audit, reflect, until  *)
(* the audit approves, the model answers with something that is not SQL,   *)
(* the iterations are used up, or a call to the language model raises.     *)
(*                                                                         *)
(* The language model is external: it may answer any of the statements of  *)
(* Statements at any call, or raise (a timeout or an HTTP error).          *)
(***************************************************************************)
EXTENDS Auditor, Reflector

CONSTANTS
  Statements,       \* what the language model may answer
  max_iterations,   \* the constructor's argument; 0 stands for None or 0
  Outages           \* the sets of checkers that may fail during an audit

ASSUME StatementsAssumption == Statements \subseteq Statement
ASSUME LimitAssumption == max_iterations \in Nat
ASSUME OutagesAssumption == Outages \subseteq SUBSET Checkers

DEFAULT_MAX_ITERATIONS == 5

(* "max_iterations or self.DEFAULT_MAX_ITERATIONS"                         *)
Limit == IF max_iterations = 0 THEN DEFAULT_MAX_ITERATIONS ELSE max_iterations

VARIABLES
  pc,              \* where run() is: see Pcs
  it,              \* iterations started
  sql_history,     \* every text the generator returned
  iterations_log,  \* [sql, audit] of every finished iteration
  reflection,      \* the lessons for the next prompt
  last_sql, last_audit,
  prompt,          \* what the generator was last given
  events,          \* what was passed to on_event, in order
  result           \* << >>, or << SystemResult >>

vars == << pc, it, sql_history, iterations_log, reflection, last_sql,
           last_audit, prompt, events, result >>

Pcs == {"loop", "generating", "auditing", "exit", "done", "raised"}

(* last_sql = "" and last_audit = None before the first audit.             *)
EmptyText == [head |-> "other", marks |-> {}, cols |-> << >>]
NoAudit == [approved |-> FALSE, risk |-> 0, vulns |-> << >>]

(* _has_sql_keyword                                                        *)
HasSqlKeyword(q) == Has(q, "keyword")

LastOf(s) == s[Len(s)]

(* _retry_block: there is one iff the last audit rejected; it shows the    *)
(* newest text of the history beside the findings of the last audit.       *)
NoRetry == [shown |-> FALSE, sql |-> EmptyText, problems |-> << >>]

RetryBlockOfTheOldest(history, audit) ==
  IF audit = NoAudit \/ audit.approved
  THEN NoRetry
  ELSE [shown |-> TRUE, sql |-> history[1], problems |-> audit.vulns]
RetryBlock(history, audit) ==
  IF audit = NoAudit \/ audit.approved
  THEN NoRetry
  ELSE [shown |-> TRUE,
        sql |-> IF history = << >> THEN EmptyText ELSE LastOf(history),
        problems |-> audit.vulns]

(* What on_event receives; approved is only meaningful for auditor_done.   *)
Event(name, iteration) ==
  [event |-> name, iteration |-> iteration, approved |-> FALSE]
-----------------------------------------------------------------------------
Init ==
  /\ pc = "loop"
  /\ it = 0
  /\ sql_history = << >>
  /\ iterations_log = << >>
  /\ reflection = << >>
  /\ last_sql = EmptyText
  /\ last_audit = NoAudit
  /\ prompt = [lessons |-> << >>, retry |-> NoRetry]
  /\ events = << >>
  /\ result = << >>

(* for it in range(1, self.max_iterations + 1)                             *)
OneMoreIteration == it <= Limit
MoreIterations == it < Limit

(* The head of the loop, and the prompt LLMGenerator.generate builds.      *)
StartIteration ==
  /\ pc = "loop"
  /\ MoreIterations
  /\ it' = it + 1
  /\ prompt' = [lessons |-> reflection,
                retry |-> RetryBlock(sql_history, last_audit)]
  /\ events' = events \o << Event("iter_start", it + 1),
                            Event("generator_start", it + 1) >>
  /\ pc' = "generating"
  /\ UNCHANGED << sql_history, iterations_log, reflection, last_sql,
                  last_audit, result >>

(* The model answered something that contains an SQL keyword.              *)
GenerateSql(q) ==
  /\ pc = "generating"
  /\ HasSqlKeyword(q)
  /\ sql_history' = Append(sql_history, q)
  /\ events' = events \o << Event("generator_done", it),
                            Event("auditor_start", it) >>
  /\ pc' = "auditing"
  /\ UNCHANGED << it, iterations_log, reflection, last_sql, last_audit,
                  prompt, result >>

(* The model answered prose: a made-up audit is logged and the loop ends.  *)
NotAQuery ==
  [approved |-> FALSE, risk |-> 10, vulns |-> Found("NOT_A_QUERY", 10)]

GenerateProse(q) ==
  /\ pc = "generating"
  /\ ~HasSqlKeyword(q)
  /\ sql_history' = Append(sql_history, q)
  /\ iterations_log' = Append(iterations_log, [sql |-> q, audit |-> NotAQuery])
  /\ last_sql' = q
  /\ last_audit' = NotAQuery
  /\ events' = events \o << Event("generator_done", it),
                            Event("non_sql_output", it) >>
  /\ pc' = "exit"
  /\ UNCHANGED << it, reflection, prompt, result >>

(* The text under audit is the newest of the history.  Which checkers fail *)
(* during the audit decides between several sets of findings.              *)
PossibleFindings ==
  {RunPhase1(LastOf(sql_history), down) : down \in Outages}

LogAudit(audit) ==
  /\ last_sql' = LastOf(sql_history)
  /\ last_audit' = audit
  /\ iterations_log' =
       Append(iterations_log, [sql |-> LastOf(sql_history), audit |-> audit])

(* "if audit.approved: break"                                              *)
KeepsLooping(audit) == "loop"
AfterAudit(audit) == IF audit.approved THEN "exit" ELSE "loop"

AuditorDoneUnmarked(iteration, audit) == Event("auditor_done", iteration)
AuditorDone(iteration, audit) ==
  [event |-> "auditor_done", iteration |-> iteration, approved |-> audit.approved]

(* A rejection is reflected on in the same iteration, the last one too.    *)
AuditAndReflect(audit) ==
  /\ LogAudit(audit)
  /\ IF audit.approved
     THEN /\ reflection' = reflection
          /\ events' = Append(events, AuditorDone(it, audit))
     ELSE /\ reflection' = Reflect(audit.vulns, reflection)
          /\ events' = events \o << AuditorDone(it, audit),
                                    Event("reflector_start", it),
                                    Event("reflector_done", it) >>
  /\ pc' = AfterAudit(audit)
  /\ UNCHANGED << it, sql_history, prompt, result >>

AuditSql ==
  /\ pc = "auditing"
  /\ \E audit \in {Audit(findings) : findings \in PossibleFindings} :
       AuditAndReflect(audit)

(* An exception of the language model ends run() without a result.  The    *)
(* judge is asked only about statements with findings.                     *)
GeneratorRaises ==
  /\ pc = "generating"
  /\ pc' = "raised"
  /\ UNCHANGED << it, sql_history, iterations_log, reflection, last_sql,
                  last_audit, prompt, events, result >>

JudgeRaises ==
  /\ pc = "auditing"
  /\ \E findings \in PossibleFindings : CallsJudge(findings)
  /\ pc' = "raised"
  /\ UNCHANGED << it, sql_history, iterations_log, reflection, last_sql,
                  last_audit, prompt, events, result >>

(* The loop is left by "break" or because range() is exhausted.            *)
LeftByBreakOnly == pc = "exit"
LoopLeft == pc = "exit" \/ (pc = "loop" /\ it = Limit)

NonSqlExit(log) ==
  \E i \in DOMAIN log :
    \E j \in DOMAIN log[i].audit.vulns : log[i].audit.vulns[j].class = "NOT_A_QUERY"

SystemResult ==
  [final_sql |-> last_sql,
   approved |-> last_audit.approved,
   iterations_used |-> Len(iterations_log),
   risk_trajectory |-> [i \in 1..Len(iterations_log) |-> iterations_log[i].audit.risk],
   early_exit |-> NonSqlExit(iterations_log)]

Return ==
  /\ LoopLeft
  /\ result' = << SystemResult >>
  /\ pc' = "done"
  /\ UNCHANGED << it, sql_history, iterations_log, reflection, last_sql,
                  last_audit, prompt, events >>

Next ==
  \/ StartIteration
  \/ \E q \in Statements : GenerateSql(q) \/ GenerateProse(q)
  \/ AuditSql
  \/ GeneratorRaises
  \/ JudgeRaises
  \/ Return

Spec == Init /\ [][Next]_vars

(* Every call to the language model ends, with an answer or an exception:  *)
(* the clients pass a timeout to the HTTP library.  So run() always moves. *)
FairSpec == Spec /\ WF_vars(Next)
-----------------------------------------------------------------------------
LogEntry == [sql : Statement, audit : AuditResult]

TypeOK ==
  /\ pc \in Pcs
  /\ it \in 0..Limit
  /\ sql_history \in Seq(Statement)
  /\ iterations_log \in Seq(LogEntry)
  /\ reflection \in Seq(VulnClasses)
  /\ last_sql \in Statement
  /\ last_audit \in AuditResult
  /\ prompt.lessons \in Seq(VulnClasses)
  /\ prompt.retry \in [shown : BOOLEAN, sql : Statement, problems : Seq(Finding)]
  /\ Len(result) <= 1

(* The answer is the last logged attempt, with that attempt's own verdict, *)
(* and no earlier attempt had been approved (pipeline.py:154, 171-174).    *)
AnswerIsTheLastAttempt ==
  pc = "done" =>
    LET log == iterations_log
        n == Len(log)
        r == result[1]
    IN  /\ n \in 1..Limit
        /\ r.iterations_used = n
        /\ r.final_sql = log[n].sql
        /\ r.approved = log[n].audit.approved
        /\ \A i \in 1..(n - 1) : ~log[i].audit.approved
        /\ ~r.approved => (n = Limit \/ r.early_exit)

(* The retry block names a rejected text and the problems found in it: the *)
(* text comes from sql_history and the problems from last_audit, and they  *)
(* must belong to the same iteration, the one before this one              *)
(* (generator.py:235-239).                                                 *)
RetryShowsTheRejectedAttempt ==
  pc = "generating" =>
    IF it = 1
    THEN prompt.retry = NoRetry
    ELSE /\ prompt.retry.shown
         /\ prompt.retry.sql = iterations_log[it - 1].sql
         /\ prompt.retry.problems = iterations_log[it - 1].audit.vulns
         /\ prompt.retry.problems # << >>

(* From the second iteration on the generator is taught something: the     *)
(* lessons are distinct, within the window, each about a class found in an *)
(* earlier attempt, and at least one about a class of the latest attempt   *)
(* whatever the window evicts (reflector.py:106-110).                      *)
ClassesFound(entry) == {entry.audit.vulns[i].class : i \in DOMAIN entry.audit.vulns}

PromptTeaches ==
  (pc = "generating" /\ it > 1) =>
    /\ Len(prompt.lessons) \in 1..Window
    /\ \A i, j \in DOMAIN prompt.lessons :
         prompt.lessons[i] = prompt.lessons[j] => i = j
    /\ RuleIds(prompt.lessons) \subseteq
         UNION {ClassesFound(iterations_log[k]) : k \in DOMAIN iterations_log}
    /\ RuleIds(prompt.lessons) \cap ClassesFound(iterations_log[it - 1]) # {}

(* No matter which of the fail-safe checkers raise, an approved answer is  *)
(* not a bulk write, DDL, DCL, an unbounded dump or text that is no SQL    *)
(* (auditor.py:261-279: "except Exception: pass").                         *)
Harmful(q) ==
  \/ ~Has(q, "keyword")
  \/ q.head \in {"update", "delete"} /\ (~Has(q, "where") \/ Has(q, "where_true"))
  \/ Has(q, "ddl") \/ Has(q, "dcl")
  \/ q.head = "select" /\ q.marks \cap {"where", "limit", "aggregate"} = {}

HarmfulNeverApproved ==
  \A r \in {result[i] : i \in DOMAIN result} : r.approved => ~Harmful(r.final_sql)

(* A listener that only sees the events knows the outcome of the run: one  *)
(* closing event per logged iteration, in order, with that iteration's     *)
(* verdict (the /chat/stream client renders exactly these).                *)
Closing == {i \in DOMAIN events : events[i].event \in {"auditor_done", "non_sql_output"}}

EventsTellTheLog ==
  /\ {events[i].iteration : i \in Closing} = DOMAIN iterations_log
  /\ \A i, j \in Closing : i < j => events[i].iteration < events[j].iteration
  /\ \A i \in Closing :
       events[i].approved = iterations_log[events[i].iteration].audit.approved

(* run() ends, with a result or an exception.                              *)
Terminates == <>(pc \in {"done", "raised"})
-----------------------------------------------------------------------------
(* The loop implements its abstract specification.                         *)
VerdictOf(audit) ==
  IF audit.approved THEN "approved"
  ELSE IF audit = NotAQuery THEN "not_sql" ELSE "rejected"

Tried == [i \in 1..Len(iterations_log) |->
            [text |-> iterations_log[i].sql,
             verdict |-> VerdictOf(iterations_log[i].audit)]]

StatusNow ==
  CASE pc = "done" -> IF last_audit.approved THEN "approved" ELSE "rejected"
    [] pc = "raised" -> "failed"
    [] OTHER -> "running"

Loop == INSTANCE AuditLoop
          WITH Texts <- Statements, Limit <- Limit, tried <- Tried,
               status <- StatusNow,
               answer <- IF result = << >> THEN << >> ELSE << result[1].final_sql >>

(* Every step of run() is a step of the promised loop or changes nothing   *)
(* that the caller can see.                                                *)
ImplementsAuditLoop == Loop!Spec
-----------------------------------------------------------------------------
(* What the baseline contract says of an AuditResult (baseline1.py:33).    *)
ApprovedHasNoVulnerabilities ==
  \A i \in DOMAIN iterations_log :
    iterations_log[i].audit.approved => iterations_log[i].audit.vulns = << >>

(* What the reflector's comment says of the window (reflector.py:106): the *)
(* last lesson wins, so a class the latest audit found again is not        *)
(* dropped in favour of one it did not find.                               *)
WindowKeepsTheLatest ==
  (pc = "generating" /\ it > 1) =>
    LET kept == RuleIds(prompt.lessons)
        latest == ClassesFound(iterations_log[it - 1])
    IN  (kept \subseteq latest) \/ (latest \subseteq kept)
=============================================================================
