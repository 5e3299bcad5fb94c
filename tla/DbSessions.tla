----------------------------- MODULE DbSessions ------------------------------
(***************************************************************************)
(* The programs that open a session on demo_db, and what they leave there: *)
(* the handlers of /run-sql and /predict-time (infra/service.py), the      *)
(* seeder (scripts/seed_db_generic.py), the measurement of execution       *)
(* accuracy (scripts/ex_eval.py) and the check of the auditor against the  *)
(* database (scripts/test_auditor_vs_db.py).                               *)
(*                                                                         *)
(* PostgreSQL is external, modelled from how the programs use it: the      *)
(* first statement begins a transaction, COMMIT keeps what it wrote and    *)
(* the settings it SET, ROLLBACK undoes both, and a session that ends is   *)
(* rolled back.  A text may hold several statements, which are executed    *)
(* one after another; COMMIT and ROLLBACK among them end the transaction   *)
(* psycopg2 began, and what follows is committed with the text.  demo_db   *)
(* is the sequence of commits that wrote to it.                            *)
(*                                                                         *)
(* The seeder and the measurement can run side by side.  The handlers and  *)
(* the check of the auditor are followed alone; scene says which.          *)
(***************************************************************************)
EXTENDS Integers, Sequences, FiniteSets, SafeSelect

CONSTANTS
  Tables,       \* the tables of the public schema, in the seeder's order
  Empty,        \* tables of them without a column the seeder fills
  Unfit,        \* tables that refuse the random rows by a type or a check
  Linked,       \* tables whose foreign keys the random rows do not meet
  Tasks,        \* how many tasks the measurement has; the code has 26
  CatEnds,      \* where its categories A, B and C end: << 12, 17, 22 >>
  Requests,     \* the texts the user may send to the handlers
  Candidates,   \* the texts the model may answer with; << >> is no text
  MaxRows,      \* _RUN_SQL_MAX_ROWS
  Queries       \* what the auditor is checked with: [expect, kind]

(* What a statement does to the session and to the data: it only reads, it *)
(* changes data without rows or with (RETURNING), it sets the role, it     *)
(* ends or begins a transaction.                                           *)
Acts == {"query", "change", "returning", "set", "commit", "rollback", "begin"}
Rowless == {"change", "set", "commit", "rollback", "begin"}

ASSUME NumbersAssumption == Tasks \in Nat /\ MaxRows \in Nat \ {0}
ASSUME CatEndsAssumption == CatEnds \in Seq(Nat) /\ Len(CatEnds) = 3
ASSUME ListsAssumption ==
  /\ Tables \in Seq({Tables[i] : i \in DOMAIN Tables})
  /\ Queries \in Seq({Queries[i] : i \in DOMAIN Queries})
  /\ \A i \in DOMAIN Tables : Tables[i] # "change"

(* Texts with a first statement that has a body, apart from what wraps it. *)
Readable(s) ==
  /\ s \in Statement(Seq(Comments \cup Blank), Seq(Blank), {s.body}, Seq(Acts))
  /\ s.gap # << >>
  /\ s.body \in Seq({s.body[i] : i \in DOMAIN s.body})
  /\ s.body # << >> /\ s.body[1] \notin Reserved

ASSUME RequestsAssumption == \A s \in Requests : Readable(s)
ASSUME CandidatesAssumption == Candidates \subseteq Seq(Acts \cup {"same", "other"})

VARIABLES
  scene,        \* "seed", "handler" or "check"
  commits,      \* the tables demo_db was given rows for, in order
  conn,         \* conn[p]: the session of program p, see NoSession
  seed,         \* the locals of seed_db_generic.main
  eval,         \* the locals of ex_eval.main
  call,         \* the call of a handler
  ran,          \* what the handlers had the database execute
  trail,        \* the rows of /run-sql in the audit trail
  check         \* the locals of test_auditor_vs_db.main

vars == << scene, commits, conn, seed, eval, call, ran, trail, check >>

Programs == {"seed", "eval", "handler", "check"}
Categories == 1..4

(* role is session_replication_role as it is in force, kept_role as it     *)
(* will be after a rollback; wrote is what the transaction has written;    *)
(* block is FALSE once a text has ended the transaction psycopg2 began.    *)
NoSession == [open |-> FALSE, role |-> "origin", kept_role |-> "origin", wrote |-> << >>,
              block |-> TRUE]
Session == [NoSession EXCEPT !.open = TRUE]

Init ==
  /\ scene \in {"seed", "handler", "check"}
  /\ commits = << >>
  /\ conn = [p \in Programs |-> NoSession]
  /\ seed = [at |-> "start", i |-> 0, ok |-> {}, failed |-> {}]
  /\ eval = [at |-> "start", i |-> 0, gold |-> << >>, data |-> 0, sql |-> << >>,
             left |-> << >>, ex |-> 0, execu |-> 0,
             right |-> [c \in Categories |-> 0], asked |-> [c \in Categories |-> 0],
             same |-> 0, both |-> 0, ended |-> FALSE]
  /\ call = [at |-> "idle"]
  /\ ran = {}
  /\ trail = 0
  /\ check = [i |-> 0, tp |-> 0, tn |-> 0, fp |-> 0, fn |-> 0]
-----------------------------------------------------------------------------
(* PostgreSQL.                                                             *)

Open(p) == conn' = [conn EXCEPT ![p] = Session]

RolledBack(c) == [c EXCEPT !.role = c.kept_role, !.wrote = << >>, !.block = TRUE]

(* A session in which a statement has changed data.                        *)
Changed(c) == [c EXCEPT !.wrote = Append(@, "change")]

Committed(c) == [c EXCEPT !.kept_role = c.role, !.wrote = << >>]

(* The session after one statement of a text.                              *)
After(c, act) ==
  CASE act \in {"change", "returning"} -> Changed(c)
    [] act = "set" -> [c EXCEPT !.role = "replica"]
    [] act = "commit" -> [Committed(c) EXCEPT !.block = FALSE]
    [] act = "rollback" -> [RolledBack(c) EXCEPT !.block = FALSE]
    [] act = "begin" -> [c EXCEPT !.block = TRUE]
    [] OTHER -> c

(* The next statement of a text.                                           *)
ExecuteNext(p, act) ==
  /\ conn' = [conn EXCEPT ![p] = After(@, act)]
  /\ commits' = IF act = "commit" THEN commits \o conn[p].wrote ELSE commits

(* What the end of a text makes permanent.                                 *)
KeptAtEnd(c) == IF c.block THEN << >> ELSE c.wrote
AtEnd(c) == IF c.block THEN c ELSE Committed(c)

Ends(acts) == \E i \in DOMAIN acts : acts[i] \in {"commit", "rollback"}

(* A transaction that writes to t and commits.                             *)
CommitWithoutRole(p, t) == UNCHANGED conn /\ commits' = Append(commits, t)
CommitTo(p, t) ==
  /\ conn' = [conn EXCEPT ![p].kept_role = conn[p].role]
  /\ commits' = Append(commits, t)

Close(p) == conn' = [conn EXCEPT ![p] = NoSession]
-----------------------------------------------------------------------------
(* seed_db_generic.main.                                                   *)

(* The role is set in the transaction of the first table.                  *)
StartSeeding ==
  /\ seed.at = "start"
  /\ seed' = [seed EXCEPT !.at = "tables"]
  /\ conn' = [conn EXCEPT !["seed"] = [Session EXCEPT !.role = "replica"]]
  /\ UNCHANGED << commits, eval >>

(* What a model's text has changed for good may be a table.                *)
Changes == \E i \in DOMAIN commits : commits[i] = "change"

CanFail(t) ==
  t \in Unfit \/ (t \in Linked /\ conn["seed"].role = "origin") \/ Changes

AtTable == seed.at = "tables" /\ seed.i < Len(Tables)
NextTable == Tables[seed.i + 1]

SkipTable ==
  /\ AtTable
  /\ NextTable \in Empty
  /\ seed' = [seed EXCEPT !.i = @ + 1]
  /\ UNCHANGED << commits, conn, eval >>

FillTable ==
  /\ AtTable
  /\ NextTable \notin Empty
  /\ CommitTo("seed", NextTable)
  /\ seed' = [seed EXCEPT !.i = @ + 1, !.ok = @ \cup {NextTable}]
  /\ UNCHANGED eval

RefuseTable ==
  /\ AtTable
  /\ NextTable \notin Empty
  /\ CanFail(NextTable)
  /\ conn' = [conn EXCEPT !["seed"] = RolledBack(@)]
  /\ seed' = [seed EXCEPT !.i = @ + 1, !.failed = @ \cup {NextTable}]
  /\ UNCHANGED << commits, eval >>

(* The role is set back and that is committed; the ten largest tables are  *)
(* printed.                                                                *)
EndSeeding ==
  /\ seed.at = "tables"
  /\ seed.i = Len(Tables)
  /\ seed' = [seed EXCEPT !.at = "done"]
  /\ Close("seed")
  /\ UNCHANGED << commits, eval >>

(* The connection or the process is lost.                                  *)
SeederDies ==
  /\ seed.at = "tables"
  /\ seed' = [seed EXCEPT !.at = "dead"]
  /\ Close("seed")
  /\ UNCHANGED << commits, eval >>
-----------------------------------------------------------------------------
(* ex_eval.main.  run_sql always rolls back; << >> is None.                *)

Category(i) ==
  CHOOSE c \in Categories : /\ c = 4 \/ i < CatEnds[c]
                            /\ \A d \in 1..(c - 1) : i >= CatEnds[d]

StartMeasuring ==
  /\ eval.at = "start"
  /\ eval' = [eval EXCEPT !.at = "gold"]
  /\ Open("eval")
  /\ UNCHANGED << commits, seed >>

(* The statement of the task, which may run into its time limit.           *)
RunGold ==
  /\ eval.at = "gold"
  /\ eval.i < Tasks
  /\ \E gold \in {<< "gold" >>, << >>} :
       eval' = [eval EXCEPT !.at = "generate", !.gold = gold, !.data = Len(commits),
                            !.asked[Category(eval.i)] = @ + 1]
  /\ UNCHANGED << commits, conn, seed >>

(* The model's text.  "same" has the rows of the task's statement whatever *)
(* the data, "other" has them by chance.                                   *)
Generate ==
  /\ eval.at = "generate"
  /\ \E sql \in Candidates :
       eval' = [eval EXCEPT !.at = "candidate", !.sql = sql, !.left = sql]
  /\ UNCHANGED << commits, conn, seed >>

RunPart ==
  /\ eval.at = "candidate" /\ eval.left # << >>
  /\ ExecuteNext("eval", Head(eval.left))
  /\ eval' = [eval EXCEPT !.left = Tail(@), !.ended = @ \/ Ends(<< Head(eval.left) >>)]
  /\ UNCHANGED seed

(* fetchall has the rows of the last statement and raises if it has none.  *)
Results(sql) ==
  CASE sql[Len(sql)] \in Rowless -> {<< >>}
    [] sql = << "same" >> /\ eval.data = Len(commits) -> {<< "gold" >>, << >>}
    [] OTHER -> {<< "gold" >>, << "other" >>, << >>}

EndedWithRows(c, res) == IF res # << >> THEN RolledBack(c) ELSE c
Ended(c, res) == RolledBack(c)

CorrectLoosely(res) == res = eval.gold
Correct(res) == res # << >> /\ res = eval.gold

Count(res) ==
  eval' = [eval EXCEPT
    !.at = "gold", !.i = @ + 1, !.sql = << >>, !.left = << >>, !.gold = << >>,
    !.execu = IF res # << >> THEN @ + 1 ELSE @,
    !.ex = IF Correct(res) THEN @ + 1 ELSE @,
    !.right[Category(eval.i)] = IF Correct(res) THEN @ + 1 ELSE @,
    !.both = IF res # << >> /\ eval.gold # << >> THEN @ + 1 ELSE @,
    !.same = IF /\ res # << >> /\ eval.gold # << >>
                /\ eval.sql = << "same" >> /\ eval.data = Len(commits)
             THEN @ + 1 ELSE @]

RunCandidate ==
  /\ eval.at = "candidate" /\ eval.left = << >> /\ eval.sql # << >>
  /\ \E res \in Results(eval.sql) :
       /\ Count(res)
       /\ conn' = [conn EXCEPT !["eval"] = Ended(AtEnd(@), res)]
  /\ commits' = commits \o KeptAtEnd(conn["eval"])
  /\ UNCHANGED seed

(* There is no text, or one of its statements fails.                       *)
CandidateFails ==
  /\ eval.at = "candidate" /\ (eval.sql = << >> \/ eval.left # << >>)
  /\ Count(<< >>)
  /\ conn' = [conn EXCEPT !["eval"] = Ended(@, << >>)]
  /\ UNCHANGED << commits, seed >>

(* The connection is lost: the rollback itself raises.                     *)
MeasuringDies ==
  /\ eval.at \in {"gold", "candidate"}
  /\ eval' = [eval EXCEPT !.at = "dead"]
  /\ Close("eval")
  /\ UNCHANGED << commits, seed >>

EndMeasuring ==
  /\ eval.at = "gold"
  /\ eval.i = Tasks
  /\ eval' = [eval EXCEPT !.at = "done"]
  /\ UNCHANGED << commits, conn, seed >>
-----------------------------------------------------------------------------
(* POST /run-sql ("run", or "explain" when a plan is asked for) and        *)
(* POST /predict-time ("predict").                                         *)

NoReply == [status |-> "none", there |-> 0, shown |-> 0, truncated |-> FALSE]

Request(kind, s) ==
  /\ call.at = "idle"
  /\ call' = [at |-> "asked", kind |-> kind, s |-> s, left |-> s.rest, reply |-> NoReply]
  /\ UNCHANGED << commits, conn, ran, trail >>

ReplyWith(status) ==
  call' = [call EXCEPT !.at = "replied", !.reply = [NoReply EXCEPT !.status = status]]

Refuse ==
  /\ call.at = "asked"
  /\ ~IsSafeSelect(Text(call.s))
  /\ ReplyWith("refused")
  /\ UNCHANGED << commits, conn, ran, trail >>

Connect ==
  /\ call.at = "asked"
  /\ IsSafeSelect(Text(call.s))
  /\ \/ /\ Open("handler")
        /\ call' = [call EXCEPT !.at = "open"]
     \/ /\ ReplyWith("failed")
        /\ UNCHANGED conn
  /\ UNCHANGED << commits, ran, trail >>

(* The time limit and the mode are set and the first statement of the text *)
(* is executed, behind the EXPLAIN the handler puts before it; a second    *)
(* EXPLAIN is an error.  The mode set is the default of later transactions,*)
(* so the statement may change data, unless it is only planned.            *)
OnlyPlanned == call.kind = "predict" \/ (call.s.explained /\ ~call.s.analyzed)

RunFirst ==
  /\ call.at = "open"
  /\ call.kind # "run" => ~call.s.explained
  /\ ran' = ran \cup {[kind |-> call.kind, s |-> call.s]}
  /\ call' = [call EXCEPT !.at = "running"]
  /\ \/ ExecuteNext("handler", "query")
     \/ ~OnlyPlanned /\ ExecuteNext("handler", "change")
  /\ UNCHANGED trail

RunNext ==
  /\ call.at = "running" /\ call.left # << >>
  /\ ExecuteNext("handler", Head(call.left))
  /\ call' = [call EXCEPT !.left = Tail(@)]
  /\ UNCHANGED << ran, trail >>

EndOfText ==
  /\ call.at = "running" /\ call.left = << >>
  /\ call' = [call EXCEPT !.at = "ran"]
  /\ conn' = [conn EXCEPT !["handler"] = AtEnd(@)]
  /\ commits' = commits \o KeptAtEnd(conn["handler"])
  /\ UNCHANGED << ran, trail >>

(* An error of the database, of the time limit included; /predict-time     *)
(* leaves the session to be closed with the variable that holds it.        *)
DatabaseFails ==
  /\ call.at \in {"open", "running", "ran"}
  /\ Close("handler")
  /\ ReplyWith("failed")
  /\ UNCHANGED << commits, ran, trail >>

(* fetchmany(Limit + 1)                                                    *)
Fetch(n) == IF n < MaxRows + 1 THEN n ELSE MaxRows + 1

(* The rows of the last statement are read, if it has any; a plan is read  *)
(* from one row, and what is not a plan is an error once it is in the trail*)
Answer ==
  /\ call.at = "ran"
  /\ call.s.rest # << >> => call.s.rest[Len(call.s.rest)] \notin Rowless
  /\ Close("handler")
  /\ trail' = IF call.kind = "predict" THEN trail ELSE trail + 1
  /\ \/ \E there \in IF call.kind = "run" THEN {0, 1, MaxRows, MaxRows + 1, MaxRows + 2}
                      ELSE {1} :
          LET rows == IF call.kind = "run" THEN Fetch(there) ELSE 0
          IN  call' = [call EXCEPT !.at = "replied", !.reply =
                [status |-> "ok", there |-> there, truncated |-> rows > MaxRows,
                 shown |-> IF rows > MaxRows THEN MaxRows ELSE rows]]
     \/ call.kind # "run" /\ call.s.rest # << >> /\ ReplyWith("failed")
  /\ UNCHANGED << commits, ran >>
-----------------------------------------------------------------------------
(* test_auditor_vs_db.main: a rejected statement is executed; one that     *)
(* changes data with the foreign keys off.                                 *)

StartChecking ==
  /\ ~conn["check"].open /\ check.i = 0
  /\ Open("check")
  /\ UNCHANGED << commits, check >>

(* run_in_db: a change is made with the foreign keys off; every branch,    *)
(* the failing one too, ends with a rollback.                              *)
RunInDb(c, kind) ==
  RolledBack(IF kind = "change" THEN Changed([c EXCEPT !.role = "replica"]) ELSE c)

Tally(expect, rejected) ==
  CASE expect = "vuln" /\ rejected -> "tp"
    [] expect = "safe" /\ ~rejected -> "tn"
    [] expect = "safe" /\ rejected -> "fp"
    [] OTHER -> "fn"

CheckQuery ==
  /\ conn["check"].open
  /\ check.i < Len(Queries)
  /\ LET q == Queries[check.i + 1]
     IN  \E rejected \in BOOLEAN :
           /\ check' = [check EXCEPT !.i = @ + 1, ![Tally(q.expect, rejected)] = @ + 1]
           /\ conn' = [conn EXCEPT !["check"] =
                         IF rejected THEN RunInDb(@, q.kind) ELSE @]
           /\ UNCHANGED commits

EndChecking ==
  /\ conn["check"].open
  /\ check.i = Len(Queries)
  /\ Close("check")
  /\ UNCHANGED << commits, check >>
-----------------------------------------------------------------------------
SeedAndMeasure ==
  /\ scene = "seed"
  /\ \/ StartSeeding \/ SkipTable \/ FillTable \/ RefuseTable \/ EndSeeding \/ SeederDies
     \/ StartMeasuring \/ RunGold \/ Generate \/ RunPart \/ RunCandidate
     \/ CandidateFails \/ EndMeasuring \/ MeasuringDies
  /\ UNCHANGED << scene, call, ran, trail, check >>

Serve ==
  Refuse \/ Connect \/ RunFirst \/ RunNext \/ EndOfText \/ DatabaseFails \/ Answer

Handle ==
  /\ scene = "handler"
  /\ \/ \E kind \in {"run", "explain", "predict"}, s \in Requests : Request(kind, s)
     \/ Serve
  /\ UNCHANGED << scene, seed, eval, check >>

CheckAuditor ==
  /\ scene = "check"
  /\ StartChecking \/ CheckQuery \/ EndChecking
  /\ UNCHANGED << scene, seed, eval, call, ran, trail >>

Next == SeedAndMeasure \/ Handle \/ CheckAuditor

Spec == Init /\ [][Next]_vars
-----------------------------------------------------------------------------
TypeOK ==
  /\ \A p \in Programs : conn[p].role \in {"origin", "replica"}
  /\ seed.i \in 0..Len(Tables) /\ eval.i \in 0..Tasks /\ check.i \in 0..Len(Queries)
  /\ trail \in Nat

(* Once the first table is committed, so is the role it was filled in: a   *)
(* table that is left out is then one the rows do not fit, unless a model's*)
(* text changed the tables for good.  What is counted is what is in demo_db*)
(* (seed_db_generic.py:75-90).                                             *)
SeededUnlessUnfit ==
  /\ {commits[i] : i \in DOMAIN commits} \ {"change"} = seed.ok
  /\ \A i \in 1..Len(Tables) :
       Tables[i] \in seed.failed /\ ~Changes =>
         Tables[i] \in Unfit \/ \E j \in 1..i : /\ Tables[j] \in seed.failed \cap Unfit
                                               /\ \A h \in 1..(j - 1) : Tables[h] \notin seed.ok

(* What a model, a user or a list of queries has the programs execute is   *)
(* rolled back, whether it fails or not, and no setting of one statement is*)
(* in force at the next; only a text with a COMMIT or a ROLLBACK of its own*)
(* leaves something in demo_db or in the session.  A handler that has      *)
(* replied has no session left (ex_eval.py:163-172,                        *)
(* test_auditor_vs_db.py:61-71, service.py:2192-2200).                     *)
OthersAreRolledBack ==
  /\ TypeOK
  /\ scene = "check" => commits = << >>
  /\ scene = "handler" /\ commits # << >> => \E r \in ran : Ends(r.s.rest)
  /\ scene = "seed" /\ Changes => eval.ended
  /\ conn["check"].role = "origin" /\ conn["check"].wrote = << >>
  /\ eval.at # "candidate" => conn["eval"].wrote = << >>
  /\ conn["eval"].role # "origin" /\ eval.at # "candidate" => eval.ended
  /\ call.at \in {"idle", "replied"} => conn["handler"] = NoSession

(* The first statement of a text decides.  Where EXPLAIN's words are       *)
(* followed by a space, only queries are executed first, wrapped in        *)
(* whatever way, and a query is refused only if its WITH lacks the space;  *)
(* what follows it is executed unread.  The reply says when rows were left *)
(* out (service.py:2095-2131, 2180-2190).                                  *)
FirstStatementDecides ==
  /\ \A r \in ran : Spaced(r.s) => IsQuery(r.s)
  /\ call.at = "replied" /\ call.reply.status = "refused" /\ Spaced(call.s)
       => ~(IsQuery(call.s) /\ WithHasItsSpace(call.s))
  /\ call.at = "replied" /\ call.kind = "run" =>
       (call.reply.truncated <=> call.reply.there > call.reply.shown)

(* The accuracy counts every statement that means the same as the task's,  *)
(* if both gave rows and no data was written in between, and nothing that  *)
(* gave no rows or whose task gave none: two failures do not agree.  What  *)
(* has the same rows by chance is counted too.  Categories add up          *)
(* (ex_eval.py:188-204).                                                   *)
Sum(f) == f[1] + f[2] + f[3] + f[4]

MeasuresAccuracy ==
  /\ eval.same <= eval.ex /\ eval.ex <= eval.both
  /\ eval.both <= eval.execu /\ eval.execu <= eval.i
  /\ Sum(eval.right) = eval.ex
  /\ eval.at \in {"gold", "done"} => Sum(eval.asked) = eval.i

(* What the script says of itself (seed_db_generic.py:3-4): foreign keys   *)
(* and triggers are off while rows are inserted.                           *)
KeysAreOffWhileSeeding == seed.at = "tables" => conn["seed"].role = "replica"
=============================================================================
