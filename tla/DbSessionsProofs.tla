-------------------------- MODULE DbSessionsProofs --------------------------
(***************************************************************************)
(* What holds of the sessions on demo_db for every list of tables, tasks,  *)
(* texts of users and of a model, and queries: what is left of what they   *)
(* execute, what the seeder leaves, which texts the handlers execute and   *)
(* what the measurement counts.                                            *)
(***************************************************************************)
EXTENDS DbSessions, FiniteSetTheorems, SequenceTheorems, TLAPS

Roles == {"origin", "replica"}
Named == {Tables[i] : i \in DOMAIN Tables}
Written == Named \cup {"change"}
Parts == Acts \cup {"same", "other"}
Sessions == [open : BOOLEAN, role : Roles, kept_role : Roles, wrote : Seq({"change"}),
             block : BOOLEAN]

(* Every record has its fields, every counter its range.                   *)
Typed ==
  /\ scene \in {"seed", "handler", "check"}
  /\ commits \in Seq(Written)
  /\ conn \in [Programs -> Sessions]
  /\ seed \in [at : {"start", "tables", "done", "dead"}, i : 0..Len(Tables),
               ok : SUBSET Named, failed : SUBSET Named]
  /\ check \in [i : 0..Len(Queries), tp : Nat, tn : Nat, fp : Nat, fn : Nat]
  /\ trail \in Nat

(* The measurement: a task is in hand while a text for it is made and run. *)
EvalFields ==
  eval = [at |-> eval.at, i |-> eval.i, gold |-> eval.gold, data |-> eval.data,
          sql |-> eval.sql, left |-> eval.left, ex |-> eval.ex, execu |-> eval.execu,
          right |-> eval.right, asked |-> eval.asked, same |-> eval.same,
          both |-> eval.both, ended |-> eval.ended]

EvalTyped ==
  /\ EvalFields
  /\ eval.at \in {"start", "gold", "generate", "candidate", "done", "dead"}
  /\ eval.i \in 0..Tasks
  /\ eval.at \in {"generate", "candidate"} => eval.i < Tasks
  /\ eval.gold \in {<< >>, << "gold" >>}
  /\ eval.left \in Seq(Parts)
  /\ {eval.ex, eval.execu, eval.same, eval.both} \subseteq Nat
  /\ eval.right \in [Categories -> Nat] /\ eval.asked \in [Categories -> Nat]
  /\ eval.ended \in BOOLEAN

(* The seeder keeps the list of the tables it committed; what else was     *)
(* committed is a change of a text that ended its transaction.             *)
TextEnded == \E r \in ran : Ends(r.s.rest)

CommitsAreSeeded ==
  /\ {commits[i] : i \in DOMAIN commits} \ {"change"} = seed.ok
  /\ scene = "check" => commits = << >>
  /\ scene = "handler" /\ commits # << >> => TextEnded
  /\ scene = "seed" /\ Changes => eval.ended

(* Nothing the auditor's check wrote or set outlives the statement; nothing*)
(* the measurement did, unless a text ended its transaction: only then is  *)
(* a role kept or the transaction not the one psycopg2 began.              *)
ReadersLeaveNothing ==
  /\ conn["check"].role = "origin" /\ conn["check"].kept_role = "origin"
  /\ conn["check"].wrote = << >>
  /\ conn["eval"].kept_role # "origin" => eval.ended
  /\ ~conn["eval"].block => eval.ended
  /\ eval.at # "candidate" =>
       conn["eval"].wrote = << >> /\ conn["eval"].role = conn["eval"].kept_role

(* The handlers: a session is open between Connect and the reply, and only *)
(* for a text that was accepted.                                           *)
Replies == [status : {"none", "refused", "failed", "ok"}, there : Nat, shown : Nat,
            truncated : BOOLEAN]
TellsRows(reply) == reply.truncated <=> (reply.there > reply.shown)

HandlerInv ==
  /\ call.at \in {"idle", "asked", "open", "running", "ran", "replied"}
  /\ call.at # "idle" =>
       /\ call = [at |-> call.at, kind |-> call.kind, s |-> call.s, left |-> call.left,
                  reply |-> call.reply]
       /\ call.s \in Requests
       /\ call.left \in Seq({call.s.rest[i] : i \in DOMAIN call.s.rest})
       /\ call.reply \in Replies
  /\ call.at \in {"idle", "asked", "replied"} => conn["handler"] = NoSession
  /\ call.at \in {"open", "running", "ran"} => IsSafeSelect(Text(call.s))
  /\ call.at = "running" => [kind |-> call.kind, s |-> call.s] \in ran
  /\ call.at = "replied" /\ call.kind = "run" => TellsRows(call.reply)
  /\ call.at = "replied" /\ call.reply.status = "refused" => ~IsSafeSelect(Text(call.s))
  /\ \A r \in ran : r.s \in Requests /\ IsSafeSelect(Text(r.s))
  /\ ~conn["handler"].block => TextEnded

(* The seeder.  What is filled or refused is not one of the skipped tables.*)
(* Before a table was filled or refused, the role is on but not kept; once *)
(* one was filled it is kept, and only rows that do not fit are refused;   *)
(* if one was refused before any was filled, the role is lost for good,    *)
(* and before that table there are only skipped ones.  All this as long as *)
(* nobody else changed the tables for good.                                *)
Untouched(i) == \A h \in 1..i : Tables[h] \in Empty

NothingYet ==
  /\ conn["seed"].role = "replica" /\ Untouched(seed.i)
  /\ seed.ok = {} /\ seed.failed = {}

RoleKept ==
  /\ conn["seed"].role = "replica" /\ conn["seed"].kept_role = "replica"
  /\ seed.failed \subseteq Unfit

FirstRefused ==
  \E j \in 1..seed.i : Tables[j] \in seed.failed \cap Unfit /\ Untouched(j - 1)

RoleLost ==
  /\ conn["seed"].role = "origin" /\ conn["seed"].kept_role = "origin"
  /\ FirstRefused

FitsSoFar ==
  /\ seed.ok \cap Empty = {} /\ seed.failed \cap Empty = {}
  /\ seed.at = "start" => seed.i = 0 /\ seed.ok = {} /\ seed.failed = {}
  /\ seed.at = "tables" => NothingYet \/ RoleKept \/ RoleLost
  /\ seed.failed \subseteq Unfit \/ FirstRefused

SeederInv == Changes \/ FitsSoFar

(* The counters of the measurement: what means the same is counted if both *)
(* have rows and no data was written, what has none is not, and a category *)
(* has what was counted for it; of a task in hand only the category knows. *)
Counted ==
  /\ eval.same <= eval.ex /\ eval.ex <= eval.both
  /\ eval.both <= eval.execu /\ eval.execu <= eval.i
  /\ Sum(eval.right) = eval.ex
  /\ eval.at \in {"start", "gold", "done"} => Sum(eval.asked) = eval.i
  /\ eval.at \in {"generate", "candidate"} => Sum(eval.asked) = eval.i + 1

IInv ==
  /\ Typed /\ EvalTyped
  /\ CommitsAreSeeded /\ ReadersLeaveNothing /\ HandlerInv /\ SeederInv /\ Counted
-----------------------------------------------------------------------------
(* Facts about the operators.                                              *)

LEMMA SeqElements ==
  ASSUME NEW S, NEW s \in Seq(S)
  PROVE  Len(s) \in Nat /\ DOMAIN s = 1..Len(s) /\ \A i \in 1..Len(s) : s[i] \in S
OBVIOUS

LEMMA LengthsAreNumbers ==
  /\ Len(Tables) \in Nat /\ DOMAIN Tables = 1..Len(Tables)
  /\ Len(Queries) \in Nat
<1>1. Tables \in Seq({Tables[i] : i \in DOMAIN Tables})
  BY ListsAssumption
<1>2. Queries \in Seq({Queries[i] : i \in DOMAIN Queries})
  BY ListsAssumption
<1>3. Len(Tables) \in Nat /\ DOMAIN Tables = 1..Len(Tables)
  BY <1>1, SeqElements
<1>4. Len(Queries) \in Nat
  BY <1>2, SeqElements
<1>5. QED
  BY <1>3, <1>4

LEMMA CategoryType == ASSUME NEW i \in Nat PROVE Category(i) \in Categories
<1>1. CatEnds[1] \in Nat /\ CatEnds[2] \in Nat /\ CatEnds[3] \in Nat
  <2>1. DOMAIN CatEnds = 1..3 /\ \A c \in 1..3 : CatEnds[c] \in Nat
    BY CatEndsAssumption, SeqElements
  <2>2. QED
    BY <2>1
<1>2. \E c \in Categories : /\ c = 4 \/ i < CatEnds[c]
                            /\ \A d \in 1..(c - 1) : i >= CatEnds[d]
  <2>1. CASE i < CatEnds[1]
    BY <1>1, <2>1, 1 \in Categories DEF Categories
  <2>2. CASE i >= CatEnds[1] /\ i < CatEnds[2]
    BY <1>1, <2>2, 2 \in Categories DEF Categories
  <2>3. CASE i >= CatEnds[1] /\ i >= CatEnds[2] /\ i < CatEnds[3]
    BY <1>1, <2>3, 3 \in Categories DEF Categories
  <2>4. CASE i >= CatEnds[1] /\ i >= CatEnds[2] /\ i >= CatEnds[3]
    BY <1>1, <2>4, 4 \in Categories DEF Categories
  <2>5. QED
    BY <1>1, <2>1, <2>2, <2>3, <2>4
<1>3. QED
  BY <1>2 DEF Category

LEMMA SumOfOneMore ==
  ASSUME NEW f \in [Categories -> Nat], NEW c \in Categories
  PROVE  /\ [f EXCEPT ![c] = @ + 1] \in [Categories -> Nat]
         /\ Sum([f EXCEPT ![c] = @ + 1]) = Sum(f) + 1
<1>1. /\ f[1] \in Nat /\ f[2] \in Nat /\ f[3] \in Nat /\ f[4] \in Nat
      /\ 1 \in Categories /\ 2 \in Categories /\ 3 \in Categories /\ 4 \in Categories
  BY DEF Categories
<1>2. c = 1 \/ c = 2 \/ c = 3 \/ c = 4
  BY DEF Categories
<1>3. QED
  BY <1>1, <1>2 DEF Sum

LEMMA SessionTypes ==
  /\ NoSession \in Sessions /\ Session \in Sessions
  /\ [Session EXCEPT !.role = "replica"] \in Sessions
  /\ \A c \in Sessions : /\ RolledBack(c) \in Sessions /\ Changed(c) \in Sessions
                         /\ Committed(c) \in Sessions
                         /\ [c EXCEPT !.kept_role = c.role] \in Sessions
                         /\ [c EXCEPT !.role = "replica"] \in Sessions
<1>1. << >> \in Seq({"change"})
  OBVIOUS
<1>2. NoSession \in Sessions
  BY <1>1 DEF NoSession, Sessions, Roles
<1>3. Session \in Sessions
  BY <1>2 DEF Session, Sessions, Roles
<1>4. ASSUME NEW c \in Sessions
      PROVE  /\ RolledBack(c) \in Sessions /\ Committed(c) \in Sessions
             /\ [c EXCEPT !.kept_role = c.role] \in Sessions
             /\ [c EXCEPT !.role = "replica"] \in Sessions
  BY <1>1, <1>4 DEF RolledBack, Committed, Sessions, Roles
<1>5. ASSUME NEW c \in Sessions PROVE Changed(c) \in Sessions
  <2>1. Append(c.wrote, "change") \in Seq({"change"})
    BY <1>5 DEF Sessions
  <2> DEFINE w == Append(c.wrote, "change")
  <2>2. Changed(c) = [c EXCEPT !.wrote = w]
    BY DEF Changed
  <2> HIDE DEF w
  <2>3. QED
    BY <1>5, <2>1, <2>2 DEF Sessions, w
<1>6. QED
  BY <1>2, <1>3, <1>4, <1>5

(* What a rollback and a statement leave of a session.                     *)
LEMMA RolledBackParts ==
  ASSUME NEW c \in Sessions
  PROVE  /\ RolledBack(c) \in Sessions /\ RolledBack(c).wrote = << >> /\ RolledBack(c).block
         /\ RolledBack(c).role = c.kept_role /\ RolledBack(c).kept_role = c.kept_role
BY SessionTypes DEF RolledBack, Sessions

LEMMA AfterParts ==
  ASSUME NEW c \in Sessions, NEW act
  PROVE  /\ After(c, act) \in Sessions
         /\ act # "commit" => After(c, act).kept_role = c.kept_role
         /\ act \notin {"commit", "rollback"} => (c.block => After(c, act).block)
<1>1. CASE act \in {"change", "returning"}
  <2>1. After(c, act) = Changed(c)
    BY <1>1 DEF After
  <2>2. Changed(c).kept_role = c.kept_role /\ Changed(c).block = c.block
    BY DEF Changed, Sessions
  <2>3. QED
    BY <2>1, <2>2, SessionTypes
<1>2. CASE act = "set"
  BY <1>2, SessionTypes DEF After, Sessions
<1>3. CASE act = "commit"
  <2>1. After(c, act) = [Committed(c) EXCEPT !.block = FALSE]
    BY <1>3 DEF After
  <2>2. QED
    BY <1>3, <2>1, SessionTypes DEF Sessions
<1>4. CASE act = "rollback"
  <2>1. After(c, act) = [RolledBack(c) EXCEPT !.block = FALSE]
    BY <1>4 DEF After
  <2>2. QED
    BY <1>4, <2>1, RolledBackParts DEF Sessions
<1>5. CASE act = "begin"
  BY <1>5 DEF After, Sessions
<1>6. CASE act \notin {"change", "returning", "set", "commit", "rollback", "begin"}
  BY <1>6 DEF After
<1>7. QED
  BY <1>1, <1>2, <1>3, <1>4, <1>5, <1>6

LEMMA AtEndParts ==
  ASSUME NEW c \in Sessions
  PROVE  /\ AtEnd(c) \in Sessions /\ KeptAtEnd(c) \in Seq({"change"})
         /\ c.block => AtEnd(c) = c /\ KeptAtEnd(c) = << >>
         /\ AtEnd(c).block = c.block
<1>1. c.wrote \in Seq({"change"}) /\ << >> \in Seq({"change"})
  BY DEF Sessions
<1>2. Committed(c) \in Sessions /\ Committed(c).block = c.block
  BY SessionTypes DEF Committed, Sessions
<1>3. QED
  BY <1>1, <1>2 DEF AtEnd, KeptAtEnd

(* A step that executes a statement of a program.                          *)
LEMMA NextStatement ==
  ASSUME Typed, NEW p \in Programs, NEW act, ExecuteNext(p, act)
  PROVE  /\ conn' = [conn EXCEPT ![p] = After(conn[p], act)]
         /\ conn'[p] = After(conn[p], act) /\ conn[p] \in Sessions
         /\ conn' \in [Programs -> Sessions]
         /\ act # "commit" => commits' = commits
         /\ act = "commit" => commits' = commits \o conn[p].wrote
         /\ commits' \in Seq(Written)
<1>1. conn \in [Programs -> Sessions] /\ conn[p] \in Sessions
  BY DEF Typed
<1>2. After(conn[p], act) \in Sessions
  BY <1>1, AfterParts
<1>3. conn' = [conn EXCEPT ![p] = After(conn[p], act)]
  BY DEF ExecuteNext
<1>4. conn'[p] = After(conn[p], act) /\ conn' \in [Programs -> Sessions]
  BY <1>1, <1>2, <1>3
<1>5. /\ act # "commit" => commits' = commits
      /\ act = "commit" => commits' = commits \o conn[p].wrote
  BY DEF ExecuteNext
<1>6. commits' \in Seq(Written)
  <2>1. conn[p].wrote \in Seq({"change"}) /\ commits \in Seq(Written)
    BY <1>1 DEF Sessions, Typed
  <2>2. conn[p].wrote \in Seq(Written)
    BY <2>1, SeqMonotonic, {"change"} \subseteq Written DEF Written
  <2>3. commits \o conn[p].wrote \in Seq(Written)
    BY <2>1, <2>2
  <2>4. QED
    BY <1>5, <2>1, <2>3
<1>7. QED
  BY <1>1, <1>3, <1>4, <1>5, <1>6

(* Changes added to what was committed.                                    *)
LEMMA ChangesAdded ==
  ASSUME NEW q \in Seq(Written), NEW w \in Seq({"change"})
  PROVE  /\ q \o w \in Seq(Written)
         /\ {(q \o w)[i] : i \in DOMAIN (q \o w)} \ {"change"}
              = {q[i] : i \in DOMAIN q} \ {"change"}
         /\ (\E i \in DOMAIN q : q[i] = "change") =>
              \E i \in DOMAIN (q \o w) : (q \o w)[i] = "change"
         /\ (\E i \in DOMAIN (q \o w) : (q \o w)[i] = "change") /\ w = << >> =>
              \E i \in DOMAIN q : q[i] = "change"
         /\ w = << >> => q \o w = q
<1>1. w \in Seq(Written) /\ \A i \in 1..Len(w) : w[i] = "change"
  BY SeqMonotonic, {"change"} \subseteq Written, ElementOfSeq DEF Written
<1> DEFINE u == q \o w
<1>2. /\ u \in Seq(Written) /\ Len(q) \in Nat /\ Len(w) \in Nat
      /\ DOMAIN u = 1..(Len(q) + Len(w)) /\ DOMAIN q = 1..Len(q)
      /\ \A j \in 1..Len(q) : u[j] = q[j]
      /\ \A j \in 1..Len(w) : u[Len(q) + j] = w[j]
  BY <1>1
<1>3. w = << >> => u = q
  BY ConcatEmptySeq
<1> HIDE DEF u
<1>4. \A i \in DOMAIN u : i \in DOMAIN q \/ u[i] = "change"
  <2>1. SUFFICES ASSUME NEW i \in DOMAIN u, i \notin DOMAIN q PROVE u[i] = "change"
    OBVIOUS
  <2>2. i - Len(q) \in 1..Len(w) /\ Len(q) + (i - Len(q)) = i
    BY <1>2, <2>1
  <2>3. u[Len(q) + (i - Len(q))] = w[i - Len(q)]
    BY <1>2, <2>2
  <2>4. QED
    BY <1>1, <2>2, <2>3
<1>5. \A i \in DOMAIN q : i \in DOMAIN u /\ u[i] = q[i]
  BY <1>2
<1>6. {u[i] : i \in DOMAIN u} \ {"change"} = {q[i] : i \in DOMAIN q} \ {"change"}
  BY <1>4, <1>5
<1>7. (\E i \in DOMAIN q : q[i] = "change") => \E i \in DOMAIN u : u[i] = "change"
  BY <1>5
<1>8. QED
  BY <1>2, <1>3, <1>6, <1>7 DEF u

-----------------------------------------------------------------------------
(* Types.                                                                  *)

LEMMA InitTyped == Init => Typed /\ EvalTyped
<1> SUFFICES ASSUME Init PROVE Typed /\ EvalTyped
  OBVIOUS
<1>1. Typed
  <2>1. conn \in [Programs -> Sessions]
    BY SessionTypes DEF Init
  <2>2. commits \in Seq(Written)
    <3>1. commits = << >>
      BY DEF Init
    <3>2. QED
      BY <3>1
  <2>3. seed \in [at : {"start", "tables", "done", "dead"}, i : 0..Len(Tables),
                  ok : SUBSET Named, failed : SUBSET Named]
    <3>1. 0 \in 0..Len(Tables)
      BY LengthsAreNumbers
    <3>2. QED
      BY <3>1 DEF Init
  <2>4. check \in [i : 0..Len(Queries), tp : Nat, tn : Nat, fp : Nat, fn : Nat]
    <3>1. 0 \in 0..Len(Queries)
      BY LengthsAreNumbers
    <3>2. QED
      BY <3>1 DEF Init
  <2>5. QED
    BY <2>1, <2>2, <2>3, <2>4 DEF Init, Typed
<1>2. EvalTyped
  <2>1. eval = [at |-> "start", i |-> 0, gold |-> << >>, data |-> 0, sql |-> << >>,
                left |-> << >>, ex |-> 0, execu |-> 0,
                right |-> [c \in Categories |-> 0], asked |-> [c \in Categories |-> 0],
                same |-> 0, both |-> 0, ended |-> FALSE]
    BY DEF Init
  <2>2. 0 \in 0..Tasks
    BY NumbersAssumption
  <2>3. eval.right \in [Categories -> Nat] /\ eval.asked \in [Categories -> Nat]
    BY <2>1
  <2>4. /\ eval.at = "start" /\ eval.i = 0 /\ eval.gold = << >>
        /\ eval.ex = 0 /\ eval.execu = 0 /\ eval.same = 0 /\ eval.both = 0
        /\ eval.left = << >> /\ eval.ended = FALSE
    BY <2>1
  <2>5. EvalFields
    BY <2>1 DEF EvalFields
  <2>6. eval.left \in Seq(Parts) /\ eval.gold \in {<< >>, << "gold" >>}
    BY <2>4
  <2>7. /\ eval.i \in 0..Tasks /\ eval.at = "start" /\ eval.ended \in BOOLEAN
        /\ {eval.ex, eval.execu, eval.same, eval.both} \subseteq Nat
    <3>1. eval.ended \in BOOLEAN
      BY <2>4, Zenon
    <3>2. eval.i \in 0..Tasks /\ eval.at = "start"
      BY <2>2, <2>4
    <3>3. {eval.ex, eval.execu, eval.same, eval.both} \subseteq Nat
      BY <2>4
    <3>4. QED
      BY <3>1, <3>2, <3>3
  <2>8. QED
    BY <2>3, <2>5, <2>6, <2>7 DEF EvalTyped
<1>3. QED
  BY <1>1, <1>2

LEMMA SeedTables ==
  ASSUME Typed, AtTable
  PROVE  NextTable \in Named /\ seed.i + 1 \in 0..Len(Tables) /\ NextTable # "change"
BY LengthsAreNumbers, ListsAssumption DEF Typed, AtTable, NextTable, Named

SeederSteps ==
  StartSeeding \/ SkipTable \/ FillTable \/ RefuseTable \/ EndSeeding \/ SeederDies

MeasuringSteps ==
  \/ StartMeasuring \/ RunGold \/ Generate \/ RunPart \/ RunCandidate \/ CandidateFails
  \/ EndMeasuring \/ MeasuringDies

LEMMA SeedOrMeasure ==
  SeedAndMeasure => /\ scene = "seed"
                    /\ SeederSteps \/ MeasuringSteps
                    /\ UNCHANGED << scene, call, ran, trail, check >>
BY DEF SeedAndMeasure, SeederSteps, MeasuringSteps

LEMMA SeederTyped ==
  ASSUME Typed, SeederSteps, UNCHANGED << scene, call, ran, trail, check >>
  PROVE  Typed' /\ UNCHANGED eval
<1>1. CASE StartSeeding
  BY <1>1, SessionTypes DEF StartSeeding, Typed, Programs
<1>2. CASE SkipTable
  BY <1>2, SeedTables DEF SkipTable, Typed
<1>3. CASE FillTable
  <2>1. NextTable \in Named /\ seed.i + 1 \in 0..Len(Tables)
    BY <1>3, SeedTables DEF FillTable
  <2>2. conn' \in [Programs -> Sessions]
    BY <1>3, SessionTypes DEF FillTable, CommitTo, Typed, Programs
  <2>3. commits' \in Seq(Written)
    BY <1>3, <2>1 DEF FillTable, CommitTo, Typed, Written
  <2>4. seed' \in [at : {"start", "tables", "done", "dead"}, i : 0..Len(Tables),
                   ok : SUBSET Named, failed : SUBSET Named]
    BY <1>3, <2>1 DEF FillTable, Typed
  <2>5. QED
    BY <1>3, <2>2, <2>3, <2>4 DEF FillTable, Typed
<1>4. CASE RefuseTable
  <2>1. NextTable \in Named /\ seed.i + 1 \in 0..Len(Tables)
    BY <1>4, SeedTables DEF RefuseTable
  <2>2. conn' \in [Programs -> Sessions]
    BY <1>4, SessionTypes DEF RefuseTable, Typed, Programs
  <2>3. QED
    BY <1>4, <2>1, <2>2 DEF RefuseTable, Typed
<1>5. CASE EndSeeding
  BY <1>5, SessionTypes DEF EndSeeding, Close, Typed, Programs
<1>6. CASE SeederDies
  BY <1>6, SessionTypes DEF SeederDies, Close, Typed, Programs
<1>7. QED
  BY <1>1, <1>2, <1>3, <1>4, <1>5, <1>6 DEF SeederSteps

(* What the measurement makes of its session and of the data.              *)
LEMMA MeasuringSessions ==
  ASSUME Typed, MeasuringSteps
  PROVE  /\ UNCHANGED seed
         /\ \E c \in Sessions : conn' = [conn EXCEPT !["eval"] = c] /\ conn'["eval"] = c
         /\ commits' = commits \/ \E w \in Seq({"change"}) : commits' = commits \o w
<1>0. /\ conn["eval"] \in Sessions /\ "eval" \in Programs
      /\ \A c : [conn EXCEPT !["eval"] = c]["eval"] = c
      /\ conn = [conn EXCEPT !["eval"] = conn["eval"]]
  BY DEF Typed, Programs
<1>1. CASE StartMeasuring \/ MeasuringDies
  BY <1>0, <1>1, SessionTypes DEF StartMeasuring, MeasuringDies, Open, Close
<1>2. CASE RunGold \/ Generate \/ EndMeasuring
  BY <1>0, <1>2 DEF RunGold, Generate, EndMeasuring
<1>3. CASE RunPart
  <2>1. PICK act : ExecuteNext("eval", act)
    BY <1>3 DEF RunPart
  <2>2. conn' = [conn EXCEPT !["eval"] = After(conn["eval"], act)]
    BY <1>0, <2>1, NextStatement, Zenon
  <2>3. After(conn["eval"], act) \in Sessions
    BY <1>0, AfterParts
  <2>4. commits' = commits \/ commits' = commits \o conn["eval"].wrote
    BY <2>1 DEF ExecuteNext
  <2>5. conn["eval"].wrote \in Seq({"change"})
    BY <1>0 DEF Sessions
  <2>6. UNCHANGED seed
    BY <1>3 DEF RunPart
  <2>7. QED
    BY <1>0, <2>2, <2>3, <2>4, <2>5, <2>6, Zenon
<1>4. CASE RunCandidate
  <2>1. PICK res : conn' = [conn EXCEPT !["eval"] = Ended(AtEnd(conn["eval"]), res)]
    BY <1>4 DEF RunCandidate
  <2>2. Ended(AtEnd(conn["eval"]), res) \in Sessions
    BY <1>0, AtEndParts, RolledBackParts DEF Ended
  <2>3. commits' = commits \o KeptAtEnd(conn["eval"]) /\ UNCHANGED seed
    BY <1>4 DEF RunCandidate
  <2>4. KeptAtEnd(conn["eval"]) \in Seq({"change"})
    BY <1>0, AtEndParts
  <2>5. QED
    BY <1>0, <2>1, <2>2, <2>3, <2>4, Zenon
<1>5. CASE CandidateFails
  <2>1. conn' = [conn EXCEPT !["eval"] = Ended(conn["eval"], << >>)]
    BY <1>5 DEF CandidateFails
  <2>2. Ended(conn["eval"], << >>) \in Sessions
    BY <1>0, RolledBackParts DEF Ended
  <2>3. UNCHANGED << commits, seed >>
    BY <1>5 DEF CandidateFails
  <2>4. QED
    BY <1>0, <2>1, <2>2, <2>3, Zenon
<1>6. QED
  BY <1>1, <1>2, <1>3, <1>4, <1>5 DEF MeasuringSteps

LEMMA MeasuringTyped ==
  ASSUME Typed, MeasuringSteps, UNCHANGED << scene, call, ran, trail, check >>
  PROVE  Typed'
<1>1. PICK c \in Sessions : conn' = [conn EXCEPT !["eval"] = c]
  BY MeasuringSessions
<1>2. conn' \in [Programs -> Sessions]
  BY <1>1 DEF Typed
<1>3. UNCHANGED seed
  BY MeasuringSessions
<1>4. commits \in Seq(Written)
  BY DEF Typed
<1>5. commits' \in Seq(Written)
  <2>1. CASE commits' = commits
    BY <1>4, <2>1
  <2>2. CASE \E w \in Seq({"change"}) : commits' = commits \o w
    BY <1>4, <2>2, ChangesAdded
  <2>3. QED
    BY <2>1, <2>2, MeasuringSessions
<1>6. QED
  BY <1>2, <1>3, <1>5 DEF Typed

(* What a handler makes of its session and of the data.                    *)
LEMMA HandlerSessions ==
  ASSUME Typed, Handle
  PROVE  /\ UNCHANGED << scene, seed, eval, check >> /\ scene = "handler"
         /\ conn' = conn \/ \E c \in Sessions : conn' = [conn EXCEPT !["handler"] = c]
         /\ commits' = commits \/ \E w \in Seq({"change"}) : commits' = commits \o w
         /\ trail' = trail \/ trail' = trail + 1
<1>0. conn["handler"] \in Sessions /\ "handler" \in Programs
  BY DEF Typed, Programs
<1>1. UNCHANGED << scene, seed, eval, check >> /\ scene = "handler"
  BY DEF Handle
<1>2. ASSUME NEW act, ExecuteNext("handler", act)
      PROVE  /\ \E c \in Sessions : conn' = [conn EXCEPT !["handler"] = c]
             /\ commits' = commits \/ \E w \in Seq({"change"}) : commits' = commits \o w
  <2>1. conn' = [conn EXCEPT !["handler"] = After(conn["handler"], act)]
    BY <1>0, <1>2, NextStatement, Zenon
  <2>2. After(conn["handler"], act) \in Sessions
    BY <1>0, AfterParts
  <2>3. commits' = commits \/ commits' = commits \o conn["handler"].wrote
    BY <1>2 DEF ExecuteNext
  <2>4. conn["handler"].wrote \in Seq({"change"})
    BY <1>0 DEF Sessions
  <2>5. QED
    BY <2>1, <2>2, <2>3, <2>4, Zenon
<1>3. CASE \E kind \in {"run", "explain", "predict"}, s \in Requests : Request(kind, s)
  BY <1>1, <1>3 DEF Request
<1>4. CASE Refuse
  BY <1>1, <1>4 DEF Refuse
<1>5. CASE Connect
  BY <1>1, <1>5, SessionTypes DEF Connect, Open
<1>6. CASE RunFirst
  BY <1>1, <1>2, <1>6 DEF RunFirst
<1>7. CASE RunNext
  BY <1>1, <1>2, <1>7 DEF RunNext
<1>8. CASE EndOfText
  <2>1. AtEnd(conn["handler"]) \in Sessions /\ KeptAtEnd(conn["handler"]) \in Seq({"change"})
    BY <1>0, AtEndParts
  <2>2. /\ conn' = [conn EXCEPT !["handler"] = AtEnd(conn["handler"])]
        /\ commits' = commits \o KeptAtEnd(conn["handler"]) /\ UNCHANGED trail
    BY <1>8 DEF EndOfText
  <2>3. QED
    BY <1>1, <2>1, <2>2, Zenon
<1>9. CASE DatabaseFails
  BY <1>1, <1>9, SessionTypes DEF DatabaseFails, Close
<1>10. CASE Answer
  BY <1>1, <1>10, SessionTypes DEF Answer, Close
<1>11. QED
  BY <1>3, <1>4, <1>5, <1>6, <1>7, <1>8, <1>9, <1>10 DEF Handle, Serve

LEMMA HandlerTyped ==
  ASSUME Typed, Handle
  PROVE  Typed' /\ UNCHANGED eval
<1>1. /\ UNCHANGED << scene, seed, eval, check >>
      /\ conn' = conn \/ \E c \in Sessions : conn' = [conn EXCEPT !["handler"] = c]
      /\ commits' = commits \/ \E w \in Seq({"change"}) : commits' = commits \o w
      /\ trail' = trail \/ trail' = trail + 1
  BY HandlerSessions
<1>2. conn' \in [Programs -> Sessions]
  BY <1>1 DEF Typed
<1>3. commits \in Seq(Written)
  BY DEF Typed
<1>4. commits' \in Seq(Written)
  BY <1>1, <1>3, ChangesAdded
<1>5. trail' \in Nat
  BY <1>1 DEF Typed
<1>6. QED
  BY <1>1, <1>2, <1>4, <1>5 DEF Typed

LEMMA CheckTyped ==
  ASSUME Typed, CheckAuditor
  PROVE  Typed' /\ UNCHANGED eval
<1>1. conn["check"] \in Sessions
  BY DEF Typed, Programs
<1>2. UNCHANGED << scene, commits, seed, eval, trail >>
  BY DEF CheckAuditor, StartChecking, CheckQuery, EndChecking
<1>3. CASE StartChecking
  BY <1>2, <1>3, SessionTypes DEF StartChecking, Open, Typed, Programs
<1>4. CASE CheckQuery
  <2> DEFINE q == Queries[check.i + 1]
  <2>1. PICK rejected \in BOOLEAN :
          /\ check' = [check EXCEPT !.i = @ + 1, ![Tally(q.expect, rejected)] = @ + 1]
          /\ conn' = [conn EXCEPT !["check"] = IF rejected THEN RunInDb(@, q.kind) ELSE @]
    BY <1>4, Zenon DEF CheckQuery
  <2>2. check.i + 1 \in 1..Len(Queries) /\ check.i + 1 \in 0..Len(Queries)
    BY <1>4, LengthsAreNumbers DEF CheckQuery, Typed
  <2>3. Tally(q.expect, rejected) \in {"tp", "tn", "fp", "fn"}
    BY DEF Tally
  <2>4. check' \in [i : 0..Len(Queries), tp : Nat, tn : Nat, fp : Nat, fn : Nat]
    <3>1. PICK k \in {"tp", "tn", "fp", "fn"} :
            check' = [check EXCEPT !.i = @ + 1, ![k] = @ + 1]
      BY <2>1, <2>3
    <3>2. check \in [i : 0..Len(Queries), tp : Nat, tn : Nat, fp : Nat, fn : Nat]
      BY DEF Typed
    <3> DEFINE one == [check EXCEPT !.i = check.i + 1]
    <3>3. one \in [i : 0..Len(Queries), tp : Nat, tn : Nat, fp : Nat, fn : Nat]
      BY <2>2, <3>2
    <3>4. check' = [one EXCEPT ![k] = one[k] + 1]
      BY <3>1, <3>2
    <3> HIDE DEF one
    <3>5. QED
      BY <3>3, <3>4
  <2>5. RunInDb(conn["check"], q.kind) \in Sessions
    BY <1>1, SessionTypes DEF RunInDb
  <2>6. conn' \in [Programs -> Sessions]
    BY <2>1, <2>5 DEF Typed, Programs
  <2>7. QED
    BY <1>2, <2>4, <2>6 DEF Typed
<1>5. CASE EndChecking
  BY <1>2, <1>5, SessionTypes DEF EndChecking, Close, Typed, Programs
<1>6. QED
  BY <1>2, <1>3, <1>4, <1>5 DEF CheckAuditor

LEMMA StepTyped == ASSUME Typed, [Next]_vars PROVE Typed'
<1>1. CASE SeedAndMeasure
  BY <1>1, SeedOrMeasure, SeederTyped, MeasuringTyped
<1>2. CASE Handle
  BY <1>2, HandlerTyped
<1>3. CASE CheckAuditor
  BY <1>3, CheckTyped
<1>4. CASE UNCHANGED vars
  BY <1>4 DEF vars, Typed
<1>5. QED
  BY <1>1, <1>2, <1>3, <1>4 DEF Next

-----------------------------------------------------------------------------
(* The counters.                                                           *)

LEMMA EvalNumbers ==
  ASSUME EvalTyped
  PROVE  /\ eval.i \in 0..Tasks /\ Tasks \in Nat /\ eval.i \in Nat
         /\ eval.ex \in Nat /\ eval.execu \in Nat /\ eval.same \in Nat /\ eval.both \in Nat
         /\ eval.right \in [Categories -> Nat] /\ eval.asked \in [Categories -> Nat]
         /\ Category(eval.i) \in Categories
<1>1. /\ eval.i \in 0..Tasks /\ Tasks \in Nat
      /\ eval.ex \in Nat /\ eval.execu \in Nat /\ eval.same \in Nat /\ eval.both \in Nat
      /\ eval.right \in [Categories -> Nat] /\ eval.asked \in [Categories -> Nat]
  BY NumbersAssumption DEF EvalTyped
<1>2. eval.i \in Nat
  BY <1>1
<1>3. QED
  BY <1>1, <1>2, CategoryType

(* A result that is taken for right was compared with one; the result of a *)
(* text that means the same, on the same data, is taken for right.         *)
LEMMA ResultsAreCompared ==
  ASSUME EvalTyped, NEW res, res = << >> \/ res \in Results(eval.sql)
  PROVE  /\ Correct(res) => res # << >> /\ eval.gold # << >>
         /\ /\ res # << >> /\ eval.gold # << >>
            /\ eval.sql = << "same" >> /\ eval.data = Len(commits)
            => Correct(res)
<1>1. Correct(res) => res # << >> /\ eval.gold # << >>
  BY DEF Correct
<1>2. ASSUME res # << >>, eval.gold # << >>, eval.sql = << "same" >>, eval.data = Len(commits)
      PROVE  Correct(res)
  <2>1. eval.gold = << "gold" >>
    BY <1>2 DEF EvalTyped
  <2>2. eval.sql[Len(eval.sql)] = "same" /\ "same" \notin Rowless
    BY <1>2 DEF Rowless
  <2>3. Results(eval.sql) = {<< "gold" >>, << >>}
    BY <1>2, <2>2 DEF Results
  <2>4. QED
    BY <1>2, <2>1, <2>3 DEF Correct
<1>3. QED
  BY <1>1, <1>2

LEMMA CountFields ==
  ASSUME EvalTyped, NEW res, res = << >> \/ res \in Results(eval.sql), Count(res)
  PROVE  LET c == Category(eval.i) IN
         \E right, same, both, execu \in BOOLEAN :
           /\ same => right
           /\ right => both
           /\ both => execu
           /\ eval' = [at |-> "gold", i |-> eval.i + 1, gold |-> << >>, data |-> eval.data,
                sql |-> << >>, left |-> << >>,
                ex |-> IF right THEN eval.ex + 1 ELSE eval.ex,
                execu |-> IF execu THEN eval.execu + 1 ELSE eval.execu,
                right |-> IF right THEN [eval.right EXCEPT ![c] = @ + 1] ELSE eval.right,
                asked |-> eval.asked,
                same |-> IF same THEN eval.same + 1 ELSE eval.same,
                both |-> IF both THEN eval.both + 1 ELSE eval.both,
                ended |-> eval.ended]
<1> DEFINE c == Category(eval.i)
           right == Correct(res)
           execu == res # << >>
           both == res # << >> /\ eval.gold # << >>
           same == /\ res # << >> /\ eval.gold # << >>
                   /\ eval.sql = << "same" >> /\ eval.data = Len(commits)
<1>1. c \in Categories /\ eval.right \in [Categories -> Nat]
  BY EvalNumbers
<1>2. right \in BOOLEAN /\ execu \in BOOLEAN /\ same \in BOOLEAN /\ both \in BOOLEAN
  BY DEF Correct
<1>3. (same => right) /\ (right => both) /\ (both => execu)
  BY ResultsAreCompared
<1>4. eval' = [eval EXCEPT
         !.at = "gold", !.i = @ + 1, !.sql = << >>, !.left = << >>, !.gold = << >>,
         !.execu = IF execu THEN @ + 1 ELSE @,
         !.ex = IF right THEN @ + 1 ELSE @,
         !.right[c] = IF right THEN @ + 1 ELSE @,
         !.both = IF both THEN @ + 1 ELSE @,
         !.same = IF same THEN @ + 1 ELSE @]
  BY DEF Count
<1> HIDE DEF right, execu, same, both
<1>5. eval' = [at |-> "gold", i |-> eval.i + 1, gold |-> << >>, data |-> eval.data,
               sql |-> << >>, left |-> << >>,
               ex |-> IF right THEN eval.ex + 1 ELSE eval.ex,
               execu |-> IF execu THEN eval.execu + 1 ELSE eval.execu,
               right |-> [eval.right EXCEPT ![c] = IF right THEN @ + 1 ELSE @],
               asked |-> eval.asked,
               same |-> IF same THEN eval.same + 1 ELSE eval.same,
               both |-> IF both THEN eval.both + 1 ELSE eval.both,
               ended |-> eval.ended]
  BY <1>4 DEF EvalTyped, EvalFields
<1>6. [eval.right EXCEPT ![c] = IF right THEN @ + 1 ELSE @]
        = IF right THEN [eval.right EXCEPT ![c] = @ + 1] ELSE eval.right
  BY <1>1, <1>2
<1>7. eval' = [at |-> "gold", i |-> eval.i + 1, gold |-> << >>, data |-> eval.data,
               sql |-> << >>, left |-> << >>,
               ex |-> IF right THEN eval.ex + 1 ELSE eval.ex,
               execu |-> IF execu THEN eval.execu + 1 ELSE eval.execu,
               right |-> IF right THEN [eval.right EXCEPT ![c] = @ + 1] ELSE eval.right,
               asked |-> eval.asked,
               same |-> IF same THEN eval.same + 1 ELSE eval.same,
               both |-> IF both THEN eval.both + 1 ELSE eval.both,
               ended |-> eval.ended]
  BY <1>5, <1>6
<1>8. QED
  BY <1>2, <1>3, <1>7, ZenonT(60)

(* A result is counted.                                                    *)
LEMMA CountStep ==
  ASSUME EvalTyped, Counted, eval.at = "candidate",
         NEW res, res = << >> \/ res \in Results(eval.sql), Count(res)
  PROVE  EvalTyped' /\ Counted' /\ eval'.at = "gold" /\ eval'.ended = eval.ended
<1> DEFINE c == Category(eval.i)
           more == [eval.right EXCEPT ![c] = @ + 1]
<1>1. /\ eval.i \in 0..Tasks /\ Tasks \in Nat /\ eval.i \in Nat
      /\ eval.ex \in Nat /\ eval.execu \in Nat /\ eval.same \in Nat /\ eval.both \in Nat
      /\ eval.right \in [Categories -> Nat] /\ eval.asked \in [Categories -> Nat]
      /\ c \in Categories
  BY EvalNumbers
<1>2. \E right, same, both, execu \in BOOLEAN :
           /\ same => right
           /\ right => both
           /\ both => execu
           /\ eval' = [at |-> "gold", i |-> eval.i + 1, gold |-> << >>, data |-> eval.data,
                sql |-> << >>, left |-> << >>,
                ex |-> IF right THEN eval.ex + 1 ELSE eval.ex,
                execu |-> IF execu THEN eval.execu + 1 ELSE eval.execu,
                right |-> IF right THEN more ELSE eval.right,
                asked |-> eval.asked,
                same |-> IF same THEN eval.same + 1 ELSE eval.same,
                both |-> IF both THEN eval.both + 1 ELSE eval.both,
                ended |-> eval.ended]
  BY CountFields
<1>3. more \in [Categories -> Nat] /\ Sum(more) = Sum(eval.right) + 1
  BY <1>1, SumOfOneMore
<1> HIDE DEF more, c
<1>4. PICK right, same, both, execu \in BOOLEAN :
           /\ same => right
           /\ right => both
           /\ both => execu
           /\ eval' = [at |-> "gold", i |-> eval.i + 1, gold |-> << >>, data |-> eval.data,
                sql |-> << >>, left |-> << >>,
                ex |-> IF right THEN eval.ex + 1 ELSE eval.ex,
                execu |-> IF execu THEN eval.execu + 1 ELSE eval.execu,
                right |-> IF right THEN more ELSE eval.right,
                asked |-> eval.asked,
                same |-> IF same THEN eval.same + 1 ELSE eval.same,
                both |-> IF both THEN eval.both + 1 ELSE eval.both,
                ended |-> eval.ended]
  BY <1>2
<1>5. /\ eval'.at = "gold" /\ eval'.i = eval.i + 1 /\ eval'.gold = << >>
      /\ eval'.left = << >> /\ eval'.asked = eval.asked
      /\ eval'.ex = IF right THEN eval.ex + 1 ELSE eval.ex
      /\ eval'.execu = IF execu THEN eval.execu + 1 ELSE eval.execu
      /\ eval'.same = IF same THEN eval.same + 1 ELSE eval.same
      /\ eval'.both = IF both THEN eval.both + 1 ELSE eval.both
      /\ eval'.right = IF right THEN more ELSE eval.right
  BY <1>4
<1>6. EvalFields'
  BY <1>4 DEF EvalFields
<1>7. eval'.ended = eval.ended
  BY <1>4, Zenon
<1>8. EvalTyped'
  <2>1. /\ eval'.ex \in Nat /\ eval'.execu \in Nat /\ eval'.same \in Nat
        /\ eval'.both \in Nat
    BY <1>1, <1>5, SMTT(30)
  <2>2. eval'.right \in [Categories -> Nat] /\ eval'.asked \in [Categories -> Nat]
    BY <1>1, <1>3, <1>5
  <2>3. eval'.i \in 0..Tasks
    <3>1. eval.i < Tasks
      BY DEF EvalTyped
    <3>2. eval'.i = eval.i + 1
      BY <1>5
    <3>3. QED
      BY <1>1, <3>1, <3>2
  <2>4. eval'.ended \in BOOLEAN
    BY <1>7, Zenon DEF EvalTyped
  <2>5. eval'.left \in Seq(Parts) /\ eval'.gold \in {<< >>, << "gold" >>}
    BY <1>5
  <2>6. {eval'.ex, eval'.execu, eval'.same, eval'.both} \subseteq Nat
    BY <2>1
  <2>7. QED
    BY <1>5, <1>6, <2>2, <2>3, <2>4, <2>5, <2>6 DEF EvalTyped
<1>9. Sum(eval'.asked) = eval'.i
  BY <1>1, <1>5 DEF Counted
<1>10. Sum(eval'.right) = eval'.ex
  BY <1>1, <1>3, <1>5 DEF Counted
<1>11. /\ eval'.same <= eval'.ex /\ eval'.ex <= eval'.both
       /\ eval'.both <= eval'.execu /\ eval'.execu <= eval'.i
  <2>1. /\ eval.same <= eval.ex /\ eval.ex <= eval.both
        /\ eval.both <= eval.execu /\ eval.execu <= eval.i
    BY DEF Counted
  <2>2. /\ (same => right) /\ (right => both) /\ (both => execu)
    BY <1>4
  <2>3. /\ (eval'.same = eval.same + 1 /\ same) \/ eval'.same = eval.same
        /\ (eval'.ex = eval.ex + 1 /\ right) \/ (eval'.ex = eval.ex /\ ~right)
        /\ (eval'.both = eval.both + 1 /\ both) \/ (eval'.both = eval.both /\ ~both)
        /\ eval'.execu = eval.execu + 1 \/ (eval'.execu = eval.execu /\ ~execu)
    BY <1>5, Zenon
  <2>4. eval'.i = eval.i + 1
    BY <1>5
  <2>5. QED
    BY <1>1, <2>1, <2>2, <2>3, <2>4
<1>12. QED
  BY <1>5, <1>7, <1>8, <1>9, <1>10, <1>11 DEF Counted

LEMMA MeasuringEval ==
  ASSUME EvalTyped, Counted, MeasuringSteps
  PROVE  EvalTyped' /\ Counted' /\ (eval.ended => eval'.ended)
<1>1. /\ eval.i \in 0..Tasks /\ Tasks \in Nat /\ eval.i \in Nat
      /\ eval.ex \in Nat /\ eval.execu \in Nat /\ eval.same \in Nat /\ eval.both \in Nat
      /\ eval.right \in [Categories -> Nat] /\ eval.asked \in [Categories -> Nat]
      /\ Category(eval.i) \in Categories
  BY EvalNumbers
<1>2. EvalFields
  BY DEF EvalTyped
<1>3. CASE StartMeasuring \/ EndMeasuring \/ MeasuringDies
  <2>1. PICK at \in {"gold", "done", "dead"} : eval' = [eval EXCEPT !.at = at]
    BY <1>3 DEF StartMeasuring, EndMeasuring, MeasuringDies
  <2>2. eval' = [at |-> at, i |-> eval.i, gold |-> eval.gold, data |-> eval.data,
                 sql |-> eval.sql, left |-> eval.left, ex |-> eval.ex, execu |-> eval.execu,
                 right |-> eval.right, asked |-> eval.asked, same |-> eval.same,
                 both |-> eval.both, ended |-> eval.ended]
    BY <1>2, <2>1 DEF EvalFields
  <2>3. at # "dead" => eval.at \in {"start", "gold"}
    BY <1>2, <1>3, <2>2 DEF StartMeasuring, EndMeasuring, MeasuringDies
  <2>4. EvalFields' /\ eval'.at = at
    BY <2>2 DEF EvalFields
  <2>5. EvalTyped'
    BY <2>1, <2>2, <2>4 DEF EvalTyped
  <2>6. Counted'
    BY <2>1, <2>2, <2>3 DEF Counted
  <2>7. QED
    BY <2>2, <2>5, <2>6, Zenon
<1>4. CASE RunGold
  <2> DEFINE c == Category(eval.i)
             asked == [eval.asked EXCEPT ![c] = @ + 1]
  <2>1. PICK gold \in {<< "gold" >>, << >>} :
          eval' = [eval EXCEPT !.at = "generate", !.gold = gold, !.data = Len(commits),
                               !.asked[c] = @ + 1]
    BY <1>4, Zenon DEF RunGold
  <2>2. eval' = [at |-> "generate", i |-> eval.i, gold |-> gold, data |-> Len(commits),
                 sql |-> eval.sql, left |-> eval.left, ex |-> eval.ex, execu |-> eval.execu,
                 right |-> eval.right, asked |-> asked, same |-> eval.same,
                 both |-> eval.both, ended |-> eval.ended]
    BY <1>2, <2>1 DEF EvalFields
  <2>3. asked \in [Categories -> Nat] /\ Sum(asked) = Sum(eval.asked) + 1
    BY <1>1, SumOfOneMore
  <2> HIDE DEF asked, c
  <2>4. EvalFields' /\ eval.at = "gold" /\ eval.i < Tasks
    BY <1>4, <2>2 DEF EvalFields, RunGold
  <2>5. EvalTyped'
    BY <2>2, <2>3, <2>4 DEF EvalTyped
  <2>6. Counted'
    BY <1>1, <2>2, <2>3, <2>4, SMTT(30) DEF Counted
  <2>7. QED
    BY <2>2, <2>5, <2>6, Zenon
<1>5. CASE Generate
  <2>1. PICK sql \in Candidates :
          eval' = [eval EXCEPT !.at = "candidate", !.sql = sql, !.left = sql]
    BY <1>5 DEF Generate
  <2>2. eval' = [at |-> "candidate", i |-> eval.i, gold |-> eval.gold, data |-> eval.data,
                 sql |-> sql, left |-> sql, ex |-> eval.ex, execu |-> eval.execu,
                 right |-> eval.right, asked |-> eval.asked, same |-> eval.same,
                 both |-> eval.both, ended |-> eval.ended]
    BY <1>2, <2>1 DEF EvalFields
  <2>3. EvalFields' /\ eval.at = "generate" /\ eval.i < Tasks
    BY <1>5, <2>2 DEF EvalFields, Generate, EvalTyped
  <2>4. sql \in Seq(Parts)
    BY CandidatesAssumption DEF Parts
  <2>5. EvalTyped'
    BY <2>2, <2>3, <2>4 DEF EvalTyped
  <2>6. Counted'
    BY <1>1, <2>2, <2>3 DEF Counted
  <2>7. QED
    BY <2>2, <2>5, <2>6, Zenon
<1>6. CASE RunPart
  <2> DEFINE ended == eval.ended \/ Ends(<< Head(eval.left) >>)
             left == Tail(eval.left)
  <2>1. eval' = [at |-> eval.at, i |-> eval.i, gold |-> eval.gold, data |-> eval.data,
                 sql |-> eval.sql, left |-> left, ex |-> eval.ex, execu |-> eval.execu,
                 right |-> eval.right, asked |-> eval.asked, same |-> eval.same,
                 both |-> eval.both, ended |-> ended]
    BY <1>2, <1>6 DEF EvalFields, RunPart
  <2>2. left \in Seq(Parts)
    BY <1>6 DEF EvalTyped, RunPart
  <2>3. ended \in BOOLEAN /\ (eval.ended => ended)
    OBVIOUS
  <2> HIDE DEF ended, left
  <2>4. EvalFields' /\ eval.at = "candidate"
    BY <1>6, <2>1 DEF EvalFields, RunPart
  <2>5. eval'.ended = ended
    BY <2>1, Zenon
  <2>6. EvalTyped'
    <3>1. eval'.ended \in BOOLEAN
      BY <2>3, <2>5, Zenon
    <3>2. QED
      BY <2>1, <2>2, <2>4, <3>1 DEF EvalTyped
  <2>7. Counted'
    BY <1>1, <2>1, <2>4 DEF Counted
  <2>8. QED
    BY <2>3, <2>5, <2>6, <2>7, Zenon
<1>7. CASE RunCandidate
  <2>1. PICK res \in Results(eval.sql) : Count(res)
    BY <1>7, Zenon DEF RunCandidate
  <2>2. eval.at = "candidate"
    BY <1>7 DEF RunCandidate
  <2>3. QED
    BY <2>1, <2>2, CountStep, Zenon
<1>8. CASE CandidateFails
  <2>1. Count(<< >>) /\ eval.at = "candidate"
    BY <1>8, Zenon DEF CandidateFails
  <2>2. QED
    BY <2>1, CountStep, Zenon
<1>9. QED
  BY <1>3, <1>4, <1>5, <1>6, <1>7, <1>8 DEF MeasuringSteps

LEMMA StepEval ==
  ASSUME Typed, EvalTyped, Counted, [Next]_vars
  PROVE  EvalTyped' /\ Counted' /\ (eval.ended => eval'.ended)
<1>1. CASE UNCHANGED eval
  BY <1>1 DEF EvalTyped, EvalFields, Counted
<1>2. CASE SeedAndMeasure
  BY <1>1, <1>2, SeedOrMeasure, SeederTyped, MeasuringEval
<1>3. CASE Handle
  BY <1>1, <1>3, HandlerTyped
<1>4. CASE CheckAuditor
  BY <1>1, <1>4, CheckTyped
<1>5. QED
  BY <1>1, <1>2, <1>3, <1>4 DEF Next, vars

-----------------------------------------------------------------------------
(* What is committed, and what is left of a session.                       *)

(* The data only grow by what was written.                                 *)
LEMMA DataGrow ==
  ASSUME Typed, [Next]_vars
  PROVE  /\ commits \in Seq(Written)
         /\ \/ UNCHANGED << commits, seed.ok >>
            \/ \E w \in Seq({"change"}) : commits' = commits \o w /\ UNCHANGED seed
            \/ FillTable
         /\ Changes => Changes'
<1>0. commits \in Seq(Written)
  BY DEF Typed
<1> DEFINE P == \/ UNCHANGED << commits, seed.ok >>
                \/ \E w \in Seq({"change"}) : commits' = commits \o w /\ UNCHANGED seed
                \/ FillTable
<1>1. P
  <2>1. CASE SeedAndMeasure
    <3>1. CASE MeasuringSteps
      BY <3>1, MeasuringSessions
    <3>2. CASE SeederSteps
      BY <3>2 DEF SeederSteps, StartSeeding, SkipTable, RefuseTable, EndSeeding, SeederDies,
           Typed
    <3>3. QED
      BY <2>1, <3>1, <3>2, SeedOrMeasure
  <2>2. CASE Handle
    BY <2>2, HandlerSessions
  <2>3. CASE CheckAuditor
    BY <2>3 DEF CheckAuditor, StartChecking, CheckQuery, EndChecking
  <2>4. CASE UNCHANGED vars
    BY <2>4 DEF vars
  <2>5. QED
    BY <2>1, <2>2, <2>3, <2>4 DEF Next
<1>2. Changes => Changes'
  <2>1. CASE UNCHANGED commits
    BY <2>1 DEF Changes
  <2>2. CASE \E w \in Seq({"change"}) : commits' = commits \o w
    BY <1>0, <2>2, ChangesAdded DEF Changes
  <2>3. CASE FillTable
    <3>1. commits' = Append(commits, NextTable)
      BY <2>3 DEF FillTable, CommitTo
    <3> DEFINE t == NextTable
    <3>2. commits' = Append(commits, t)
      BY <3>1
    <3> HIDE DEF t
    <3>3. /\ Len(commits) \in Nat /\ DOMAIN commits = 1..Len(commits)
          /\ DOMAIN commits' = 1..(Len(commits) + 1)
          /\ \A i \in 1..Len(commits) : commits'[i] = commits[i]
      BY <1>0, <3>2
    <3>4. QED
      BY <3>3 DEF Changes
  <2>4. QED
    BY <1>1, <2>1, <2>2, <2>3
<1>3. QED
  BY <1>0, <1>1, <1>2

LEMMA TableCommitted ==
  ASSUME Typed, FillTable
  PROVE  /\ {commits'[i] : i \in DOMAIN commits'} \ {"change"}
              = ({commits[i] : i \in DOMAIN commits} \ {"change"}) \cup {NextTable}
         /\ seed'.ok = seed.ok \cup {NextTable}
         /\ Changes' => Changes
<1> DEFINE t == NextTable
<1>1. commits' = Append(commits, t) /\ seed'.ok = seed.ok \cup {t}
  BY DEF FillTable, CommitTo, Typed
<1>2. t # "change" /\ commits \in Seq(Written)
  BY SeedTables DEF FillTable, Typed
<1> HIDE DEF t
<1>3. /\ Len(commits) \in Nat /\ DOMAIN commits = 1..Len(commits)
      /\ DOMAIN commits' = 1..(Len(commits) + 1)
      /\ commits'[Len(commits) + 1] = t
      /\ \A i \in 1..Len(commits) : commits'[i] = commits[i]
  BY <1>1, <1>2
<1>4. \A i \in DOMAIN commits' : i \in DOMAIN commits \/ i = Len(commits) + 1
  BY <1>3
<1>5. \A i \in DOMAIN commits : i \in DOMAIN commits' /\ commits'[i] = commits[i]
  BY <1>3
<1>6. Len(commits) + 1 \in DOMAIN commits'
  BY <1>3
<1>7. {commits'[i] : i \in DOMAIN commits'} = {commits[i] : i \in DOMAIN commits} \cup {t}
  BY <1>3, <1>4, <1>5, <1>6
<1>8. Changes' => Changes
  BY <1>2, <1>3, <1>4, <1>5 DEF Changes
<1>9. QED
  BY <1>1, <1>2, <1>7, <1>8 DEF t

(* A statement that ends its transaction is a part of the text.            *)
LEMMA EndingStatement ==
  ASSUME NEW act, act \in {"commit", "rollback"}
  PROVE  Ends(<< act >>)
<1>1. 1 \in DOMAIN << act >> /\ << act >>[1] = act
  OBVIOUS
<1>2. QED
  BY <1>1 DEF Ends

(* What the measurement leaves of its session, and what it commits.        *)
LEMMA MeasuringLeaves ==
  ASSUME Typed, EvalTyped, ReadersLeaveNothing, MeasuringSteps
  PROVE  /\ conn'["eval"].kept_role # "origin" => eval'.ended
         /\ ~conn'["eval"].block => eval'.ended
         /\ eval'.at # "candidate" =>
              conn'["eval"].wrote = << >> /\ conn'["eval"].role = conn'["eval"].kept_role
         /\ commits' = commits \/ eval'.ended
<1> DEFINE c == conn["eval"]
           P(d) == /\ d.kept_role # "origin" => eval.ended
                   /\ ~d.block => eval.ended
           Q(d) == d.wrote = << >> /\ d.role = d.kept_role
<1>0. c \in Sessions /\ "eval" \in Programs /\ \A d : [conn EXCEPT !["eval"] = d]["eval"] = d
  BY DEF Typed, Programs
<1>1. P(c) /\ (eval.at # "candidate" => Q(c))
  BY DEF ReadersLeaveNothing
<1>2. P(Session) /\ P(NoSession) /\ Q(Session) /\ Q(NoSession)
  BY DEF Session, NoSession
<1>3. ASSUME NEW d \in Sessions, P(d) PROVE P(RolledBack(d)) /\ Q(RolledBack(d))
  BY <1>3, RolledBackParts
<1>4. EvalFields
  BY DEF EvalTyped
<1>5. CASE StartMeasuring \/ MeasuringDies
  <2>1. conn'["eval"] = Session \/ conn'["eval"] = NoSession
    BY <1>0, <1>5 DEF StartMeasuring, MeasuringDies, Open, Close
  <2>2. eval'.ended = eval.ended /\ UNCHANGED commits
    BY <1>4, <1>5 DEF StartMeasuring, MeasuringDies, EvalFields
  <2> HIDE DEF c
  <2>3. QED
    BY <1>2, <2>1, <2>2, Zenon
<1>6. CASE RunGold \/ Generate \/ EndMeasuring
  <2>1. UNCHANGED << conn, commits >> /\ eval.at # "candidate"
    BY <1>6 DEF RunGold, Generate, EndMeasuring
  <2>2. eval'.ended = eval.ended
    BY <1>4, <1>6 DEF RunGold, Generate, EndMeasuring, EvalFields
  <2>3. QED
    BY <1>1, <2>1, <2>2, Zenon
<1>7. CASE RunPart
  <2> DEFINE act == Head(eval.left)
  <2>1. ExecuteNext("eval", act) /\ eval.at = "candidate"
    BY <1>7 DEF RunPart
  <2>2. eval' = [eval EXCEPT !.left = Tail(@), !.ended = @ \/ Ends(<< act >>)]
    BY <1>7 DEF RunPart
  <2> HIDE DEF act
  <2>3. eval'.at = "candidate" /\ (eval'.ended <=> eval.ended \/ Ends(<< act >>))
    BY <1>4, <2>1, <2>2 DEF EvalFields
  <2>4. /\ conn'["eval"] = After(c, act)
        /\ act # "commit" => commits' = commits
    BY <1>0, <2>1, NextStatement, Zenon
  <2>5. CASE act \in {"commit", "rollback"}
    BY <2>3, <2>5, EndingStatement
  <2>6. CASE act \notin {"commit", "rollback"}
    <3>1. After(c, act).kept_role = c.kept_role /\ (c.block => After(c, act).block)
      BY <1>0, <2>6, AfterParts
    <3> HIDE DEF c
    <3>2. P(After(c, act))
      BY <1>1, <3>1
    <3>3. QED
      BY <2>3, <2>4, <2>6, <3>2
  <2>7. QED
    BY <2>5, <2>6
<1>8. CASE RunCandidate
  <2>1. PICK res \in Results(eval.sql) :
          Count(res) /\ conn' = [conn EXCEPT !["eval"] = Ended(AtEnd(@), res)]
    BY <1>8, Zenon DEF RunCandidate
  <2>2. conn'["eval"] = RolledBack(AtEnd(c)) /\ AtEnd(c) \in Sessions
    BY <1>0, <2>1, AtEndParts DEF Ended
  <2>3. eval'.ended = eval.ended
    BY <1>4, <2>1 DEF Count, EvalFields
  <2>4. commits' = commits \o KeptAtEnd(c)
    BY <1>8 DEF RunCandidate
  <2>5. commits \in Seq(Written)
    BY DEF Typed
  <2>6. CASE c.block
    <3>1. AtEnd(c) = c /\ KeptAtEnd(c) = << >>
      BY <1>0, <2>6, AtEndParts
    <3>2. commits' = commits
      BY <2>4, <2>5, <3>1, ConcatEmptySeq
    <3>3. P(RolledBack(c)) /\ Q(RolledBack(c))
      BY <1>0, <1>1, <1>3
    <3> HIDE DEF c
    <3>4. QED
      BY <2>2, <2>3, <3>1, <3>2, <3>3
  <2>7. CASE ~c.block
    <3>1. eval'.ended
      BY <1>1, <2>3, <2>7
    <3>2. conn'["eval"].wrote = << >> /\ conn'["eval"].role = conn'["eval"].kept_role
      BY <2>2, RolledBackParts
    <3>3. QED
      BY <3>1, <3>2
  <2>8. QED
    BY <2>6, <2>7
<1>9. CASE CandidateFails
  <2>1. conn'["eval"] = RolledBack(c) /\ UNCHANGED commits
    BY <1>0, <1>9 DEF CandidateFails, Ended
  <2>2. Count(<< >>)
    BY <1>9, Zenon DEF CandidateFails
  <2>3. eval'.ended = eval.ended
    BY <1>4, <2>2 DEF Count, EvalFields
  <2>4. P(RolledBack(c)) /\ Q(RolledBack(c))
    BY <1>0, <1>1, <1>3
  <2> HIDE DEF c
  <2>5. QED
    BY <2>1, <2>3, <2>4, Zenon
<1>10. QED
  BY <1>5, <1>6, <1>7, <1>8, <1>9 DEF MeasuringSteps

LEMMA StepReaders ==
  ASSUME Typed, EvalTyped, ReadersLeaveNothing, [Next]_vars
  PROVE  ReadersLeaveNothing'
<1>1. /\ conn = [p \in Programs |-> conn[p]]
      /\ "seed" \in Programs /\ "eval" \in Programs /\ "handler" \in Programs
      /\ "check" \in Programs /\ conn["check"] \in Sessions
  BY DEF Typed, Programs
<1>2. CASE UNCHANGED << conn["eval"], conn["check"], eval >>
  BY <1>2 DEF ReadersLeaveNothing
<1>3. CASE SeedAndMeasure
  <2>1. CASE MeasuringSteps
    <3>1. conn'["check"] = conn["check"]
      BY <1>1, <2>1, MeasuringSessions
    <3>2. QED
      BY <2>1, <3>1, MeasuringLeaves DEF ReadersLeaveNothing
  <2>2. CASE SeederSteps
    <3>1. conn' = conn \/ \E c : conn' = [conn EXCEPT !["seed"] = c]
      BY <2>2 DEF SeederSteps, StartSeeding, SkipTable, FillTable, RefuseTable, EndSeeding,
           SeederDies, CommitTo, Close
    <3>2. UNCHANGED eval
      BY <2>2 DEF SeederSteps, StartSeeding, SkipTable, FillTable, RefuseTable, EndSeeding,
           SeederDies
    <3>3. QED
      BY <1>1, <1>2, <3>1, <3>2
  <2>3. QED
    BY <1>3, <2>1, <2>2, SeedOrMeasure
<1>4. CASE Handle
  <2>1. conn' = conn \/ \E c : conn' = [conn EXCEPT !["handler"] = c]
    BY <1>4, HandlerSessions
  <2>2. UNCHANGED eval
    BY <1>4, HandlerSessions
  <2>3. QED
    BY <1>1, <1>2, <2>1, <2>2
<1>5. CASE CheckAuditor
  <2> DEFINE Clean(c) == c.role = "origin" /\ c.kept_role = "origin" /\ c.wrote = << >>
  <2>1. UNCHANGED eval
    BY <1>5 DEF CheckAuditor
  <2>2. Clean(conn["check"]) /\ Clean(NoSession) /\ Clean(Session)
    BY DEF ReadersLeaveNothing, NoSession, Session
  <2>3. ASSUME NEW kind PROVE Clean(RunInDb(conn["check"], kind))
    <3> DEFINE c == conn["check"]
    <3>1. c \in Sessions
      BY <1>1
    <3>2. c.kept_role = "origin"
      BY <2>2
    <3> HIDE DEF c
    <3> DEFINE r == [c EXCEPT !.role = "replica"]
    <3>3. r \in Sessions /\ r.kept_role = "origin"
      BY <3>1, <3>2, SessionTypes DEF Sessions
    <3> HIDE DEF r
    <3>4. Changed(r) \in Sessions /\ Changed(r).kept_role = "origin"
      BY <3>3, SessionTypes DEF Changed, Sessions
    <3>5. RunInDb(c, kind) = RolledBack(Changed(r)) \/ RunInDb(c, kind) = RolledBack(c)
      BY DEF RunInDb, r
    <3>6. Clean(RunInDb(c, kind))
      BY <3>1, <3>2, <3>4, <3>5, RolledBackParts
    <3>7. QED
      BY <3>6 DEF c
  <2>4. Clean(conn'["check"]) /\ conn'["eval"] = conn["eval"]
    <3>1. CASE StartChecking \/ EndChecking
      BY <1>1, <2>2, <3>1 DEF StartChecking, EndChecking, Open, Close
    <3>2. CASE CheckQuery
      <4>1. PICK rejected, kind : conn' = [conn EXCEPT !["check"] =
                                   IF rejected THEN RunInDb(@, kind) ELSE @]
        BY <3>2 DEF CheckQuery
      <4>2. QED
        BY <1>1, <2>2, <2>3, <4>1
    <3>3. QED
      BY <1>5, <3>1, <3>2 DEF CheckAuditor
  <2>5. QED
    BY <2>1, <2>4 DEF ReadersLeaveNothing
<1>6. QED
  BY <1>2, <1>3, <1>4, <1>5 DEF Next, vars

-----------------------------------------------------------------------------
(* The handlers.                                                           *)

(* What the handlers had executed is not forgotten.                        *)
LEMMA RanGrows == ASSUME Handle PROVE ran \subseteq ran'
<1>1. CASE \E kind \in {"run", "explain", "predict"}, s \in Requests : Request(kind, s)
  BY <1>1 DEF Request
<1>2. CASE RunFirst
  BY <1>2 DEF RunFirst
<1>3. CASE Refuse \/ Connect \/ RunNext \/ EndOfText \/ DatabaseFails \/ Answer
  BY <1>3 DEF Refuse, Connect, RunNext, EndOfText, DatabaseFails, Answer
<1>4. QED
  BY <1>1, <1>2, <1>3 DEF Handle, Serve

(* The statement that follows is one of the text, and what follows it too. *)
LEMMA StatementOfText ==
  ASSUME HandlerInv, call.at = "running", call.left # << >>
  PROVE  /\ Tail(call.left) \in Seq({call.s.rest[i] : i \in DOMAIN call.s.rest})
         /\ Head(call.left) \in {"commit", "rollback"} => TextEnded
<1> DEFINE rest == call.s.rest
           S == {rest[i] : i \in DOMAIN rest}
<1>1. call.left \in Seq(S) /\ [kind |-> call.kind, s |-> call.s] \in ran
  BY DEF HandlerInv
<1>2. Head(call.left) \in S /\ Tail(call.left) \in Seq(S)
  BY <1>1
<1>3. ASSUME Head(call.left) \in {"commit", "rollback"} PROVE TextEnded
  <2>1. Ends(call.s.rest)
    BY <1>2, <1>3 DEF Ends
  <2> DEFINE r == [kind |-> call.kind, s |-> call.s]
  <2>2. r \in ran /\ r.s = call.s
    BY <1>1
  <2>3. QED
    BY <2>1, <2>2 DEF TextEnded
<1>4. QED
  BY <1>2, <1>3

(* A handler makes something permanent only for a text that ends the       *)
(* transaction itself.                                                     *)
LEMMA HandlerCommits ==
  ASSUME Typed, HandlerInv, Handle
  PROVE  /\ commits' = commits \/ TextEnded'
         /\ ~conn'["handler"].block => TextEnded'
<1> DEFINE c == conn["handler"]
<1>0. /\ c \in Sessions /\ "handler" \in Programs /\ commits \in Seq(Written)
      /\ \A d : [conn EXCEPT !["handler"] = d]["handler"] = d
  BY DEF Typed, Programs
<1>1. TextEnded => TextEnded'
  BY RanGrows DEF TextEnded
<1>2. ~c.block => TextEnded
  BY DEF HandlerInv
<1>3. NoSession.block /\ Session.block
  BY DEF NoSession, Session
<1>4. CASE \/ \E kind \in {"run", "explain", "predict"}, s \in Requests : Request(kind, s)
           \/ Refuse
  <2>1. UNCHANGED << conn, commits >>
    BY <1>4 DEF Request, Refuse
  <2>2. QED
    BY <1>1, <1>2, <2>1
<1>5. CASE Connect \/ DatabaseFails \/ Answer
  <2>1. UNCHANGED commits
    BY <1>5 DEF Connect, DatabaseFails, Answer
  <2>2. UNCHANGED conn \/ conn'["handler"] \in {Session, NoSession}
    BY <1>0, <1>5 DEF Connect, DatabaseFails, Answer, Open, Close
  <2>3. QED
    BY <1>1, <1>2, <1>3, <2>1, <2>2
<1>6. ASSUME NEW act, ExecuteNext("handler", act), act \notin {"commit", "rollback"}
      PROVE  commits' = commits /\ (~conn'["handler"].block => TextEnded')
  <2>1. conn'["handler"] = After(c, act) /\ commits' = commits
    BY <1>0, <1>6, NextStatement
  <2>2. c.block => After(c, act).block
    BY <1>0, <1>6, AfterParts
  <2>3. QED
    BY <1>1, <1>2, <2>1, <2>2
<1>7. CASE RunFirst
  <2>1. PICK act \in {"query", "change"} : ExecuteNext("handler", act)
    BY <1>7 DEF RunFirst
  <2>2. QED
    BY <1>6, <2>1
<1>8. CASE RunNext
  <2>1. ExecuteNext("handler", Head(call.left)) /\ call.at = "running" /\ call.left # << >>
    BY <1>8 DEF RunNext
  <2>2. QED
    BY <1>1, <1>6, <2>1, StatementOfText
<1>9. CASE EndOfText
  <2>1. conn'["handler"] = AtEnd(c) /\ commits' = commits \o KeptAtEnd(c)
    BY <1>0, <1>9 DEF EndOfText
  <2>2. AtEnd(c).block = c.block /\ (c.block => KeptAtEnd(c) = << >>)
    BY <1>0, AtEndParts
  <2>3. c.block => commits' = commits
    BY <1>0, <2>1, <2>2, ConcatEmptySeq
  <2>4. QED
    BY <1>1, <1>2, <2>1, <2>2, <2>3
<1>10. QED
  BY <1>4, <1>5, <1>7, <1>8, <1>9 DEF Handle, Serve

LEMMA StepHandler ==
  ASSUME Typed, HandlerInv, [Next]_vars
  PROVE  HandlerInv'
<1>1. /\ conn = [p \in Programs |-> conn[p]]
      /\ "seed" \in Programs /\ "eval" \in Programs /\ "handler" \in Programs
      /\ "check" \in Programs
  BY DEF Typed, Programs
<1>2. CASE UNCHANGED << conn["handler"], call, ran >>
  BY <1>2 DEF HandlerInv, TextEnded
<1>3. CASE SeedAndMeasure
  <2>1. CASE MeasuringSteps
    BY <1>1, <1>2, <1>3, <2>1, MeasuringSessions, SeedOrMeasure
  <2>2. CASE SeederSteps
    <3>1. conn' = conn \/ \E c : conn' = [conn EXCEPT !["seed"] = c]
      BY <2>2 DEF SeederSteps, StartSeeding, SkipTable, FillTable, RefuseTable, EndSeeding,
           SeederDies, CommitTo, Close
    <3>2. QED
      BY <1>1, <1>2, <1>3, <3>1, SeedOrMeasure
  <2>3. QED
    BY <1>3, <2>1, <2>2, SeedOrMeasure
<1>4. CASE CheckAuditor
  <2>1. conn' = conn \/ \E c : conn' = [conn EXCEPT !["check"] = c]
    BY <1>4 DEF CheckAuditor, StartChecking, CheckQuery, EndChecking, Close, Open
  <2>2. UNCHANGED << call, ran >>
    BY <1>4 DEF CheckAuditor
  <2>3. QED
    BY <1>1, <1>2, <2>1, <2>2
<1> DEFINE CallIs(c, at, left, reply) ==
      c = [at |-> at, kind |-> call.kind, s |-> call.s, left |-> left, reply |-> reply]
<1>5. ASSUME call.at # "idle"
      PROVE  /\ CallIs(call, call.at, call.left, call.reply)
             /\ call.s \in Requests /\ call.reply \in Replies
             /\ call.left \in Seq({call.s.rest[i] : i \in DOMAIN call.s.rest})
  BY <1>5 DEF HandlerInv
<1>6. ASSUME Handle PROVE ~conn'["handler"].block => TextEnded'
  BY <1>6, HandlerCommits
<1>7. CASE \E kind \in {"run", "explain", "predict"}, s \in Requests :
             Handle /\ Request(kind, s)
  <2>1. PICK kind \in {"run", "explain", "predict"}, s \in Requests : Request(kind, s)
    BY <1>7
  <2>2. /\ call' = [at |-> "asked", kind |-> kind, s |-> s, left |-> s.rest, reply |-> NoReply]
        /\ UNCHANGED << conn, ran >> /\ call.at = "idle"
    BY <2>1 DEF Request
  <2>3. NoReply \in Replies
    BY DEF NoReply, Replies
  <2>4. s.rest \in Seq({s.rest[i] : i \in DOMAIN s.rest})
    <3>1. s.rest \in Seq(Acts)
      BY RequestsAssumption DEF Readable, Statement
    <3>2. QED
      BY <3>1, SeqElements
  <2>5. QED
    BY <1>6, <1>7, <2>2, <2>3, <2>4 DEF HandlerInv
<1>8. ASSUME NEW status \in {"refused", "failed"}, ReplyWith(status), call.at # "idle"
      PROVE  \E reply \in Replies :
             CallIs(call', "replied", call.left, reply) /\ reply.status = status
               /\ TellsRows(reply)
  <2> DEFINE reply == [NoReply EXCEPT !.status = status]
  <2>1. NoReply \in Replies /\ NoReply.there = 0 /\ NoReply.shown = 0
        /\ NoReply.truncated = FALSE
    BY DEF NoReply, Replies
  <2>2. CallIs(call', "replied", call.left, reply)
    BY <1>5, <1>8 DEF ReplyWith
  <2>3. /\ reply \in Replies /\ reply.status = status
        /\ reply.there = 0 /\ reply.shown = 0 /\ reply.truncated = FALSE
    BY <2>1 DEF Replies
  <2> HIDE DEF reply
  <2>4. TellsRows(reply)
    <3>1. ~(reply.there > reply.shown)
      BY <2>3
    <3>2. QED
      BY <2>3, <3>1, Zenon DEF TellsRows
  <2>5. QED
    BY <2>2, <2>3, <2>4
<1>9. CASE Handle /\ Refuse
  <2>1. call.at = "asked" /\ ~IsSafeSelect(Text(call.s)) /\ UNCHANGED << conn, ran >>
    BY <1>9 DEF Refuse
  <2>2. PICK reply \in Replies :
          CallIs(call', "replied", call.left, reply) /\ reply.status = "refused"
            /\ TellsRows(reply)
    BY <1>8, <1>9, <2>1 DEF Refuse
  <2>3. QED
    BY <1>5, <1>6, <1>9, <2>1, <2>2 DEF HandlerInv
<1>10. CASE Handle /\ Connect
  <2>1. call.at = "asked" /\ IsSafeSelect(Text(call.s)) /\ UNCHANGED ran
    BY <1>10 DEF Connect
  <2>2. CASE ReplyWith("failed") /\ UNCHANGED conn
    <3>1. PICK reply \in Replies :
            CallIs(call', "replied", call.left, reply) /\ reply.status = "failed"
              /\ TellsRows(reply)
      BY <1>8, <2>1, <2>2
    <3>2. QED
      BY <1>5, <1>6, <1>10, <2>1, <2>2, <3>1 DEF HandlerInv
  <2>3. CASE call' = [call EXCEPT !.at = "open"]
    <3>1. CallIs(call', "open", call.left, call.reply)
      BY <1>5, <2>1, <2>3
    <3>2. QED
      BY <1>5, <1>6, <1>10, <2>1, <3>1 DEF HandlerInv
  <2>4. QED
    BY <1>10, <2>2, <2>3 DEF Connect
<1>11. CASE Handle /\ RunFirst
  <2>1. /\ call.at = "open" /\ call' = [call EXCEPT !.at = "running"]
        /\ ran' = ran \cup {[kind |-> call.kind, s |-> call.s]}
    BY <1>11 DEF RunFirst
  <2>2. CallIs(call', "running", call.left, call.reply)
    BY <1>5, <2>1
  <2>3. IsSafeSelect(Text(call.s)) /\ call.s \in Requests
    BY <1>5, <2>1 DEF HandlerInv
  <2>4. \A r \in ran' : r.s \in Requests /\ IsSafeSelect(Text(r.s))
    BY <2>1, <2>3 DEF HandlerInv
  <2>5. QED
    BY <1>5, <1>6, <1>11, <2>1, <2>2, <2>3, <2>4 DEF HandlerInv
<1>12. CASE Handle /\ RunNext
  <2>1. /\ call.at = "running" /\ call.left # << >> /\ UNCHANGED ran
        /\ call' = [call EXCEPT !.left = Tail(@)]
    BY <1>12 DEF RunNext
  <2> DEFINE left == Tail(call.left)
  <2>2. CallIs(call', "running", left, call.reply)
    BY <1>5, <2>1
  <2>3. left \in Seq({call.s.rest[i] : i \in DOMAIN call.s.rest})
    BY <2>1, StatementOfText
  <2> HIDE DEF left
  <2>4. /\ IsSafeSelect(Text(call.s)) /\ [kind |-> call.kind, s |-> call.s] \in ran
        /\ \A r \in ran : r.s \in Requests /\ IsSafeSelect(Text(r.s))
    BY <2>1 DEF HandlerInv
  <2>5. /\ call'.at = "running" /\ call'.kind = call.kind /\ call'.s = call.s
        /\ call'.left = left /\ call'.reply = call.reply
    BY <2>2
  <2>6. /\ call' = [at |-> call'.at, kind |-> call'.kind, s |-> call'.s, left |-> call'.left,
                    reply |-> call'.reply]
        /\ call'.s \in Requests /\ call'.reply \in Replies
    BY <1>5, <2>1, <2>2, <2>5
  <2>7. call'.left \in Seq({call'.s.rest[i] : i \in DOMAIN call'.s.rest})
    BY <2>3, <2>5
  <2>8. QED
    BY <1>6, <1>12, <2>1, <2>4, <2>5, <2>6, <2>7 DEF HandlerInv
<1>13. CASE Handle /\ EndOfText
  <2>1. call.at = "running" /\ call' = [call EXCEPT !.at = "ran"] /\ UNCHANGED ran
    BY <1>13 DEF EndOfText
  <2>2. CallIs(call', "ran", call.left, call.reply)
    BY <1>5, <2>1
  <2>3. QED
    BY <1>5, <1>6, <1>13, <2>1, <2>2 DEF HandlerInv
<1>14. CASE Handle /\ DatabaseFails
  <2>1. conn'["handler"] = NoSession /\ call.at # "idle" /\ UNCHANGED ran
    BY <1>1, <1>14 DEF DatabaseFails, Close
  <2>2. PICK reply \in Replies :
          CallIs(call', "replied", call.left, reply) /\ reply.status = "failed"
            /\ TellsRows(reply)
    BY <1>8, <1>14, <2>1 DEF DatabaseFails
  <2>3. QED
    BY <1>5, <1>6, <1>14, <2>1, <2>2 DEF HandlerInv
<1>15. CASE Handle /\ Answer
  <2>1. conn'["handler"] = NoSession /\ call.at = "ran" /\ UNCHANGED ran
    BY <1>1, <1>15 DEF Answer, Close
  <2>2. \E reply \in Replies :
          /\ CallIs(call', "replied", call.left, reply) /\ reply.status # "refused"
          /\ call.kind = "run" => TellsRows(reply)
    <3>1. CASE ReplyWith("failed")
      BY <1>8, <2>1, <3>1
    <3>2. CASE ~ReplyWith("failed")
      <4>1. PICK there \in {0, 1, MaxRows, MaxRows + 1, MaxRows + 2} :
              \E rows : /\ rows = IF call.kind = "run" THEN Fetch(there) ELSE 0
                        /\ call' = [call EXCEPT !.at = "replied", !.reply =
                             [status |-> "ok", there |-> there, truncated |-> rows > MaxRows,
                              shown |-> IF rows > MaxRows THEN MaxRows ELSE rows]]
        BY <1>15, <3>2 DEF Answer
      <4>2. PICK rows : /\ rows = IF call.kind = "run" THEN Fetch(there) ELSE 0
                        /\ call' = [call EXCEPT !.at = "replied", !.reply =
                             [status |-> "ok", there |-> there, truncated |-> rows > MaxRows,
                              shown |-> IF rows > MaxRows THEN MaxRows ELSE rows]]
        BY <4>1
      <4> DEFINE shown == IF rows > MaxRows THEN MaxRows ELSE rows
                 cut == rows > MaxRows
                 reply == [status |-> "ok", there |-> there, truncated |-> cut,
                           shown |-> shown]
      <4>3. there \in Nat /\ rows \in Nat /\ shown \in Nat /\ MaxRows \in Nat
        BY <4>2, NumbersAssumption DEF Fetch
      <4>4. call.kind = "run" => ((rows > MaxRows) <=> (there > shown))
        BY <4>2, <4>3 DEF Fetch
      <4>5. reply \in Replies /\ reply.status = "ok"
            /\ (call.kind = "run" => TellsRows(reply))
        <5>1. cut \in BOOLEAN
          BY <4>3
        <5>2. call.kind = "run" => (cut <=> there > shown)
          BY <4>4
        <5> HIDE DEF cut, shown
        <5>3. reply \in Replies /\ reply.status = "ok"
          BY <4>3, <5>1 DEF Replies
        <5>4. reply.truncated = cut /\ reply.there = there /\ reply.shown = shown
          OBVIOUS
        <5> HIDE DEF reply
        <5>5. QED
          BY <5>2, <5>3, <5>4, Zenon DEF TellsRows
      <4>6. CallIs(call', "replied", call.left, reply)
        BY <1>5, <2>1, <4>2
      <4> HIDE DEF reply
      <4>7. reply.status # "refused"
        BY <4>5
      <4>8. QED
        BY <4>5, <4>6, <4>7
    <3>3. QED
      BY <3>1, <3>2
  <2>3. PICK reply \in Replies :
          /\ CallIs(call', "replied", call.left, reply) /\ reply.status # "refused"
          /\ call.kind = "run" => TellsRows(reply)
    BY <2>2
  <2>4. QED
    BY <1>5, <1>6, <1>15, <2>1, <2>3 DEF HandlerInv
<1>16. QED
  BY <1>2, <1>3, <1>4, <1>7, <1>9, <1>10, <1>11, <1>12, <1>13, <1>14, <1>15
  DEF Next, Handle, Serve, vars

LEMMA StepCommits ==
  ASSUME Typed, EvalTyped, Counted, CommitsAreSeeded, ReadersLeaveNothing, HandlerInv,
         [Next]_vars
  PROVE  CommitsAreSeeded'
<1> DEFINE tables == {commits[i] : i \in DOMAIN commits} \ {"change"}
<1>0. tables = seed.ok /\ commits \in Seq(Written)
  BY DEF CommitsAreSeeded, Typed
<1>1. scene' = scene /\ ran \subseteq ran'
  <2>1. Handle => scene' = scene /\ ran \subseteq ran'
    BY HandlerSessions, RanGrows
  <2>2. QED
    BY <2>1 DEF Next, SeedAndMeasure, CheckAuditor, vars
<1>2. tables' = seed'.ok
  <2>1. CASE UNCHANGED << commits, seed.ok >>
    BY <1>0, <2>1
  <2>2. CASE \E w \in Seq({"change"}) : commits' = commits \o w /\ UNCHANGED seed
    <3>1. PICK w \in Seq({"change"}) : commits' = commits \o w /\ UNCHANGED seed
      BY <2>2
    <3>2. {(commits \o w)[i] : i \in DOMAIN (commits \o w)} \ {"change"} = tables
      BY <1>0, ChangesAdded
    <3>3. tables' = tables
      BY <3>1, <3>2
    <3>4. QED
      BY <1>0, <3>1, <3>3
  <2>3. CASE FillTable
    BY <1>0, <2>3, TableCommitted
  <2>4. QED
    BY <2>1, <2>2, <2>3, DataGrow
<1>3. TextEnded => TextEnded'
  BY <1>1 DEF TextEnded
<1>4. CASE SeedAndMeasure
  <2>1. scene = "seed" /\ (SeederSteps \/ MeasuringSteps)
    BY <1>4, SeedOrMeasure
  <2>2. eval.ended => eval'.ended
    BY StepEval
  <2>3. CASE SeederSteps
    <3>1. Changes' => Changes
      BY <2>3, TableCommitted
      DEF SeederSteps, StartSeeding, SkipTable, RefuseTable, EndSeeding, SeederDies, Changes
    <3>2. scene = "seed"
      BY <1>4 DEF SeedAndMeasure
    <3>3. QED
      BY <1>1, <1>2, <2>2, <3>1, <3>2 DEF CommitsAreSeeded
  <2>4. CASE MeasuringSteps
    <3>1. commits' = commits \/ eval'.ended
      BY <2>4, MeasuringLeaves
    <3>2. commits' = commits => (Changes' => Changes)
      BY DEF Changes
    <3>3. scene = "seed"
      BY <1>4 DEF SeedAndMeasure
    <3>4. QED
      BY <1>1, <1>2, <2>2, <3>1, <3>2, <3>3 DEF CommitsAreSeeded
  <2>5. QED
    BY <1>4, <2>3, <2>4, SeedOrMeasure
<1>5. CASE Handle
  <2>1. scene = "handler"
    BY <1>5, HandlerSessions
  <2>2. commits' = commits \/ TextEnded'
    BY <1>5, HandlerCommits
  <2>3. QED
    BY <1>1, <1>2, <1>3, <2>1, <2>2 DEF CommitsAreSeeded
<1>6. CASE CheckAuditor
  <2>1. scene = "check" /\ UNCHANGED commits
    BY <1>6 DEF CheckAuditor, StartChecking, CheckQuery, EndChecking
  <2>2. QED
    BY <1>1, <1>2, <2>1 DEF CommitsAreSeeded
<1>7. CASE UNCHANGED vars
  BY <1>7 DEF vars, CommitsAreSeeded, Changes, TextEnded
<1>8. QED
  BY <1>4, <1>5, <1>6, <1>7 DEF Next

-----------------------------------------------------------------------------
(* The seeder.                                                             *)

(* What its role is after each step.                                       *)
LEMMA SeederRoles ==
  ASSUME Typed
  PROVE  /\ StartSeeding => conn'["seed"].role = "replica"
         /\ FillTable => /\ conn'["seed"].role = conn["seed"].role
                         /\ conn'["seed"].kept_role = conn["seed"].role
         /\ RefuseTable => /\ conn'["seed"].role = conn["seed"].kept_role
                           /\ conn'["seed"].kept_role = conn["seed"].kept_role
<1>1. conn = [p \in Programs |-> conn[p]] /\ "seed" \in Programs /\ conn["seed"] \in Sessions
  BY DEF Typed, Programs
<1>2. ASSUME StartSeeding PROVE conn'["seed"].role = "replica"
  BY <1>1, <1>2, SessionTypes DEF StartSeeding, Sessions
<1>3. ASSUME FillTable
      PROVE  /\ conn'["seed"].role = conn["seed"].role
             /\ conn'["seed"].kept_role = conn["seed"].role
  BY <1>1, <1>3 DEF FillTable, CommitTo, Sessions
<1>4. ASSUME RefuseTable
      PROVE  /\ conn'["seed"].role = conn["seed"].kept_role
             /\ conn'["seed"].kept_role = conn["seed"].kept_role
  BY <1>1, <1>4, RolledBackParts DEF RefuseTable
<1>5. QED
  BY <1>2, <1>3, <1>4

(* While nothing was filled or refused, the role set first is not kept.    *)
LEMMA SeedStep ==
  ASSUME Typed, FitsSoFar, ~Changes, SeederSteps
  PROVE  FitsSoFar'
<1>1. /\ seed.i \in Nat
      /\ seed = [at |-> seed.at, i |-> seed.i, ok |-> seed.ok, failed |-> seed.failed]
  BY LengthsAreNumbers DEF Typed
<1>2. CASE StartSeeding
  <2>1. seed'.at = "tables" /\ seed'.i = 0 /\ seed'.ok = {} /\ seed'.failed = {}
    BY <1>1, <1>2 DEF StartSeeding, FitsSoFar
  <2>2. conn'["seed"].role = "replica"
    BY <1>2, SeederRoles
  <2>3. QED
    BY <2>1, <2>2 DEF FitsSoFar, NothingYet, Untouched
<1>3. CASE SkipTable
  <2>1. /\ seed'.at = "tables" /\ seed'.i = seed.i + 1 /\ UNCHANGED conn
        /\ seed'.ok = seed.ok /\ seed'.failed = seed.failed
        /\ seed.at = "tables" /\ Tables[seed.i + 1] \in Empty
    BY <1>1, <1>3 DEF SkipTable, AtTable, NextTable
  <2>2. Untouched(seed.i) => Untouched(seed'.i)
    BY <1>1, <2>1 DEF Untouched
  <2>3. FirstRefused => FirstRefused'
    BY <1>1, <2>1 DEF FirstRefused
  <2>4. QED
    BY <2>1, <2>2, <2>3 DEF FitsSoFar, NothingYet, RoleKept, RoleLost
<1>4. CASE FillTable
  <2>1. /\ seed'.at = "tables" /\ seed'.i = seed.i + 1
        /\ seed'.ok = seed.ok \cup {NextTable} /\ seed'.failed = seed.failed
        /\ seed.at = "tables" /\ NextTable \notin Empty
    BY <1>1, <1>4 DEF FillTable, AtTable
  <2>2. /\ conn'["seed"].role = conn["seed"].role
        /\ conn'["seed"].kept_role = conn["seed"].role
    BY <1>4, SeederRoles
  <2>3. FirstRefused => FirstRefused'
    BY <1>1, <2>1 DEF FirstRefused
  <2>4. RoleKept' \/ RoleLost'
    BY <2>1, <2>2, <2>3 DEF FitsSoFar, NothingYet, RoleKept, RoleLost
  <2>5. seed'.failed \subseteq Unfit \/ FirstRefused'
    BY <2>1, <2>3 DEF FitsSoFar
  <2>6. seed'.ok \cap Empty = {} /\ seed'.failed \cap Empty = {}
    BY <2>1 DEF FitsSoFar
  <2>7. QED
    BY <2>1, <2>4, <2>5, <2>6 DEF FitsSoFar
<1>5. CASE RefuseTable
  <2> DEFINE t == Tables[seed.i + 1]
  <2>1. /\ seed'.at = "tables" /\ seed'.i = seed.i + 1
        /\ seed'.ok = seed.ok /\ seed'.failed = seed.failed \cup {t}
        /\ seed.at = "tables" /\ t \notin Empty
        /\ t \in Unfit \/ conn["seed"].role = "origin"
    BY <1>1, <1>5 DEF RefuseTable, AtTable, NextTable, CanFail
  <2>2. /\ conn'["seed"].role = conn["seed"].kept_role
        /\ conn'["seed"].kept_role = conn["seed"].kept_role
        /\ conn["seed"].kept_role \in Roles
    BY <1>5, SeederRoles DEF Typed, Programs, Sessions
  <2>3. FirstRefused => FirstRefused'
    BY <1>1, <2>1 DEF FirstRefused
  <2>4. NothingYet => FirstRefused' /\ seed'.failed \subseteq Unfit
    <3>1. SUFFICES ASSUME NothingYet PROVE FirstRefused' /\ seed'.failed \subseteq Unfit
      OBVIOUS
    <3>2. seed.failed = {} /\ t \in Unfit /\ Untouched(seed.i)
      BY <2>1, <3>1 DEF NothingYet
    <3>3. seed'.failed = {t}
      BY <2>1, <3>2
    <3>4. seed.i + 1 \in 1..seed'.i /\ (seed.i + 1) - 1 = seed.i
      BY <1>1, <2>1
    <3>5. QED
      BY <3>2, <3>3, <3>4 DEF FirstRefused
  <2>5. RoleKept => conn["seed"].role = "replica" /\ seed'.failed \subseteq Unfit
    BY <2>1 DEF RoleKept
  <2>6. NothingYet' \/ RoleKept' \/ RoleLost'
    <3>1. CASE NothingYet
      BY <2>2, <2>4, <3>1 DEF RoleKept, RoleLost, Roles
    <3>2. CASE RoleKept
      BY <2>2, <2>5, <3>2 DEF RoleKept
    <3>3. CASE RoleLost
      BY <2>2, <2>3, <3>3 DEF RoleLost
    <3>4. QED
      BY <2>1, <3>1, <3>2, <3>3 DEF FitsSoFar
  <2>7. seed'.failed \subseteq Unfit \/ FirstRefused'
    BY <2>1, <2>3, <2>4, <2>5 DEF FitsSoFar, RoleLost
  <2>8. seed'.ok \cap Empty = {} /\ seed'.failed \cap Empty = {}
    BY <2>1 DEF FitsSoFar
  <2>9. QED
    BY <2>1, <2>6, <2>7, <2>8 DEF FitsSoFar
<1>6. CASE EndSeeding \/ SeederDies
  <2>1. /\ seed'.at \in {"done", "dead"} /\ seed'.i = seed.i
        /\ seed'.ok = seed.ok /\ seed'.failed = seed.failed
    BY <1>1, <1>6 DEF EndSeeding, SeederDies
  <2>2. QED
    BY <2>1 DEF FitsSoFar, FirstRefused
<1>7. QED
  BY <1>2, <1>3, <1>4, <1>5, <1>6 DEF SeederSteps

LEMMA StepSeeder ==
  ASSUME Typed, SeederInv, [Next]_vars
  PROVE  SeederInv'
<1>1. /\ conn = [p \in Programs |-> conn[p]]
      /\ "seed" \in Programs /\ "eval" \in Programs /\ "handler" \in Programs
      /\ "check" \in Programs
  BY DEF Typed, Programs
<1>2. CASE Changes
  BY <1>2, DataGrow DEF SeederInv
<1>3. SUFFICES ASSUME ~Changes, FitsSoFar PROVE FitsSoFar'
  BY <1>2 DEF SeederInv
<1>4. CASE UNCHANGED << conn["seed"], seed >>
  BY <1>3, <1>4 DEF FitsSoFar, NothingYet, RoleKept, RoleLost, FirstRefused
<1>5. CASE SeedAndMeasure
  <2>1. CASE MeasuringSteps
    BY <1>1, <1>4, <2>1, MeasuringSessions
  <2>2. QED
    BY <1>3, <1>5, <2>1, SeedStep, SeedOrMeasure
<1>6. CASE Handle
  BY <1>1, <1>4, <1>6, HandlerSessions
<1>7. CASE CheckAuditor
  <2>1. conn' = conn \/ \E c : conn' = [conn EXCEPT !["check"] = c]
    BY <1>7 DEF CheckAuditor, StartChecking, CheckQuery, EndChecking, Close, Open
  <2>2. UNCHANGED seed
    BY <1>7 DEF CheckAuditor
  <2>3. QED
    BY <1>1, <1>4, <2>1, <2>2
<1>8. QED
  BY <1>4, <1>5, <1>6, <1>7 DEF Next, vars

-----------------------------------------------------------------------------
(* Which texts are accepted.                                               *)

LEMMA LeadingIs ==
  ASSUME NEW text, NEW kind, Len(text) \in Nat, NEW n \in 0..Len(text),
         \A i \in 1..n : text[i] \in kind,
         n = Len(text) \/ text[n + 1] \notin kind
  PROVE  Leading(text, kind) = n
<1> DEFINE P(m) == /\ \A i \in 1..m : text[i] \in kind
                   /\ m = Len(text) \/ text[m + 1] \notin kind
<1>1. P(n)
  OBVIOUS
<1>2. ASSUME NEW m \in 0..Len(text), P(m) PROVE m = n
  <2>1. ~(m < n)
    BY <1>2
  <2>2. ~(n < m)
    BY <1>2
  <2>3. QED
    BY <2>1, <2>2
<1>3. Leading(text, kind) = CHOOSE m \in 0..Len(text) : P(m)
  BY DEF Leading
<1> HIDE DEF P
<1>4. QED
  BY <1>1, <1>2, <1>3

(* The parentheses of two pairs, one in the other, close at the last.      *)
LEMMA ClosesAt ==
  ASSUME NEW text, NEW p \in Nat, NEW q \in Nat, NEW e \in Nat, 1 < p, p < q, q < e,
         \A j \in 1..e : text[j] = "(" <=> j = 1 \/ j = p,
         \A j \in 1..e : text[j] = ")" <=> j = q \/ j = e
  PROVE  Closes(text, e) /\ \A i \in 1..(e - 1) : ~Closes(text, i)
<1> DEFINE Opened(i) == {j \in 1..i : text[j] = "("}
           Shut(i) == {j \in 1..i : text[j] = ")"}
<1>1. /\ Cardinality({}) = 0 /\ Cardinality({1}) = 1 /\ Cardinality({q}) = 1
      /\ Cardinality({1, p}) = 2 /\ Cardinality({q, e}) = 2
  <2>1. Cardinality({}) = 0 /\ Cardinality({1}) = 1 /\ Cardinality({q}) = 1
    BY FS_EmptySet, FS_Singleton
  <2>2. IsFiniteSet({1}) /\ IsFiniteSet({q}) /\ {1, p} = {1} \cup {p} /\ {q, e} = {q} \cup {e}
    BY FS_Singleton
  <2>3. p \notin {1} /\ e \notin {q}
    OBVIOUS
  <2>4. Cardinality({1, p}) = 1 + 1 /\ Cardinality({q, e}) = 1 + 1
    <3>1. Cardinality({1} \cup {p}) = Cardinality({1}) + 1
      BY <2>2, <2>3, FS_AddElement
    <3>2. Cardinality({q} \cup {e}) = Cardinality({q}) + 1
      BY <2>2, <2>3, FS_AddElement
    <3>3. QED
      BY <2>1, <2>2, <3>1, <3>2
  <2>5. QED
    BY <2>1, <2>4
<1>2. Opened(e) = {1, p} /\ Shut(e) = {q, e}
  OBVIOUS
<1>3. ASSUME NEW i \in 1..(e - 1)
      PROVE  Cardinality(Opened(i)) # Cardinality(Shut(i))
  <2>1. CASE i < p
    <3>1. Opened(i) = {1} /\ Shut(i) = {}
      BY <2>1
    <3>2. QED
      BY <1>1, <3>1
  <2>2. CASE p <= i /\ i < q
    <3>1. Opened(i) = {1, p} /\ Shut(i) = {}
      BY <2>2
    <3>2. QED
      BY <1>1, <3>1
  <2>3. CASE q <= i
    <3>1. Opened(i) = {1, p} /\ Shut(i) = {q}
      BY <2>3
    <3> HIDE DEF Opened, Shut
    <3>2. QED
      BY <1>1, <3>1
  <2>4. i < p \/ (p <= i /\ i < q) \/ q <= i
    OBVIOUS
  <2> HIDE DEF Opened, Shut
  <2>5. QED
    BY <2>1, <2>2, <2>3, <2>4, Zenon
<1>4. QED
  BY <1>1, <1>2, <1>3 DEF Closes

LEMMA SkipOptionsAt ==
  ASSUME NEW text, NEW p \in Nat, NEW q \in Nat, NEW e \in Nat, 1 < p, p < q, q < e,
         Len(text) \in Nat, DOMAIN text = 1..Len(text), e <= Len(text),
         \A j \in 1..e : text[j] = "(" <=> j = 1 \/ j = p,
         \A j \in 1..e : text[j] = ")" <=> j = q \/ j = e
  PROVE  SkipOptions(text) = Skip(text, e)
<1> DEFINE P(i) == Closes(text, i) /\ \A j \in 1..(i - 1) : ~Closes(text, j)
<1>1. Closes(text, e) /\ \A i \in 1..(e - 1) : ~Closes(text, i)
  BY ClosesAt
<1>2. e \in DOMAIN text /\ P(e)
  BY <1>1
<1>3. ASSUME NEW i \in DOMAIN text, P(i) PROVE i = e
  <2>1. ~(i < e) /\ ~(e < i)
    BY <1>1, <1>3
  <2>2. QED
    BY <2>1
<1>4. First(text, "(")
  BY DEF First
<1> HIDE DEF P
<1>5. (CHOOSE i \in DOMAIN text : P(i)) = e
  BY <1>2, <1>3
<1>6. QED
  BY <1>1, <1>2, <1>4, <1>5 DEF SkipOptions, P

(* What follows the first part of a text.                                  *)
LEMMA Concatenated ==
  ASSUME NEW S, NEW s \in Seq(S), NEW t \in Seq(S)
  PROVE  /\ s \o t \in Seq(S) /\ Len(s \o t) = Len(s) + Len(t)
         /\ \A j \in 1..Len(s) : (s \o t)[j] = s[j]
         /\ Len(t) > 0 => (s \o t)[Len(s) + 1] = t[1]
         /\ Skip(s \o t, Len(s)) = t
<1>1. /\ s \o t \in Seq(S) /\ Len(s \o t) = Len(s) + Len(t)
      /\ \A j \in 1..Len(s) : (s \o t)[j] = s[j]
      /\ Len(t) > 0 => (s \o t)[Len(s) + 1] = t[1]
  OBVIOUS
<1>2. Skip(s \o t, Len(s)) = t
  <2> DEFINE u == SubSeq(s \o t, Len(s) + 1, Len(s) + Len(t))
  <2>1. Len(u) = Len(t)
    OBVIOUS
  <2>2. \A i \in 1..Len(t) : u[i] = t[i]
    OBVIOUS
  <2>3. u \in Seq(S)
    OBVIOUS
  <2>4. QED
    BY <1>1, <2>1, <2>2, <2>3, SeqEqual DEF Skip
<1>3. QED
  BY <1>1, <1>2

LEMMA Joined ==
  ASSUME NEW S, NEW s \in Seq(S), NEW t \in Seq(S)
  PROVE  /\ s \o t \in Seq(S) /\ Len(s) \in Nat /\ Len(t) \in Nat /\ Len(s \o t) \in Nat
         /\ Len(s \o t) = Len(s) + Len(t) /\ DOMAIN (s \o t) = 1..(Len(s) + Len(t))
         /\ \A j \in 1..Len(s) : (s \o t)[j] = s[j]
         /\ \A j \in 1..Len(t) : (s \o t)[Len(s) + j] = t[j]
         /\ Len(s) > 0 => (s \o t)[1] = s[1]
OBVIOUS

LEMMA Associates ==
  ASSUME NEW S, NEW s \in Seq(S), NEW t \in Seq(S), NEW u \in Seq(S)
  PROVE  (s \o t) \o u = s \o (t \o u)
BY ConcatAssociative

(* What follows what is stripped.                                          *)
LEMMA StripIs ==
  ASSUME NEW S, NEW a \in Seq(S), NEW t \in Seq(S), NEW kind,
         \A i \in 1..Len(a) : a[i] \in kind, Len(t) > 0, t[1] \notin kind
  PROVE  Strip(a \o t, kind) = t
<1> DEFINE text == a \o t
           n == Len(a)
<1>1. /\ text \in Seq(S) /\ Len(text) = n + Len(t)
      /\ \A j \in 1..n : text[j] = a[j]
      /\ Len(t) > 0 => text[n + 1] = t[1]
      /\ Skip(text, n) = t
  BY Concatenated, ZenonT(60)
<1>2. n \in Nat /\ Len(t) \in Nat
  OBVIOUS
<1> HIDE DEF text, n
<1>3. Len(text) \in Nat /\ n \in 0..Len(text) /\ text[n + 1] \notin kind
  BY <1>1, <1>2
<1>4. \A i \in 1..n : text[i] \in kind
  BY <1>1 DEF n
<1>5. Leading(text, kind) = n
  BY <1>3, <1>4, LeadingIs
<1>6. QED
  BY <1>1, <1>5 DEF Strip, text

LEMMA NothingToStrip ==
  ASSUME NEW S, NEW t \in Seq(S), NEW kind, Len(t) > 0, t[1] \notin kind
  PROVE  Strip(t, kind) = t
<1>1. << >> \in Seq(S) /\ Len(<< >>) = 0 /\ << >> \o t = t
  BY ConcatEmptySeq
<1>2. \A i \in 1..0 : << >>[i] \in kind
  OBVIOUS
<1>3. Strip(<< >> \o t, kind) = t
  BY <1>1, <1>2, StripIs
<1>4. QED
  BY <1>1, <1>3

(* Words and blanks before a text, with a space among the last blanks.     *)
LEMMA WordsAreSkipped ==
  ASSUME NEW S, NEW w \in Seq(S), NEW t \in Seq(S),
         \A i \in 1..Len(w) : w[i] \in Words \cup Blank,
         \/ Len(w) = 0
         \/ \E j \in 1..Len(w) : w[j] = "space" /\ \A k \in j..Len(w) : w[k] \in Blank,
         Len(t) > 0, t[1] \notin Words \cup Blank
  PROVE  SkipWords(w \o t) = t
<1> DEFINE text == w \o t
           n == Len(w)
           stops == {i \in Starts(text) : text[i] \notin Words}
<1>1. /\ text \in Seq(S) /\ Len(text) = n + Len(t)
      /\ \A j \in 1..n : text[j] = w[j]
      /\ text[n + 1] = t[1]
      /\ Skip(text, n) = t
  BY Concatenated, ZenonT(60)
<1>2. n \in Nat /\ Len(t) \in Nat /\ DOMAIN text = 1..(n + Len(t))
  <2>1. n \in Nat /\ Len(t) \in Nat
    OBVIOUS
  <2> HIDE DEF text
  <2>2. QED
    BY <1>1, <2>1
<1>3. \A i \in 1..n : text[i] \in Words \cup Blank
  BY <1>1
<1>4. n = 0 \/ \E j \in 1..n : text[j] = "space" /\ \A k \in j..n : text[k] \in Blank
  <2>1. SUFFICES ASSUME n # 0
                 PROVE  \E j \in 1..n : text[j] = "space" /\ \A k \in j..n : text[k] \in Blank
    OBVIOUS
  <2>2. PICK j \in 1..n : w[j] = "space" /\ \A k \in j..n : w[k] \in Blank
    BY <2>1
  <2> HIDE DEF text
  <2>3. \A k \in j..n : text[k] = w[k]
    BY <1>1, <1>2, <2>2
  <2>4. QED
    BY <1>1, <2>2, <2>3
<1> HIDE DEF text, n
<1>5. n + 1 \in stops
  <2>1. n + 1 \in DOMAIN text /\ text[n + 1] \notin Blank /\ text[n + 1] \notin Words
    BY <1>1, <1>2
  <2>2. (n + 1) - 1 = n
    BY <1>2
  <2>3. n + 1 = 1 \/ \E j \in 1..((n + 1) - 1) :
                       text[j] = "space" /\ \A k \in j..((n + 1) - 1) : text[k] \in Blank
    BY <1>4, <2>2
  <2>4. QED
    BY <2>1, <2>3 DEF Starts
<1>6. \A i \in stops : n + 1 <= i
  BY <1>2, <1>3 DEF Starts
<1>7. \A i \in stops : i \in Int
  BY <1>2 DEF Starts
<1> HIDE DEF stops
<1>8. (CHOOSE i \in stops : \A j \in stops : i <= j) = n + 1
  <2> DEFINE P(i) == \A j \in stops : i <= j
  <2>1. P(n + 1)
    BY <1>6
  <2>2. ASSUME NEW i \in stops, P(i) PROVE i = n + 1
    BY <1>2, <1>5, <1>6, <1>7, <2>2
  <2> HIDE DEF P
  <2>3. (CHOOSE i \in stops : P(i)) = n + 1
    BY <1>5, <2>1, <2>2
  <2>4. QED
    BY <2>3 DEF P
<1>9. (n + 1) - 1 = n
  BY <1>2
<1>10. SkipWords(text) = Skip(text, n)
  BY <1>5, <1>8, <1>9 DEF SkipWords, stops
<1>11. QED
  BY <1>1, <1>10 DEF text

(* The tokens of a text.                                                   *)
Signs == {"explain", "(", ")", ",", "on", "json", "semicolon"}
Tokens(s) ==
  Blank \cup Comments \cup Words \cup Signs \cup Acts \cup {s.body[i] : i \in DOMAIN s.body}

LEMMA OneToken ==
  ASSUME NEW S, NEW a \in S
  PROVE  << a >> \in Seq(S) /\ Len(<< a >>) = 1 /\ << a >>[1] = a
OBVIOUS

(* The options, token by token.                                            *)
LEMMA OptionTokens ==
  ASSUME NEW s
  PROVE  /\ {"explain", "(", ")", "analyze", "verbose", "semicolon"} \subseteq Tokens(s)
         /\ {",", "buffers", "on", "format", "json", "analyze"}
              \subseteq Tokens(s) \ {"(", ")"}
         /\ "(" # ")"
BY DEF Tokens, Words, Signs

AnalyzedInParentheses ==
  << "(", "analyze", ",", "buffers", "(", "on", ")", ",", "format", "json", ")" >>
PlainInParentheses == << "(", "buffers", "(", "on", ")", ",", "format", "json", ")" >>

LEMMA AnalyzedOptions ==
  ASSUME NEW s
  PROVE  LET o == AnalyzedInParentheses
         IN  /\ o \in Seq(Tokens(s)) /\ Len(o) = 11
             /\ \A j \in 1..11 : o[j] = "(" <=> j = 1 \/ j = 5
             /\ \A j \in 1..11 : o[j] = ")" <=> j = 7 \/ j = 11
<1> DEFINE o == AnalyzedInParentheses
           S == Tokens(s)
           l == "("
           r == ")"
           a == "analyze"
           b == ","
           c == "buffers"
           d == "on"
           e == "format"
           f == "json"
<1>1. l \in S /\ r \in S /\ l # r
  BY OptionTokens
<1>2. /\ a \in S \ {l, r} /\ b \in S \ {l, r} /\ c \in S \ {l, r} /\ d \in S \ {l, r}
      /\ e \in S \ {l, r} /\ f \in S \ {l, r}
  BY OptionTokens
<1>3. o = << l, a, b, c, l, d, r, b, e, f, r >>
  BY DEF AnalyzedInParentheses
<1> HIDE DEF o, S, l, r, a, b, c, d, e, f
<1>4. o \in Seq(S) /\ Len(o) = 11
  BY <1>1, <1>2, <1>3
<1>5. \A j \in 1..11 : o[j] = l <=> j = 1 \/ j = 5
  BY <1>1, <1>2, <1>3
<1>6. \A j \in 1..11 : o[j] = r <=> j = 7 \/ j = 11
  BY <1>1, <1>2, <1>3
<1>7. QED
  BY <1>4, <1>5, <1>6, Zenon DEF o, S, l, r

LEMMA PlainOptions ==
  ASSUME NEW s
  PROVE  LET o == PlainInParentheses
         IN  /\ o \in Seq(Tokens(s)) /\ Len(o) = 9
             /\ \A j \in 1..9 : o[j] = "(" <=> j = 1 \/ j = 3
             /\ \A j \in 1..9 : o[j] = ")" <=> j = 5 \/ j = 9
<1> DEFINE o == PlainInParentheses
           S == Tokens(s)
           l == "("
           r == ")"
           a == "buffers"
           b == "on"
           c == ","
           d == "format"
           e == "json"
<1>1. l \in S /\ r \in S /\ l # r
  BY OptionTokens
<1>2. /\ a \in S \ {l, r} /\ b \in S \ {l, r} /\ c \in S \ {l, r} /\ d \in S \ {l, r}
      /\ e \in S \ {l, r}
  BY OptionTokens
<1>3. o = << l, a, l, b, r, c, d, e, r >>
  BY DEF PlainInParentheses
<1> HIDE DEF o, S, l, r, a, b, c, d, e
<1>4. o \in Seq(S) /\ Len(o) = 9
  BY <1>1, <1>2, <1>3
<1>5. \A j \in 1..9 : o[j] = l <=> j = 1 \/ j = 3
  BY <1>1, <1>2, <1>3
<1>6. \A j \in 1..9 : o[j] = r <=> j = 5 \/ j = 9
  BY <1>1, <1>2, <1>3
<1>7. QED
  BY <1>4, <1>5, <1>6, Zenon DEF o, S, l, r

(* Options between parentheses, one of them with parentheses of its own.   *)
Nested(o) ==
  \E p, q \in Nat : /\ 1 < p /\ p < q /\ q < Len(o)
                    /\ \A j \in 1..Len(o) : o[j] = "(" <=> j = 1 \/ j = p
                    /\ \A j \in 1..Len(o) : o[j] = ")" <=> j = q \/ j = Len(o)

(* However a statement is explained, what is left is its body.             *)
LEMMA ParenthesesAreSkipped ==
  ASSUME NEW S, NEW o \in Seq(S), NEW t \in Seq(S), Nested(o)
  PROVE  SkipOptions(o \o t) = t
<1> DEFINE text == o \o t
           e == Len(o)
<1>0. PICK p, q \in Nat :
        /\ 1 < p /\ p < q /\ q < Len(o)
        /\ \A j \in 1..Len(o) : o[j] = "(" <=> j = 1 \/ j = p
        /\ \A j \in 1..Len(o) : o[j] = ")" <=> j = q \/ j = Len(o)
  BY DEF Nested
<1>1. e \in Nat /\ Len(t) \in Nat
  OBVIOUS
<1>2. /\ text \in Seq(S) /\ Len(text) = e + Len(t)
      /\ \A j \in 1..e : text[j] = o[j]
      /\ Skip(text, e) = t
  BY Concatenated
<1> HIDE DEF text, e
<1>3. Len(text) \in Nat /\ DOMAIN text = 1..Len(text) /\ e <= Len(text)
  BY <1>1, <1>2
<1>4. /\ p \in Nat /\ q \in Nat /\ 1 < p /\ p < q /\ q < e
      /\ \A j \in 1..e : text[j] = "(" <=> j = 1 \/ j = p
      /\ \A j \in 1..e : text[j] = ")" <=> j = q \/ j = e
  BY <1>0, <1>2 DEF e
<1>5. SkipOptions(text) = Skip(text, e)
  BY <1>1, <1>3, <1>4, SkipOptionsAt
<1>6. QED
  BY <1>2, <1>5 DEF text

(* What a text has after its comments and its wrapping.                    *)
Ending(s) == s.body \o << "semicolon" >> \o s.rest

LEMMA SubsetOfSeq ==
  ASSUME NEW S, NEW T, NEW q \in Seq(S), S \subseteq T
  PROVE  q \in Seq(T) /\ \A i \in 1..Len(q) : q[i] \in S
BY SeqMonotonic, ElementOfSeq

LEMMA EndingParts ==
  ASSUME NEW s, Readable(s)
  PROVE  /\ Ending(s) \in Seq(Tokens(s)) /\ Len(Ending(s)) > 0
         /\ Ending(s)[1] = s.body[1] /\ s.body[1] \notin Reserved
         /\ Len(Ending(s)) > 1 /\ Ending(s)[2] = "space" <=> Len(s.body) > 1 /\ s.body[2] = "space"
<1> DEFINE b == s.body
           B == {b[i] : i \in DOMAIN b}
           T == Tokens(s)
           r == s.rest
           k == << "semicolon" >>
<1>1. b \in Seq(B) /\ b # << >> /\ b[1] \notin Reserved /\ r \in Seq(Acts)
  BY DEF Readable, Statement
<1>2. B \subseteq T /\ Acts \subseteq T /\ "semicolon" \in T
  BY DEF Tokens, Signs
<1>3. Ending(s) = (b \o k) \o r
  BY DEF Ending
<1>4. k \in Seq(T) /\ Len(k) = 1 /\ k[1] = "semicolon"
  BY <1>2, OneToken
<1> HIDE DEF b, B, T, r, k
<1>5. b \in Seq(T) /\ r \in Seq(T)
  BY <1>1, <1>2, SeqMonotonic
<1>6. Len(b) \in Nat /\ Len(b) > 0
  BY <1>1, <1>5, EmptySeq
<1> DEFINE h == b \o k
<1>7. /\ h \in Seq(T) /\ Len(h) = Len(b) + 1 /\ h[1] = b[1]
      /\ Len(b) > 1 => h[2] = b[2]
      /\ Len(b) = 1 => h[2] = "semicolon"
  <2>1. /\ h \in Seq(T) /\ Len(h) = Len(b) + Len(k)
        /\ \A j \in 1..Len(b) : h[j] = b[j]
        /\ \A j \in 1..Len(k) : h[Len(b) + j] = k[j]
    <3>1. b \in Seq(T) /\ k \in Seq(T)
      BY <1>4, <1>5
    <3>2. \A j \in 1..Len(b) : (b \o k)[j] = b[j]
      BY <3>1, Joined, Zenon
    <3>3. \A j \in 1..Len(k) : (b \o k)[Len(b) + j] = k[j]
      BY <3>1
    <3>4. b \o k \in Seq(T) /\ Len(b \o k) = Len(b) + Len(k)
      BY <3>1, Joined, Zenon
    <3>5. QED
      BY <3>2, <3>3, <3>4
  <2> HIDE DEF h
  <2>2. QED
    <3>1. 1 \in 1..Len(b) /\ 1 \in 1..Len(k) /\ Len(h) = Len(b) + 1
      BY <1>4, <1>6, <2>1
    <3>2. h[1] = b[1] /\ h[Len(b) + 1] = "semicolon"
      BY <1>4, <2>1, <3>1
    <3>3. Len(b) > 1 => h[2] = b[2]
      BY <1>6, <2>1
    <3>4. QED
      BY <2>1, <3>1, <3>2, <3>3
<1> HIDE DEF h
<1>8. /\ h \o r \in Seq(T) /\ Len(h \o r) = Len(h) + Len(r)
      /\ \A j \in 1..Len(h) : (h \o r)[j] = h[j]
      /\ Len(r) \in Nat /\ Len(h) \in Nat
  BY <1>5, <1>7, Joined, Zenon
<1>9. Ending(s) = h \o r
  BY <1>3 DEF h
<1>10. Len(h) > 1 /\ 1 \in 1..Len(h) /\ 2 \in 1..Len(h)
  BY <1>6, <1>7
<1>11. /\ Ending(s) \in Seq(T) /\ Len(Ending(s)) > 1
       /\ Ending(s)[1] = h[1] /\ Ending(s)[2] = h[2]
  BY <1>8, <1>9, <1>10
<1>12. "semicolon" # "space"
  OBVIOUS
<1>13. h[2] = "space" <=> Len(b) > 1 /\ b[2] = "space"
  <2>1. CASE Len(b) = 1
    <3>1. h[2] = "semicolon" /\ ~(Len(b) > 1)
      BY <1>7, <2>1
    <3>2. QED
      BY <1>12, <3>1
  <2>2. CASE Len(b) > 1
    BY <1>7, <2>2
  <2>3. Len(b) = 1 \/ Len(b) > 1
    <3>1. \A m \in Nat : m > 0 => m = 1 \/ m > 1
      OBVIOUS
    <3>2. QED
      BY <1>6, <3>1
  <2>4. QED
    BY <2>1, <2>2, <2>3, Zenon
<1>14. Len(Ending(s)) > 0
  BY <1>8, <1>9, <1>10
<1>15. QED
  BY <1>1, <1>7, <1>11, <1>13, <1>14 DEF b, T

LEMMA WrappingParts ==
  ASSUME NEW s, Readable(s)
  PROVE  /\ s.comments \in Seq(Tokens(s))
         /\ \A i \in 1..Len(s.comments) : s.comments[i] \in Comments \cup Blank
         /\ s.gap \in Seq(Tokens(s)) /\ s.gap \in Seq(Words \cup Blank)
         /\ Len(s.gap) > 0 /\ Len(s.gap) \in Nat
         /\ \A i \in 1..Len(s.gap) : s.gap[i] \in Blank
<1>1. s.comments \in Seq(Comments \cup Blank) /\ s.gap \in Seq(Blank) /\ s.gap # << >>
  BY DEF Readable, Statement
<1>2. Comments \cup Blank \subseteq Tokens(s) /\ Blank \subseteq Tokens(s)
  BY DEF Tokens
<1>3. /\ s.comments \in Seq(Tokens(s))
      /\ \A i \in 1..Len(s.comments) : s.comments[i] \in Comments \cup Blank
  BY <1>1, <1>2, SubsetOfSeq, Zenon
<1>4. s.gap \in Seq(Tokens(s)) /\ \A i \in 1..Len(s.gap) : s.gap[i] \in Blank
  BY <1>1, <1>2, SubsetOfSeq, Zenon
<1>5. s.gap \in Seq(Words \cup Blank)
  BY <1>1, SubsetOfSeq, Blank \subseteq Words \cup Blank, Zenon
<1>6. Len(s.gap) > 0 /\ Len(s.gap) \in Nat
  BY <1>1, EmptySeq
<1>7. QED
  BY <1>3, <1>4, <1>5, <1>6

LEMMA SignsAreApart ==
  /\ "(" \notin Words \cup Blank /\ "analyze" \in Words /\ "verbose" \in Words
  /\ "explain" \notin Comments \cup Blank /\ "analyze" \notin Blank /\ "analyze" # "("
  /\ Reserved = Blank \cup Comments \cup Words \cup {"explain", "("}
BY DEF Words, Blank, Comments, Reserved

(* Words with a space between them, before a text.                         *)
LEMMA WordOptions ==
  ASSUME NEW s, Readable(s), s.explained, s.analyzed, ~s.options, Spaced(s)
  PROVE  LET w == << "analyze" >> \o s.gap \o << "verbose" >> \o s.gap
         IN  /\ w \in Seq(Tokens(s)) /\ Len(w) \in Nat /\ Len(w) > 0 /\ w[1] = "analyze"
             /\ \A i \in 1..Len(w) : w[i] \in Words \cup Blank
             /\ \E j \in 1..Len(w) : w[j] = "space" /\ \A k \in j..Len(w) : w[k] \in Blank
<1> DEFINE V == Words \cup Blank
           g == s.gap
           a == << "analyze" >>
           v == << "verbose" >>
           u == (a \o g) \o v
           w == u \o g
<1>1. /\ g \in Seq(V) /\ Len(g) > 0 /\ Len(g) \in Nat
      /\ \A i \in 1..Len(g) : g[i] \in Blank
  BY WrappingParts
<1>2. PICK i \in 1..Len(g) : g[i] = "space"
  <2>1. \E i \in DOMAIN g : g[i] = "space"
    BY DEF Spaced
  <2> HIDE DEF g
  <2>2. DOMAIN g = 1..Len(g)
    BY <1>1
  <2>3. QED
    BY <2>1, <2>2
<1>3. a \in Seq(V) /\ Len(a) = 1 /\ a[1] = "analyze" /\ v \in Seq(V)
  BY OneToken, SignsAreApart
<1> HIDE DEF V, g, a, v
<1>4. /\ a \o g \in Seq(V) /\ Len(a \o g) = Len(a) + Len(g)
      /\ \A j \in 1..Len(a) : (a \o g)[j] = a[j]
  BY <1>1, <1>3, Joined, Zenon
<1> DEFINE ag == a \o g
<1>5. ag \in Seq(V) /\ Len(ag) \in Nat /\ Len(ag) > 0 /\ ag[1] = "analyze"
  BY <1>1, <1>3, <1>4
<1> HIDE DEF ag
<1>6. /\ ag \o v \in Seq(V) /\ Len(ag \o v) = Len(ag) + Len(v)
      /\ \A j \in 1..Len(ag) : (ag \o v)[j] = ag[j]
  BY <1>3, <1>5, Joined, Zenon
<1>7. u = ag \o v
  BY DEF ag
<1>8. u \in Seq(V) /\ Len(u) \in Nat /\ Len(u) > 0 /\ u[1] = "analyze"
  <2>1. Len(v) \in Nat
    BY <1>3
  <2> HIDE DEF u
  <2>2. QED
    BY <1>5, <1>6, <1>7, <2>1
<1> HIDE DEF u
<1>9. /\ w \in Seq(V) /\ Len(w) = Len(u) + Len(g)
      /\ \A j \in 1..Len(u) : w[j] = u[j]
      /\ \A j \in 1..Len(g) : w[Len(u) + j] = g[j]
  BY <1>1, <1>8, Joined, Zenon
<1> HIDE DEF w
<1>10. \E j \in 1..Len(w) : w[j] = "space" /\ \A k \in j..Len(w) : w[k] \in Blank
  <2> DEFINE m == Len(u) + i
  <2>1. m \in 1..Len(w) /\ w[m] = "space"
    BY <1>1, <1>2, <1>8, <1>9
  <2>2. ASSUME NEW k \in m..Len(w) PROVE w[k] \in Blank
    <3>1. k - Len(u) \in 1..Len(g) /\ Len(u) + (k - Len(u)) = k
      BY <1>1, <1>2, <1>8, <1>9
    <3>2. w[Len(u) + (k - Len(u))] = g[k - Len(u)]
      BY <1>9, <3>1
    <3>3. QED
      BY <1>1, <3>1, <3>2
  <2>3. QED
    BY <2>1, <2>2
<1>11. Len(w) \in Nat /\ Len(w) > 0 /\ w[1] = "analyze"
  <2>1. 1 \in 1..Len(u) /\ w[1] = u[1]
    BY <1>8, <1>9
  <2>2. QED
    BY <1>1, <1>8, <1>9, <2>1
<1>12. w \in Seq(Tokens(s)) /\ \A j \in 1..Len(w) : w[j] \in V
  <2>1. V \subseteq Tokens(s)
    BY DEF V, Tokens
  <2>2. QED
    BY <1>9, <2>1, SubsetOfSeq, Zenon
<1>13. QED
  BY <1>10, <1>11, <1>12 DEF V, w, u, g, a, v

(* However a statement is explained, what is left is the statement.        *)
LEMMA ParenthesesAndGapAreSkipped ==
  ASSUME NEW s, Readable(s), NEW o \in Seq(Tokens(s)), Nested(o), Len(o) > 0, o[1] = "("
  PROVE  /\ o \o s.gap \in Seq(Tokens(s))
         /\ LET text == (o \o s.gap) \o Ending(s)
            IN  /\ Len(text) > 0 /\ text[1] = "("
                /\ SkipWords(Strip(SkipOptions(text), Blank)) = Ending(s)
<1> DEFINE T == Tokens(s)
           g == s.gap
           E == Ending(s)
           rest == g \o E
<1>1. /\ g \in Seq(T) /\ Len(g) \in Nat
      /\ \A i \in 1..Len(g) : g[i] \in Blank
  BY WrappingParts
<1>2. E \in Seq(T) /\ Len(E) > 0 /\ E[1] \notin Words \cup Blank
  BY EndingParts, SignsAreApart
<1> HIDE DEF T, g, E
<1>3. o \in Seq(T)
  BY DEF T
<1>4. o \o g \in Seq(T) /\ rest \in Seq(T) /\ (o \o g) \o E = o \o rest
  BY <1>1, <1>2, <1>3, ConcatAssociative
<1> HIDE DEF rest
<1>5. SkipOptions(o \o rest) = rest
  BY <1>3, <1>4, ParenthesesAreSkipped
<1>6. Strip(rest, Blank) = E
  BY <1>1, <1>2, StripIs, Zenon DEF rest
<1>7. SkipWords(E) = E
  <2>1. << >> \in Seq(T) /\ Len(<< >>) = 0 /\ << >> \o E = E
    BY <1>2, ConcatEmptySeq
  <2>2. \A i \in 1..Len(<< >>) : << >>[i] \in Words \cup Blank
    BY <2>1
  <2>3. SkipWords(<< >> \o E) = E
    BY <1>2, <2>1, <2>2, WordsAreSkipped
  <2>4. QED
    BY <2>1, <2>3
<1>8. /\ Len(o \o rest) = Len(o) + Len(rest) /\ Len(rest) \in Nat /\ Len(o) \in Nat
      /\ \A j \in 1..Len(o) : (o \o rest)[j] = o[j]
  BY <1>3, <1>4
<1>9. Len(o \o rest) > 0 /\ (o \o rest)[1] = "("
  BY <1>8
<1>10. QED
  BY <1>4, <1>5, <1>6, <1>7, <1>9 DEF T, g, E

LEMMA OptionsAreSkipped ==
  ASSUME NEW s, Readable(s), s.explained, Spaced(s)
  PROVE  LET text == Options(s) \o Ending(s)
         IN  /\ Options(s) \in Seq(Tokens(s)) /\ text \in Seq(Tokens(s))
             /\ Len(text) > 0 /\ text[1] \notin Blank
             /\ SkipWords(Strip(SkipOptions(Strip(text, Blank)), Blank)) = Ending(s)
<1> DEFINE T == Tokens(s)
           E == Ending(s)
           O == Options(s)
           text == O \o E
<1>1. s.options \in BOOLEAN /\ s.analyzed \in BOOLEAN
  BY DEF Readable, Statement
<1>2. E \in Seq(T) /\ Len(E) > 0 /\ E[1] \notin Words \cup Blank /\ E[1] # "("
  BY EndingParts, SignsAreApart
<1>3. ASSUME O \in Seq(T), Len(text) > 0, text[1] \notin Blank,
             SkipWords(Strip(SkipOptions(text), Blank)) = E
      PROVE  /\ text \in Seq(T)
             /\ SkipWords(Strip(SkipOptions(Strip(text, Blank)), Blank)) = E
  <2>1. text \in Seq(T)
    BY <1>2, <1>3
  <2> HIDE DEF text
  <2>2. Strip(text, Blank) = text
    BY <1>3, <2>1, NothingToStrip, Zenon
  <2>3. QED
    BY <1>3, <2>1, <2>2
<1> DEFINE P == /\ O \in Seq(T) /\ Len(text) > 0 /\ text[1] \notin Blank
                /\ SkipWords(Strip(SkipOptions(text), Blank)) = E
<1>4. CASE s.options /\ s.analyzed
  <2> DEFINE o == AnalyzedInParentheses
  <2>1. O = o \o s.gap
    BY <1>4 DEF Options, AnalyzedInParentheses
  <2>2. /\ o \in Seq(T) /\ Len(o) = 11
        /\ \A j \in 1..11 : o[j] = "(" <=> j = 1 \/ j = 5
        /\ \A j \in 1..11 : o[j] = ")" <=> j = 7 \/ j = 11
    BY AnalyzedOptions
  <2> HIDE DEF o
  <2>3. Nested(o) /\ Len(o) > 0 /\ o[1] = "("
    <3>1. /\ 5 \in Nat /\ 7 \in Nat /\ 1 < 5 /\ 5 < 7 /\ 7 < Len(o)
          /\ \A j \in 1..Len(o) : o[j] = "(" <=> j = 1 \/ j = 5
          /\ \A j \in 1..Len(o) : o[j] = ")" <=> j = 7 \/ j = Len(o)
      BY <2>2
    <3>2. QED
      BY <2>2, <3>1 DEF Nested
  <2>4. P
    BY <2>1, <2>2, <2>3, ParenthesesAndGapAreSkipped, SignsAreApart
  <2>5. QED
    BY <1>3, <2>4
<1>5. CASE s.options /\ ~s.analyzed
  <2> DEFINE o == PlainInParentheses
  <2>1. O = o \o s.gap
    BY <1>5 DEF Options, PlainInParentheses
  <2>2. /\ o \in Seq(T) /\ Len(o) = 9
        /\ \A j \in 1..9 : o[j] = "(" <=> j = 1 \/ j = 3
        /\ \A j \in 1..9 : o[j] = ")" <=> j = 5 \/ j = 9
    BY PlainOptions
  <2> HIDE DEF o
  <2>3. Nested(o) /\ Len(o) > 0 /\ o[1] = "("
    <3>1. /\ 3 \in Nat /\ 5 \in Nat /\ 1 < 3 /\ 3 < 5 /\ 5 < Len(o)
          /\ \A j \in 1..Len(o) : o[j] = "(" <=> j = 1 \/ j = 3
          /\ \A j \in 1..Len(o) : o[j] = ")" <=> j = 5 \/ j = Len(o)
      BY <2>2
    <3>2. QED
      BY <2>2, <3>1 DEF Nested
  <2>4. P
    BY <2>1, <2>2, <2>3, ParenthesesAndGapAreSkipped, SignsAreApart
  <2>5. QED
    BY <1>3, <2>4
<1>6. CASE ~s.options /\ s.analyzed
  <2>1. /\ O \in Seq(T) /\ Len(O) \in Nat /\ Len(O) > 0 /\ O[1] = "analyze"
        /\ \A i \in 1..Len(O) : O[i] \in Words \cup Blank
        /\ \E j \in 1..Len(O) : O[j] = "space" /\ \A k \in j..Len(O) : O[k] \in Blank
    BY <1>6, WordOptions DEF Options
  <2> HIDE DEF O, E, T
  <2>2. /\ text \in Seq(T) /\ Len(text) = Len(O) + Len(E) /\ Len(E) \in Nat
        /\ Len(O) > 0 => text[1] = O[1]
    <3>1. O \in Seq(T) /\ E \in Seq(T)
      BY <1>2, <2>1
    <3>2. O \o E \in Seq(T) /\ Len(O \o E) = Len(O) + Len(E) /\ Len(E) \in Nat
      BY <3>1, Joined, Zenon
    <3>3. Len(O) > 0 => (O \o E)[1] = O[1]
      BY <3>1, Joined, Zenon
    <3>4. QED
      BY <3>2, <3>3
  <2>3. SkipWords(text) = E
    BY <1>2, <2>1, WordsAreSkipped
  <2> HIDE DEF text
  <2>4. text[1] \notin Blank /\ text[1] # "(" /\ Len(text) > 0
    BY <2>1, <2>2, SignsAreApart
  <2>5. SkipOptions(text) = text
    BY <2>4 DEF SkipOptions, First
  <2>6. Strip(text, Blank) = text
    BY <2>2, <2>4, NothingToStrip, Zenon
  <2>7. P
    BY <2>1, <2>3, <2>4, <2>5, <2>6
  <2>8. QED
    BY <1>3, <2>7 DEF O, E, T, text
<1>7. CASE ~s.options /\ ~s.analyzed
  <2>1. O = << >>
    BY <1>7 DEF Options
  <2>2. O \in Seq(T) /\ Len(O) = 0 /\ text = E
    BY <1>2, <2>1, ConcatEmptySeq
  <2>3. \A i \in 1..Len(O) : O[i] \in Words \cup Blank
    BY <2>2
  <2> HIDE DEF O, E, T
  <2>4. SkipWords(text) = E
    BY <1>2, <2>2, <2>3, WordsAreSkipped
  <2> HIDE DEF text
  <2>5. SkipOptions(text) = text
    BY <1>2, <2>2 DEF SkipOptions, First
  <2>6. Strip(text, Blank) = text
    BY <1>2, <2>2, NothingToStrip, Zenon
  <2>7. P
    BY <1>2, <2>2, <2>4, <2>5, <2>6
  <2>8. QED
    BY <1>3, <2>7 DEF O, E, T, text
<1>8. QED
  BY <1>1, <1>4, <1>5, <1>6, <1>7

(* Which texts the handlers accept, however they are commented and wrapped,*)
(* if a space follows EXPLAIN's words: the first statement is a query and  *)
(* its WITH has a space; the statements that follow do not matter          *)
(* (service.py:2095-2131).                                                 *)
THEOREM FirstStatementIsRead ==
  ASSUME NEW s, Readable(s), Spaced(s)
  PROVE  IsSafeSelect(Text(s)) <=> IsQuery(s) /\ WithHasItsSpace(s)
<1> DEFINE T == Tokens(s)
           E == Ending(s)
           O == Options(s)
           X == << "explain" >>
           g == s.gap
           c == s.comments
           K == Comments \cup Blank
           w == IF s.explained THEN (X \o g) \o O ELSE << >>
           wrapped == w \o E
           text == Text(s)
<1>1. s.explained \in BOOLEAN
  BY DEF Readable, Statement
<1>2. /\ E \in Seq(T) /\ Len(E) > 0 /\ E[1] = s.body[1] /\ E[1] \notin Reserved
      /\ Len(E) > 1 /\ E[2] = "space" <=> Len(s.body) > 1 /\ s.body[2] = "space"
  BY EndingParts
<1>3. /\ c \in Seq(T) /\ \A i \in 1..Len(c) : c[i] \in K
      /\ g \in Seq(T) /\ \A i \in 1..Len(g) : g[i] \in Blank
  BY WrappingParts
<1>4. X \in Seq(T) /\ Len(X) = 1 /\ X[1] = "explain"
  BY OptionTokens, OneToken
<1>5. text = (c \o w) \o E
  <2> DEFINE r == s.rest
             b == s.body
             k == << "semicolon" >>
  <2>1. text = ((c \o w) \o b \o k) \o r
    BY DEF Text
  <2>2. E = (b \o k) \o r
    BY DEF Ending
  <2>3. /\ b \in Seq(T) /\ r \in Seq(T) /\ k \in Seq(T)
    <3>1. b \in Seq({b[i] : i \in DOMAIN b}) /\ r \in Seq(Acts)
      BY DEF Readable, Statement
    <3>2. {b[i] : i \in DOMAIN b} \subseteq T /\ Acts \subseteq T /\ "semicolon" \in T
      BY DEF Tokens, Signs
    <3> HIDE DEF b, r, T
    <3>3. QED
      BY <3>1, <3>2, SeqMonotonic, OneToken
  <2>4. w \in Seq(T)
    <3>1. CASE s.explained
      <4>1. O \in Seq(T)
        BY <3>1, OptionsAreSkipped
      <4> HIDE DEF O, X, g, T
      <4>2. (X \o g) \o O \in Seq(T)
        BY <1>3, <1>4, <4>1
      <4>3. QED
        BY <3>1, <4>2
    <3>2. CASE ~s.explained
      BY <3>2
    <3>3. QED
      BY <1>1, <3>1, <3>2
  <2> HIDE DEF w, b, r, k, c, T, text, E
  <2>5. c \o w \in Seq(T)
    BY <1>3, <2>4
  <2> DEFINE h == c \o w
  <2> HIDE DEF h
  <2>6. h \in Seq(T)
    BY <2>5 DEF h
  <2>7. ((h \o b) \o k) \o r = h \o ((b \o k) \o r)
    BY <2>3, <2>6, SMTT(60)
  <2>8. QED
    BY <2>1, <2>2, <2>7 DEF h
<1>6. E[1] \notin K /\ E[1] # "explain" /\ "explain" \notin K
  BY <1>2, SignsAreApart
<1> HIDE DEF T, E, X, g, c, K, text
<1>7. wrapped \in Seq(T) /\ Len(wrapped) > 0 /\ wrapped[1] \notin K
       /\ SkipWrapping(wrapped) = E /\ w \in Seq(T)
  <2>1. CASE s.explained
    <3> DEFINE rest == O \o E
               tail == g \o rest
    <3>1. /\ O \in Seq(T) /\ rest \in Seq(T) /\ Len(rest) > 0 /\ rest[1] \notin Blank
          /\ SkipWords(Strip(SkipOptions(Strip(rest, Blank)), Blank)) = E
      BY <2>1, OptionsAreSkipped DEF T, E
    <3> HIDE DEF O
    <3>2. wrapped = X \o tail
      <4>1. ((X \o g) \o O) \o E = X \o (g \o (O \o E))
        <5>1. /\ X \in Seq(T) /\ g \in Seq(T) /\ O \in Seq(T) /\ E \in Seq(T)
              /\ X \o g \in Seq(T) /\ O \o E \in Seq(T)
          BY <1>2, <1>3, <1>4, <3>1
        <5>2. ((X \o g) \o O) \o E = (X \o g) \o (O \o E)
          BY <5>1, Associates
        <5>3. (X \o g) \o (O \o E) = X \o (g \o (O \o E))
          <6> DEFINE m == O \o E
          <6>1. m \in Seq(T)
            BY <5>1
          <6> HIDE DEF m
          <6>2. (X \o g) \o m = X \o (g \o m)
            BY <5>1, <6>1, Associates
          <6>3. QED
            BY <6>2 DEF m
        <5>4. QED
          BY <5>2, <5>3
      <4>2. QED
        BY <2>1, <4>1
    <3>3. w \in Seq(T)
      BY <1>3, <1>4, <2>1, <3>1
    <3> HIDE DEF rest, wrapped, w
    <3>4. tail \in Seq(T) /\ Strip(tail, Blank) = rest
      BY <1>3, <3>1, StripIs
    <3>5. Strip(rest, Blank) = rest
      BY <3>1, NothingToStrip, Zenon
    <3> HIDE DEF tail
    <3>6. /\ X \o tail \in Seq(T) /\ Len(X \o tail) = Len(X) + Len(tail)
          /\ \A j \in 1..Len(X) : (X \o tail)[j] = X[j]
          /\ Len(tail) > 0 => (X \o tail)[Len(X) + 1] = tail[1]
          /\ Skip(X \o tail, Len(X)) = tail
      BY <1>4, <3>4, Concatenated, ZenonT(60)
    <3>7. /\ wrapped \in Seq(T) /\ Len(wrapped) > 0 /\ wrapped[1] = "explain"
          /\ Skip(wrapped, 1) = tail
      <4>1. Len(tail) \in Nat
        BY <3>4
      <4>2. QED
        BY <1>4, <3>2, <3>6, <4>1
    <3>8. First(wrapped, "explain")
      BY <3>7 DEF First
    <3>9. SkipWrapping(wrapped) = E
      BY <3>1, <3>4, <3>5, <3>7, <3>8 DEF SkipWrapping
    <3>10. QED
      BY <1>6, <3>3, <3>7, <3>9
  <2>2. CASE ~s.explained
    <3>1. << >> \o E = E /\ << >> \in Seq(T)
      BY <1>2, ConcatEmptySeq, EmptySeq
    <3>2. wrapped = E /\ w \in Seq(T)
      BY <2>2, <3>1
    <3> HIDE DEF wrapped, w
    <3>3. ~First(E, "explain")
      BY <1>6 DEF First
    <3>4. SkipWrapping(E) = E
      BY <3>3 DEF SkipWrapping
    <3>5. QED
      BY <1>2, <1>6, <3>2, <3>4
  <2>3. QED
    BY <1>1, <2>1, <2>2
<1>8. text = c \o wrapped
  <2> HIDE DEF w
  <2>1. (c \o w) \o E = c \o (w \o E)
    <3>1. c \in Seq(T) /\ w \in Seq(T) /\ E \in Seq(T)
      BY <1>2, <1>3, <1>7
    <3>2. QED
      BY <3>1, Associates
  <2>2. QED
    BY <1>5, <2>1
<1> HIDE DEF w, wrapped
<1>9. Strip(text, K) = wrapped
  BY <1>3, <1>7, <1>8, StripIs, Zenon
<1>10. SkipWrapping(Strip(text, Comments \cup Blank)) = E
  BY <1>7, <1>9 DEF K
<1>11. IsSafeSelect(text) <=>
         First(E, "select") \/ (First(E, "with") /\ Len(E) > 1 /\ E[2] = "space")
  BY <1>10, Zenon DEF IsSafeSelect
<1>12. E # << >>
  BY <1>2, EmptySeq
<1>13. QED
  BY <1>2, <1>11, <1>12 DEF First, IsQuery, WithHasItsSpace, text

-----------------------------------------------------------------------------
(* The inductive invariant.                                                *)

LEMMA InitIInv == Init => IInv
<1> SUFFICES ASSUME Init PROVE IInv
  OBVIOUS
<1>1. CommitsAreSeeded
  <2>1. commits = << >> /\ seed.ok = {}
    BY DEF Init
  <2>2. {commits[i] : i \in DOMAIN commits} = {} /\ ~Changes
    BY <2>1 DEF Changes
  <2>3. QED
    BY <2>1, <2>2 DEF CommitsAreSeeded
<1>2. \A p \in Programs : conn[p] = NoSession
  BY DEF Init
<1>3. ReadersLeaveNothing
  BY <1>2 DEF ReadersLeaveNothing, NoSession, Programs
<1>4. HandlerInv
  <2>1. call.at = "idle" /\ ran = {}
    BY DEF Init
  <2>2. conn["handler"] = NoSession /\ NoSession.block
    BY <1>2 DEF Programs, NoSession
  <2>3. QED
    BY <2>1, <2>2 DEF HandlerInv
<1>5. SeederInv
  BY DEF Init, SeederInv, FitsSoFar
<1>6. Counted
  <2>1. /\ eval.at = "start" /\ eval.i = 0 /\ eval.ex = 0 /\ eval.execu = 0
        /\ eval.same = 0 /\ eval.both = 0
        /\ eval.right = [c \in Categories |-> 0] /\ eval.asked = [c \in Categories |-> 0]
    BY DEF Init
  <2>2. Sum(eval.right) = 0 /\ Sum(eval.asked) = 0
    BY <2>1 DEF Sum, Categories
  <2>3. QED
    BY <2>1, <2>2 DEF Counted
<1>7. QED
  BY <1>1, <1>3, <1>4, <1>5, <1>6, InitTyped DEF IInv

LEMMA StepIInv == IInv /\ [Next]_vars => IInv'
BY StepTyped, StepEval, StepCommits, StepReaders, StepHandler, StepSeeder DEF IInv

LEMMA Inductive == Spec => []IInv
BY InitIInv, StepIInv, PTL DEF Spec

-----------------------------------------------------------------------------
(* Whatever texts users and a model send, of however many statements: what *)
(* the handlers, the measurement and the check of the auditor execute is   *)
(* rolled back, unless a text has a COMMIT or a ROLLBACK of its own, and a *)
(* handler that has replied has no session left (ex_eval.py:163-172,       *)
(* test_auditor_vs_db.py:61-71, service.py:2192-2200).                     *)
THEOREM OthersAreAlwaysRolledBack == Spec => []OthersAreRolledBack
<1>1. IInv => OthersAreRolledBack
  <2> SUFFICES ASSUME IInv PROVE OthersAreRolledBack
    OBVIOUS
  <2>1. TypeOK
    BY DEF IInv, Typed, EvalTyped, TypeOK, Sessions, Roles
  <2>2. /\ scene = "check" => commits = << >>
        /\ scene = "handler" /\ commits # << >> => \E r \in ran : Ends(r.s.rest)
        /\ scene = "seed" /\ Changes => eval.ended
    BY DEF IInv, CommitsAreSeeded, TextEnded
  <2>3. /\ conn["check"].role = "origin" /\ conn["check"].wrote = << >>
        /\ eval.at # "candidate" => conn["eval"].wrote = << >>
        /\ conn["eval"].role # "origin" /\ eval.at # "candidate" => eval.ended
    BY DEF IInv, ReadersLeaveNothing
  <2>4. call.at \in {"idle", "replied"} => conn["handler"] = NoSession
    BY DEF IInv, HandlerInv
  <2>5. QED
    BY <2>1, <2>2, <2>3, <2>4 DEF OthersAreRolledBack
<1>2. QED
  BY <1>1, Inductive, PTL

(* However many tables there are and whichever of them the random rows do  *)
(* not fit: a table the seeder reports as failed does not fit, or comes    *)
(* after one that does not and that was met before any table was filled,   *)
(* unless a model's text changed the tables for good; and the tables it    *)
(* counts as filled are those it gave rows (seed_db_generic.py:75-90).     *)
THEOREM TablesAreSeededUnlessUnfit == Spec => []SeededUnlessUnfit
<1>1. IInv => SeededUnlessUnfit
  <2> SUFFICES ASSUME IInv PROVE SeededUnlessUnfit
    OBVIOUS
  <2>1. {commits[i] : i \in DOMAIN commits} \ {"change"} = seed.ok
    BY DEF IInv, CommitsAreSeeded
  <2>2. ASSUME NEW i \in 1..Len(Tables), Tables[i] \in seed.failed, ~Changes,
               Tables[i] \notin Unfit
        PROVE  \E j \in 1..i : /\ Tables[j] \in seed.failed \cap Unfit
                               /\ \A h \in 1..(j - 1) : Tables[h] \notin seed.ok
    <3>0. FitsSoFar
      BY <2>2 DEF IInv, SeederInv
    <3>1. FirstRefused
      BY <2>2, <3>0 DEF FitsSoFar
    <3>2. PICK j \in 1..seed.i : Tables[j] \in seed.failed \cap Unfit /\ Untouched(j - 1)
      BY <3>1 DEF FirstRefused
    <3>3. seed.i \in Nat /\ i \in Nat /\ j \in Nat /\ j >= 1
      BY <3>2, LengthsAreNumbers DEF IInv, Typed
    <3>4. Tables[i] \notin Empty
      BY <2>2, <3>0 DEF FitsSoFar
    <3>5. ~(i \in 1..(j - 1))
      BY <3>2, <3>4 DEF Untouched
    <3>6. j \in 1..i
      BY <3>3, <3>5, LengthsAreNumbers
    <3>7. \A h \in 1..(j - 1) : Tables[h] \notin seed.ok
      BY <3>0, <3>2 DEF Untouched, FitsSoFar
    <3>8. QED
      BY <3>2, <3>6, <3>7
  <2>3. QED
    BY <2>1, <2>2 DEF SeededUnlessUnfit
<1>2. QED
  BY <1>1, Inductive, PTL

(* The first statement of a text decides whether the handlers execute it:  *)
(* where EXPLAIN's words are followed by a space it is a query, however it *)
(* is commented and explained, and a query whose WITH has its space is not *)
(* refused; a reply of /run-sql says that rows were left out exactly when  *)
(* they were (service.py:2095-2131, 2180-2190).                            *)
THEOREM FirstStatementAlwaysDecides == Spec => []FirstStatementDecides
<1>1. \A s \in Requests :
        Spaced(s) => (IsSafeSelect(Text(s)) <=> IsQuery(s) /\ WithHasItsSpace(s))
  BY RequestsAssumption, FirstStatementIsRead
<1>2. IInv => FirstStatementDecides
  <2> SUFFICES ASSUME IInv PROVE FirstStatementDecides
    OBVIOUS
  <2>1. HandlerInv
    BY DEF IInv
  <2>2. \A r \in ran : Spaced(r.s) => IsQuery(r.s)
    BY <1>1, <2>1 DEF HandlerInv
  <2>3. call.at = "replied" /\ call.reply.status = "refused" /\ Spaced(call.s)
          => ~(IsQuery(call.s) /\ WithHasItsSpace(call.s))
    BY <1>1, <2>1 DEF HandlerInv
  <2>4. call.at = "replied" /\ call.kind = "run" =>
          (call.reply.truncated <=> call.reply.there > call.reply.shown)
    BY <2>1 DEF HandlerInv, TellsRows
  <2>5. QED
    BY <2>2, <2>3, <2>4 DEF FirstStatementDecides
<1>3. QED
  BY <1>2, Inductive, PTL

(* However many tasks are measured and wherever the categories end, and    *)
(* whatever has the same rows by chance: the accuracy counts every         *)
(* statement that means the same as the task's, if both gave rows and no   *)
(* data was written in between, and nothing that gave no rows or whose     *)
(* task gave none; the categories add up to it (ex_eval.py:188-204).       *)
THEOREM AccuracyIsMeasured == Spec => []MeasuresAccuracy
<1>1. IInv => MeasuresAccuracy
  BY DEF IInv, Counted, MeasuresAccuracy
<1>2. QED
  BY <1>1, Inductive, PTL
=============================================================================
