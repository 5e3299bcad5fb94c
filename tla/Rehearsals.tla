----------------------------- MODULE Rehearsals -----------------------------
(***************************************************************************)
(* The programs a newcomer runs first: the pipeline on its mock model      *)
(* (scripts/demo.py, tests/test_pipeline.py), the loop and the measurements *)
(* of notebooks/colab_pipeline.ipynb, the notebooks that the builders of   *)
(* simulations/ write, and scripts/batching_demo.py.                       *)
(*                                                                         *)
(* Each is a program of its own, run to its end: "program" says which one  *)
(* this behaviour is, "setup" how it was started.  The other programs'     *)
(* variables keep their first values.                                      *)
(***************************************************************************)
EXTENDS Skeleton, Judges, Batching

CONSTANTS
  Environments,   \* the environments run_pipeline is tried in
  Rounds,         \* how many iterations simulate_loop needs
  PageSizes,      \* page_size of fetch_orders_GOOD
  Orders          \* how many orders the table of the notebook holds

ASSUME EnvironmentsAssumption == Environments \subseteq Environment
ASSUME RoundsAssumption == Rounds \subseteq Nat \ {0}
ASSUME OrdersAssumption == Orders \in Nat \ {0} /\ PageSizes \subseteq Nat \ {0}

VARIABLES
  program, setup, stage,
  it, lessons, sql, log,       \* the loops; sql is << >> before the first text
  verdicts,                    \* the measurements
  node, seconds, tokens, exhausted, final_sql,   \* the budget; tenths of a second
  shown                        \* the pages

loopVars == << it, lessons, sql, log >>
budgetVars == << node, seconds, tokens, exhausted, final_sql >>
vars == << program, setup, stage, loopVars, verdicts, budgetVars, shown, batchingVars >>
-----------------------------------------------------------------------------
(* How the programs are started.                                           *)
Loops == {"pipeline", "chat", "notebook", "reflection"}
OnPipeline == program \in {"pipeline", "chat"}

(* The task may itself say what the mock takes for a lesson; one of the    *)
(* words does what any of them does.                                       *)
TaskSays == {{}, {"lesson"}}

(* demo.py and the tests choose the scenario; run_pipeline without a       *)
(* client asks make_llm.  adv_eval.py turns the hints off.                 *)
PipelineSetups ==
  {[client |-> Mock(s), env |-> env, hints |-> h, said |-> w] :
     s \in Scenarios, env \in Environments, h \in BOOLEAN, w \in TaskSays}
  \cup {[client |-> make_llm(env), env |-> env, hints |-> TRUE, said |-> w] :
          env \in Environments, w \in TaskSays}

(* /chat on the client of the environment: a question may come first.      *)
ChatSetups ==
  {[client |-> make_llm(env), env |-> env, hints |-> TRUE, said |-> w, force |-> f] :
     env \in Environments, w \in TaskSays, f \in BOOLEAN}

Exams ==
  << [judge |-> "notebook", cases |-> CardCases], [judge |-> "R002", cases |-> DmlCases],
     [judge |-> "R004", cases |-> LimitCases], [judge |-> "A", cases |-> CASES],
     [judge |-> "B", cases |-> CASES], [judge |-> "C", cases |-> CASES] >>

BudgetSetups == [n : Rounds, jitter : BOOLEAN]

Setups(p) ==
  CASE p = "pipeline"   -> PipelineSetups
    [] p = "chat"       -> ChatSetups
    [] p = "notebook"   -> {TRUE}
    [] p = "reflection" -> BOOLEAN            \* use_reflection
    [] p = "exam"       -> DOMAIN Exams
    [] p = "budget"     -> BudgetSetups
    [] p = "pages"      -> PageSizes
    [] p = "serving"    -> {1}

Programs == Loops \cup {"exam", "budget", "pages", "serving"}

Init ==
  /\ program \in Programs
  /\ setup \in Setups(program)
  /\ stage = IF program = "chat" THEN "asking" ELSE "running"
  /\ it = 0 /\ lessons = << >> /\ sql = << >> /\ log = << >>
  /\ verdicts = << >>
  /\ node = 0 /\ seconds = 0 /\ tokens = 0 /\ exhausted = FALSE /\ final_sql = ""
  /\ shown = << >>
  /\ BatchingInit(IF program = "serving" THEN 1 ELSE Len(Experiments) + 1)
-----------------------------------------------------------------------------
(* The loops: write, judge, learn, at most max_iter times.                 *)
MaxIter == CASE OnPipeline -> 5 [] program = "notebook" -> 3
             [] program = "reflection" -> 5 [] OTHER -> 0

(* mock_generator of build_part4 and generator of the notebook             *)
mock_generator(reflection) ==
  LET fixed == ToSet(reflection)
  IN  {"select"}
      \cup (IF fixed \cap {"DIRECT_SENSITIVE", "SELECT_STAR"} # {} THEN {} ELSE {"star"})
      \cup (IF "DML_NO_WHERE" \in fixed THEN {"where"} ELSE {})
      \cup (IF "NO_PAGINATION" \in fixed THEN {"limit"} ELSE {})
generator(reflection) ==
  IF reflection = << >> THEN {"select", "star"} ELSE {"select", "where", "limit"}

Texts(reflection) ==
  CASE OnPipeline ->
         Answers(setup.client, setup.env, GeneratePrompt(reflection, setup.hints, setup.said))
    [] program = "notebook" -> {generator(reflection)}
    [] program = "reflection" -> {mock_generator(IF setup THEN reflection ELSE << >>)}

FindingsIn(text) ==
  CASE OnPipeline             -> RunPhase1(text, {})
    [] program = "notebook"   -> judge(text)
    [] program = "reflection" -> mock_judge(text)

Approved(findings) ==
  IF OnPipeline THEN Audit(findings).approved ELSE Passed(findings)

(* reflect of the notebook: a lesson is kept once.  reflector of           *)
(* build_part4: a lesson is a template's, a dict keeps its first place,    *)
(* the last five stay.                                                     *)
reflect(findings, known) == Combine(known, LessonsOf(findings))
LESSON_TEMPLATES == {"SELECT_STAR", "DML_NO_WHERE", "NO_PAGINATION", "DIRECT_SENSITIVE"}
Taught(findings) ==
  LET taught[i \in 0..Len(findings)] ==
        IF i = 0 THEN << >>
        ELSE taught[i - 1] \o If(findings[i].class \in LESSON_TEMPLATES,
                                << findings[i].class >>)
  IN  taught[Len(findings)]
reflector_of_one(findings, known) == LastN(Combine(known, Taught(findings)), 1)
reflector(findings, known) == LastN(Combine(known, Taught(findings)), 5)

Learned(findings, known) ==
  CASE OnPipeline             -> Reflect(findings, known)
    [] program = "notebook"   -> reflect(findings, known)
    [] program = "reflection" -> IF setup THEN reflector(findings, known) ELSE known

(* generate_or_clarify, whose SQL the handler does not use: a clarifying   *)
(* answer ends the request, anything else starts the pipeline.             *)
Ask ==
  /\ stage = "asking"
  /\ Answers(setup.client, setup.env, DialogPrompt(setup.force, setup.hints, setup.said)) # {}
  /\ stage' \in {"running"}
                 \cup (IF setup.force \/ setup.client.backend = "mock" THEN {} ELSE {"done"})
  /\ UNCHANGED loopVars

Write ==
  /\ program \in Loops /\ stage = "running" /\ it < MaxIter
  /\ \E text \in Texts(lessons) : sql' = << text >>
  /\ it' = it + 1
  /\ stage' = "judging"
  /\ UNCHANGED << lessons, log >>

WriteRaises ==
  /\ OnPipeline /\ stage \in {"asking", "running"} /\ it < MaxIter
  /\ MayRaise(setup.client)
  /\ stage' = "raised"
  /\ UNCHANGED loopVars

Judge ==
  /\ program \in Loops /\ stage = "judging"
  /\ LET findings == FindingsIn(sql[1])
     IN  /\ log' = Append(log, [sql |-> sql[1], found |-> ClassesOf(findings),
                                approved |-> Approved(findings)])
         /\ IF Approved(findings)
            THEN stage' = "done" /\ UNCHANGED lessons
            ELSE /\ stage' = IF it = MaxIter THEN "done" ELSE "running"
                 /\ lessons' = Learned(findings, lessons)
  /\ UNCHANGED << it, sql >>

Loop ==
  /\ Ask \/ Write \/ WriteRaises \/ Judge
  /\ UNCHANGED << program, setup, verdicts, budgetVars, shown, batchingVars >>
-----------------------------------------------------------------------------
(* The measurements: a judge is shown its cases one after another.         *)
FindingsOf(name, text, noise) ==
  CASE name = "notebook" -> judge(text)
    [] name = "R002" -> audit_R002_R003(text)
    [] name = "R004" -> audit_R004_no_limit(text)
    [] name = "A" -> judge_A_rules_only(text)
    [] name = "B" -> judge_B_llm_only(text, noise)
    [] name = "C" -> judge_C_hybrid(text)

(* The notebook's judge speaks by its threshold, the others by any finding. *)
Verdict(name, text, noise) ==
  IF name = "notebook" THEN ~Passed(FindingsOf(name, text, noise))
  ELSE FindingsOf(name, text, noise) # << >>

Examine ==
  /\ program = "exam" /\ stage = "running"
  /\ LET exam == Exams[setup]
         case == exam.cases[Len(verdicts) + 1]
     IN  /\ \E noise \in IF exam.judge = "B" THEN Noise ELSE {0} :
              verdicts' = Append(verdicts, Verdict(exam.judge, case.sql, noise))
         /\ stage' = IF Len(verdicts) + 1 = Len(exam.cases) THEN "done" ELSE "running"
  /\ UNCHANGED << program, setup, loopVars, budgetVars, shown, batchingVars >>

(* metrics                                                                 *)
Counted(pred, truth) ==
  Cardinality({i \in DOMAIN verdicts :
                 verdicts[i] = pred /\ Exams[setup].cases[i].truth = truth})
FalseAlarms == Counted(TRUE, FALSE)
Misses == Counted(FALSE, TRUE)
-----------------------------------------------------------------------------
(* The budget notebook.                                                    *)
BudgetSeconds == 450
BudgetTokens == 80000
NODE_DURATIONS ==
  [schema_link |-> 5, generator |-> 70, auditor_phase1 |-> 10, auditor_phase2 |-> 40,
   reflector |-> 20, finalize |-> 3]

(* random.uniform                                                          *)
Jittered(n) == CASE n = "generator" -> 56..84 [] n = "auditor_phase1" -> 8..12
                 [] n = "auditor_phase2" -> 32..48 [] n = "reflector" -> 15..25
                 [] OTHER -> {NODE_DURATIONS[n]}
Durations(n) == IF setup.jitter THEN Jittered(n) ELSE {NODE_DURATIONS[n]}

Tokens(n) == CASE n \in {"schema_link", "finalize"} -> 0
               [] n = "reflector" -> 200
               [] n = "generator" /\ ~setup.jitter -> 5000
               [] n = "auditor_phase1" /\ ~setup.jitter -> 0
               [] OTHER -> 3000

(* schema_link, then n iterations with a reflector between them, then      *)
(* finalize.                                                               *)
Round == << "generator", "auditor_phase1", "auditor_phase2", "reflector" >>
PlanLength == 4 * setup.n + 1
Plan ==
  [k \in 1..PlanLength |->
     IF k = 1 THEN "schema_link"
     ELSE IF k = PlanLength THEN "finalize"
     ELSE Round[((k - 2) % 4) + 1]]

(* add                                                                     *)
Over(s, t) == s > BudgetSeconds \/ t > BudgetTokens

(* After schema_link and finalize nobody looks at the flag; after any node *)
(* of an iteration the run ends with what it has.                          *)
StopsAfter(n, over) == over /\ n \notin {"schema_link", "finalize"}

Spend ==
  /\ program = "budget" /\ stage = "running"
  /\ LET n == Plan[node + 1]
     IN  \E d \in Durations(n) :
           /\ seconds' = seconds + d
           /\ tokens' = tokens + Tokens(n)
           /\ exhausted' = (exhausted \/ Over(seconds', tokens'))
           /\ node' = node + 1
           /\ stage' = IF StopsAfter(n, exhausted') \/ n = "finalize" THEN "done" ELSE "running"
           /\ final_sql' = IF setup.jitter THEN ""
                           ELSE IF StopsAfter(n, exhausted') THEN "graceful"
                           ELSE IF n = "finalize" THEN "approved" ELSE ""
  /\ UNCHANGED << program, setup, loopVars, verdicts, shown, batchingVars >>
-----------------------------------------------------------------------------
(* fetch_orders_GOOD: ORDER BY id DESC LIMIT page_size, below the last id  *)
(* seen, if there is one.  The ids are 1..Orders, so those below "last"    *)
(* are last - 1, last - 2, ...  The reader shows two pages.                *)
Page(last) == [k \in 1..(IF last - 1 < setup THEN last - 1 ELSE setup) |-> last - k]

FirstPage ==
  /\ stage = "running"
  /\ shown' = Page(Orders + 1)
  /\ stage' = "second"

SecondPage ==
  /\ stage = "second"
  /\ shown' = shown \o Page(shown[Len(shown)])
  /\ stage' = "done"

NextPage ==
  /\ program = "pages"
  /\ FirstPage \/ SecondPage
  /\ UNCHANGED << program, setup, loopVars, verdicts, budgetVars, batchingVars >>
-----------------------------------------------------------------------------
Serving ==
  /\ program = "serving" /\ BatchingNext
  /\ stage' = IF experiment' > Len(Experiments) THEN "done" ELSE stage
  /\ UNCHANGED << program, setup, loopVars, verdicts, budgetVars, shown >>

Next == Loop \/ Examine \/ Spend \/ NextPage \/ Serving

Spec == Init /\ [][Next]_vars /\ WF_vars(Next)
-----------------------------------------------------------------------------
Finished == stage \in {"done", "raised"}
Listens == \/ program = "notebook"
           \/ program = "reflection" /\ setup
           \/ program = "pipeline" /\ setup.client = Mock("evolve")
NeverListens == \/ program = "reflection" /\ ~setup
                \/ program = "pipeline" /\ setup.client = Mock("always_bad")

(* What the notebooks set out to show: a model that hears the lessons does *)
(* not repeat a class of finding and is approved; one that does not hear   *)
(* them is never approved and uses up its rounds (build_part4.py:477-535,  *)
(* colab_pipeline.ipynb:744-758, tests/test_pipeline.py:103-120).          *)
LessonsAreLearned ==
  /\ Listens =>
       /\ \A i, j \in DOMAIN log : i < j => log[i].found \cap log[j].found = {}
       /\ Finished => Last(log).approved
  /\ NeverListens =>
       /\ \A i \in DOMAIN log : ~log[i].approved
       /\ Finished => Len(log) = MaxIter

(* A clone without a key does not fail on a provider that would refuse it, *)
(* whatever else its environment says, and every request of its dialog and *)
(* of its pipeline ends with an audited statement (llm/factory.py:43-45).  *)
FreshCloneAnswers ==
  OnPipeline /\ setup.client = make_llm(setup.env)
    /\ ~_has_llm_api_key(setup.env) /\ ~setup.env.colab
    => stage # "raised" /\ (stage = "done" => log # << >>)

(* The judges the notebooks praise find every bad statement they are shown *)
(* and accuse no good one (colab_pipeline.ipynb:857-878,                   *)
(* build_part5.py:184-252, build_part2.py and build_part3.py).             *)
JudgesMeetTheirGoals ==
  program = "exam" /\ Finished /\ Exams[setup].judge \in {"notebook", "R002", "R004", "C"}
    => Misses = 0 /\ FalseAlarms = 0

(* The budget breaks the loop: nothing but the node that broke it is paid  *)
(* beyond the budget, and an answer called approved was reached within it: *)
(* finalize, whose cost nobody looks at, still fits                        *)
(* (build_part5.py:363-408).                                               *)
BudgetIsKept ==
  program = "budget" =>
    /\ exhausted <=> Over(seconds, tokens)
    /\ exhausted => Finished
    /\ final_sql = "approved" => ~exhausted

(* The second page goes on where the first one ended: no order is shown    *)
(* twice, none between two that are shown is left out, and both pages are  *)
(* full unless there are no more orders (build_part3.py:550-568).          *)
PagesFollow ==
  program = "pages" =>
    /\ IsInjective(shown)
    /\ \A id \in ToSet(shown) : id..Orders \subseteq ToSet(shown)
    /\ Finished => Len(shown) = 2 * setup \/ ToSet(shown) = 1..Orders

(* What the notebooks say they show, they show.                            *)
NotebooksKeepTheirWord == JudgesMeetTheirGoals /\ BudgetIsKept /\ PagesFollow

(* Every rehearsal ends: loops and budgets are bounded, and every request  *)
(* to a batching server is answered though its batch may never be full     *)
(* (batching_demo.py:71-76).                                               *)
EveryRehearsalEnds == <>Finished

(* The mock shows the loop at work: without lessons its first answer, to a *)
(* task that has none of its words, is the vulnerable one                  *)
(* (llm/mock.py:13-15, 93).                                                *)
EvolveStartsDirty ==
  program = "pipeline" /\ setup.client = Mock("evolve") /\ setup.said = {} /\ log # << >>
    => log[1].sql = DIRTY
=============================================================================
