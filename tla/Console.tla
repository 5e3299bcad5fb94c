------------------------------- MODULE Console -------------------------------
(***************************************************************************)
(* The cards under an approved answer (infra/service.py): the forecast of  *)
(* /predict-time, the command to measure the statement, the report sent to *)
(* /timing/report, the sandbox on /run-sql; and the panel of the           *)
(* administrator.                                                          *)
(*                                                                         *)
(* Approved answers are numbered, and a statement is the number of its     *)
(* answer; Own is any other text the user types into the sandbox, 0 is "no *)
(* statement".  A time, a forecast or a command is the statement it is of. *)
(* What the database does for the handlers is the subject of DbSessions,   *)
(* the trail that of EventsLog, the dialog that of ChatDialog.             *)
(***************************************************************************)
EXTENDS Integers, Sequences, FiniteSets

CONSTANTS
  MaxAnswers,   \* bounds the approved answers shown
  MaxRuns,      \* bounds the runs of the sandbox
  MaxLines      \* no report is sent once the log has as many lines

ASSUME ConsoleBounds ==
  MaxAnswers \in Nat \ {0} /\ MaxRuns \in Nat /\ MaxLines \in Nat

Answers == 1..MaxAnswers
Own == MaxAnswers + 1

VARIABLES
  answers,      \* approved answers shown so far
  card,         \* the cards on the page: << >>, or << record >>, see NewCard
  forecast,     \* forecast[a]: bindPredictionCard of answer a
  sandbox,      \* sandbox[a]: runSandboxSQL on the sandbox card of a
  report,       \* report[a]: submitTimingReport on the card of a
  timing,       \* data/timing.jsonl
  runs,         \* how often the sandbox was run
  mixed,        \* history: a forecast came to another card, or the sandbox
                \* filled in the time of another statement
  lost,         \* history: the cards of which a report's reply was lost
  panel,        \* the administrator's panel, see Panel
  tab           \* the tab the user works in: the two share no state, so
                \* each behaviour is followed in one of them

page == << answers, card >>
consoleVars == << page, forecast, sandbox, report, timing, runs, mixed, lost,
           panel, tab >>

NewCardKeepsTime(a) ==
  [sql |-> a, cost |-> 0, command |-> 0, bound |-> FALSE, help |-> FALSE,
   open |-> FALSE, real |-> IF card = << >> THEN 0 ELSE card[1].real,
   button |-> "ready"]

(* help: the box "#pc-help-tog" is ticked; open: the report block is shown. *)
NewCard(a) == [sql |-> a, cost |-> 0, command |-> 0, bound |-> FALSE,
               help |-> FALSE, open |-> FALSE, real |-> 0, button |-> "ready"]

Credentials == {"right", "wrong"}

(* loads: requests to /admin/stats under way, with what they were sent and *)
(* what they brought.                                                      *)
(* leave: "#admin-logout" is on the page.                                  *)
Panel == [auth : Credentials \cup {"none"}, shown : BOOLEAN, raced : BOOLEAN,
          leave : BOOLEAN,
          loads : SUBSET [sent : Credentials, reply : {"none", "stats", "401"}]]

Idle == [at |-> "idle", of |-> 0]
NoReport == [at |-> "none", sql |-> 0, cost |-> 0, real |-> 0]

ConsoleInit ==
  /\ answers = 0
  /\ card = << >>
  /\ forecast = [a \in Answers |-> "none"]
  /\ sandbox = [a \in Answers |-> Idle]
  /\ report = [a \in Answers |-> NoReport]
  /\ timing = << >>
  /\ runs = 0
  /\ mixed = FALSE
  /\ lost = {}
  /\ panel = [auth |-> "none", shown |-> FALSE, raced |-> FALSE,
              leave |-> FALSE, loads |-> {}]
  /\ tab \in {"audit", "admin"}

OnPage(a) == card # << >> /\ card[1].sql = a

(* Assignments to the elements of the cards that are on the page now.      *)
SetCard(changed) == card' = IF card = << >> THEN card ELSE << changed >>
-----------------------------------------------------------------------------
(* An approved answer is rendered: new cards in place of what was there,   *)
(* and bindPredictionCard asks for the forecast.                           *)
ShowAnswer ==
  /\ answers < MaxAnswers
  /\ answers' = answers + 1
  /\ card' = << NewCard(answers + 1) >>
  /\ forecast' = [forecast EXCEPT ![answers + 1] = "asked"]
  /\ UNCHANGED << sandbox, report, timing, runs, mixed, lost, panel >>

(* A request of the dialog, a rejected answer and a reset empty the place; *)
(* so does a direct audit of an example (".vc-audit"), when it is asked    *)
(* for and again when its reply or its failure is shown in its place.      *)
ClearPage ==
  /\ card # << >>
  /\ card' = << >>
  /\ UNCHANGED << answers, forecast, sandbox, report, timing, runs, mixed,
                  lost, panel >>

(* POST /predict-time.  A statement it does not accept, no driver and a    *)
(* failed EXPLAIN are errors in the body of a reply; or there is no reply. *)
PredictTime(a) ==
  /\ forecast[a] = "asked"
  /\ \E outcome \in {"forecast", "error", "failed"} :
       forecast' = [forecast EXCEPT ![a] = outcome]
  /\ UNCHANGED << page, sandbox, report, timing, runs, mixed, lost, panel >>

(* The rest of bindPredictionCard looks its elements up again, after the   *)
(* await, but keeps the statement it was called with.                      *)
CostAfter(a) == IF forecast[a] = "forecast" THEN a ELSE card[1].cost

ReceiveForecast(a) ==
  /\ forecast[a] \in {"forecast", "error", "failed"}
  /\ forecast' = [forecast EXCEPT ![a] = "settled"]
  /\ IF card # << >>
     THEN SetCard([card[1] EXCEPT !.cost = CostAfter(a), !.command = a,
                                  !.bound = TRUE, !.open = card[1].help])
     ELSE UNCHANGED card
  /\ mixed' = (mixed \/ (card # << >> /\ ~OnPage(a)))
  /\ UNCHANGED << answers, sandbox, report, timing, runs, lost, panel >>

(* "#pc-help-tog": the command is wrapped, and the report block opens, once *)
(* the forecast has settled and given the box its handler.                 *)
ToggleHelp ==
  /\ card # << >>
  /\ SetCard([card[1] EXCEPT !.help = ~@,
                             !.open = IF card[1].bound THEN ~card[1].help ELSE @])
  /\ UNCHANGED << answers, forecast, sandbox, report, timing, runs, mixed,
                  lost, panel >>

(* The user runs the command he is shown on his own database, and pastes   *)
(* the output (_parsePaste) or types the time.  A sandbox may have opened  *)
(* the block before the forecast has settled: the statement of the answer  *)
(* is then all there is to run, and the time can only be typed.            *)
Shown(c) == IF c.bound THEN c.command ELSE c.sql

EnterTime ==
  /\ card # << >>
  /\ card[1].open
  /\ SetCard([card[1] EXCEPT !.real = Shown(card[1])])
  /\ UNCHANGED << answers, forecast, sandbox, report, timing, runs, mixed,
                  lost, panel >>
-----------------------------------------------------------------------------
(* submitTimingReport: what is sent is read from the card at once; the     *)
(* button it gives back later is that card's.                              *)
ButtonFree == card[1].button = "ready"

SubmitReport ==
  /\ card # << >>
  /\ card[1].bound /\ card[1].open /\ card[1].real # 0
  /\ ButtonFree
  /\ Len(timing) < MaxLines
  /\ report' = [report EXCEPT ![card[1].sql] =
                 [at |-> "asked", sql |-> card[1].sql, cost |-> card[1].cost,
                  real |-> card[1].real]]
  /\ SetCard([card[1] EXCEPT !.button = "sending"])
  /\ UNCHANGED << answers, forecast, sandbox, timing, runs, mixed, lost, panel >>

(* POST /timing/report: the line is appended, the call logged; a time out  *)
(* of range (422) or a failing disk (500) leaves no line.                  *)
TimingReport(a) ==
  /\ report[a].at = "asked"
  /\ \/ /\ timing' = Append(timing, [sql |-> report[a].sql, cost |-> report[a].cost,
                                     real |-> report[a].real])
        /\ report' = [report EXCEPT ![a].at = "ok"]
     \/ /\ report' = [report EXCEPT ![a].at = "failed"]
        /\ UNCHANGED timing
  /\ UNCHANGED << page, forecast, sandbox, runs, mixed, lost, panel >>

LoseReportReply(a) ==
  /\ report[a].at = "ok"
  /\ report' = [report EXCEPT ![a].at = "failed"]
  /\ lost' = lost \cup {a}
  /\ UNCHANGED << page, forecast, sandbox, timing, runs, mixed, panel >>

ButtonAfter(at) == IF at = "ok" THEN "sent" ELSE "ready"

ReceiveReport(a) ==
  /\ report[a].at \in {"ok", "failed"}
  /\ IF OnPage(a) THEN SetCard([card[1] EXCEPT !.button = ButtonAfter(report[a].at)])
                  ELSE UNCHANGED card
  /\ report' = [report EXCEPT ![a] = NoReport]
  /\ UNCHANGED << answers, forecast, sandbox, timing, runs, mixed, lost, panel >>
-----------------------------------------------------------------------------
(* runSandboxSQL, with the statement of the card ("#sb-fill") or any text. *)
RunSandbox(s) ==
  /\ card # << >>
  /\ s \in {card[1].sql, Own}
  /\ sandbox[card[1].sql] = Idle
  /\ runs < MaxRuns
  /\ runs' = runs + 1
  /\ sandbox' = [sandbox EXCEPT ![card[1].sql] = [at |-> "asked", of |-> s]]
  /\ UNCHANGED << page, forecast, report, timing, mixed, lost, panel >>

(* POST /run-sql: a plan with its time, rows, or no success.               *)
RunSql(a) ==
  /\ sandbox[a].at = "asked"
  /\ \E outcome \in {"timed", "rows", "failed"} :
       sandbox' = [sandbox EXCEPT ![a].at = outcome]
  /\ UNCHANGED << page, forecast, report, timing, runs, mixed, lost, panel >>

(* The time of a plan goes into the report of the card that is open; the   *)
(* button comes back in "finally".                                         *)
EnabledBySuccess(at) == IF at = "failed" THEN [at |-> "off", of |-> 0] ELSE Idle
Enabled(at) == Idle

ReceiveResult(a) ==
  /\ sandbox[a].at \in {"timed", "rows", "failed"}
  /\ IF sandbox[a].at = "timed"
     THEN /\ SetCard([card[1] EXCEPT !.real = sandbox[a].of, !.help = TRUE,
                                     !.open = @ \/ ~card[1].help])
          /\ mixed' = (mixed \/ (card # << >> /\ card[1].sql # sandbox[a].of))
     ELSE UNCHANGED << card, mixed >>
  /\ sandbox' = [sandbox EXCEPT ![a] = Enabled(sandbox[a].at)]
  /\ UNCHANGED << answers, forecast, report, timing, runs, lost, panel >>
-----------------------------------------------------------------------------
(* The administrator's panel.                                              *)

Loading(p) == [p EXCEPT !.loads = @ \cup {[sent |-> p.auth, reply |-> "none"]}]

(* "#admin-login", and the tab when there are credentials: adminLoadStats. *)
Login(c) ==
  /\ panel' = Loading([panel EXCEPT !.auth = c, !.raced = @ \/ panel.loads # {}])
  /\ UNCHANGED << page, forecast, sandbox, report, timing, runs, mixed, lost >>

OpenAdminTab ==
  /\ panel.auth # "none"
  /\ panel' = Loading(panel)
  /\ UNCHANGED << page, forecast, sandbox, report, timing, runs, mixed, lost >>

Logout ==
  /\ panel.leave
  /\ panel' = [panel EXCEPT !.auth = "none", !.shown = FALSE, !.leave = FALSE,
                            !.raced = @ \/ panel.loads # {}]
  /\ UNCHANGED << page, forecast, sandbox, report, timing, runs, mixed, lost >>

(* GET /admin/stats: require_admin.                                        *)
AdminStats(l) ==
  /\ l \in panel.loads /\ l.reply = "none"
  /\ panel' = [panel EXCEPT !.loads = (@ \ {l}) \cup
       {[l EXCEPT !.reply = IF l.sent = "right" THEN "stats" ELSE "401"]}]
  /\ UNCHANGED << page, forecast, sandbox, report, timing, runs, mixed, lost >>

(* The rest of adminLoadStats.                                             *)
KeptAfter401(p) == [p EXCEPT !.auth = "none"]
After401(p) == [p EXCEPT !.auth = "none", !.shown = FALSE]

ReceiveStats(l) ==
  /\ l \in panel.loads /\ l.reply # "none"
  /\ LET p == [panel EXCEPT !.loads = @ \ {l}]
     IN  panel' = IF l.reply = "401" THEN After401(p)
                  ELSE [p EXCEPT !.shown = TRUE, !.leave = TRUE]
  /\ UNCHANGED << page, forecast, sandbox, report, timing, runs, mixed, lost >>

(* No connection: the exception leaves everything as it is.                *)
FailToLoad(l) ==
  /\ l \in panel.loads
  /\ panel' = [panel EXCEPT !.loads = @ \ {l}]
  /\ UNCHANGED << page, forecast, sandbox, report, timing, runs, mixed, lost >>
-----------------------------------------------------------------------------
SettleForecast(a) == PredictTime(a) \/ ReceiveForecast(a)
SettleReport(a) == TimingReport(a) \/ ReceiveReport(a)
SettleSandbox(a) == RunSql(a) \/ ReceiveResult(a)

AuditTab ==
  \/ ShowAnswer \/ ClearPage \/ ToggleHelp \/ EnterTime \/ SubmitReport
  \/ \E s \in 1..Own : RunSandbox(s)
  \/ \E a \in Answers :
       SettleForecast(a) \/ SettleReport(a) \/ SettleSandbox(a) \/ LoseReportReply(a)

AdminTab ==
  \/ \E c \in Credentials : Login(c)
  \/ OpenAdminTab \/ Logout
  \/ \E l \in panel.loads : AdminStats(l) \/ ReceiveStats(l) \/ FailToLoad(l)

ConsoleNext ==
  /\ \/ tab = "audit" /\ AuditTab
     \/ tab = "admin" /\ AdminTab
  /\ UNCHANGED tab

ConsoleSpec == ConsoleInit /\ [][ConsoleNext]_consoleVars

(* The server answers, and fetch() settles; the user may stop at any time. *)
ConsoleFairSpec ==
  /\ ConsoleSpec
  /\ \A a \in Answers : /\ WF_consoleVars(SettleForecast(a) /\ UNCHANGED tab)
                        /\ WF_consoleVars(SettleReport(a) /\ UNCHANGED tab)
                        /\ WF_consoleVars(SettleSandbox(a) /\ UNCHANGED tab)
-----------------------------------------------------------------------------
Statement == 0..Own

ConsoleTypeOK ==
  /\ answers \in 0..MaxAnswers
  /\ card # << >> => /\ card[1].sql \in 1..answers
                      /\ {card[1].cost, card[1].command} \subseteq 0..answers
                      /\ card[1].real \in Statement
                      /\ card[1].button \in {"ready", "sending", "sent"}
  /\ \A a \in Answers : (forecast[a] = "none") = (a > answers)
  /\ timing \in Seq([sql : Answers, cost : 0..MaxAnswers, real : Statement])
  /\ runs \in 0..MaxRuns
  /\ panel \in Panel

(* Unless a forecast came to another answer's card, or the sandbox filled  *)
(* in the time of another statement, a line of the log is about one        *)
(* statement: its text, the forecast it has and the time that was measured *)
(* (service.py:833-838, 971-987, 1029-1043).                               *)
PairsAreOfTheCard ==
  ~mixed => \A i \in DOMAIN timing : /\ timing[i].real = timing[i].sql
                                      /\ timing[i].cost \in {0, timing[i].sql}

(* A card that says its report was sent has its line, and no card has two, *)
(* unless a reply was lost and the report was sent again                   *)
(* (service.py:1023, 1046-1056).                                           *)
LinesOf(a) == {i \in DOMAIN timing : timing[i].sql = a}

ReportsAreKeptOnce ==
  \A a \in Answers :
    /\ OnPage(a) /\ card[1].button = "sent" => LinesOf(a) # {}
    /\ a \notin lost => Cardinality(LinesOf(a)) <= 1

(* The log of times tells what the cards reported.                         *)
ReportsTellTheirCard == ConsoleTypeOK /\ PairsAreOfTheCard /\ ReportsAreKeptOnce

(* Neither button stays disabled over a request that has ended             *)
(* (service.py:1013-1015, 1046-1056).                                      *)
ButtonsComeBack ==
  \A a \in Answers :
    /\ (sandbox[a].at # "idle") ~> (sandbox[a].at = "idle")
    /\ (OnPage(a) /\ card[1].button = "sending")
         ~> ~(OnPage(a) /\ card[1].button = "sending")

(* Statistics are shown to someone who has given credentials, unless he    *)
(* left or changed them while they were on their way                       *)
(* (service.py:1449-1482).                                                 *)
StatsNeedLogin == panel.shown /\ ~panel.raced => panel.auth # "none"
-----------------------------------------------------------------------------
(* What the comment says of the log (service.py:2225-2226): pairs of a     *)
(* forecast and a time, of one statement.  Not so when "mixed".            *)
PairsAreOfOneStatement ==
  \A i \in DOMAIN timing : timing[i].cost # 0 => timing[i].cost = timing[i].real
=============================================================================
