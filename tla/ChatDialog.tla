----------------------------- MODULE ChatDialog -----------------------------
(***************************************************************************)
(* The dialog with clarifying questions (infra/service.py): the state the  *)
(* browser page keeps (_task, _history, the single-flight guard of         *)
(* sendChat), the stateless POST /chat handler that is sent all of it each *)
(* time, and the live mode (/chat/stream) of the same page.                *)
(*                                                                         *)
(* Dialogs are numbered in the order they are started, and a dialog's task *)
(* is its number; 0 is the empty _task.  Every turn of the history carries *)
(* the dialog it comes from.  What the pipeline does with the task is the  *)
(* subject of module Pipeline, how a stream is delivered of ChatStream;    *)
(* here a request ends with SQL, with a question or with a failure.        *)
(***************************************************************************)
EXTENDS Integers, Sequences, FiniteSets

CONSTANTS
  MaxDialogs,       \* bounds how often the user starts a dialog
  MaxTurns          \* bounds the answers: none beyond this many turns

ASSUME BoundsAssumption == MaxDialogs \in Nat \ {0} /\ MaxTurns \in Nat

MAX_CLARIFY_ROUNDS == 2

VARIABLES
  dialogs,       \* dialogs started
  task,          \* _task
  history,       \* _history
  in_flight,     \* _chatInFlight
  chat,          \* the request to /chat under way, or << >>: see Fetch
  streams,       \* the dialogs with a /chat/stream under way
  bubbles,       \* clarify bubbles on the page, each a way to answer
  reset_shown,   \* the reset button is visible
  form,          \* the feedback form: << >>, or << dialog its SQL is for >>
  persisted,     \* data/clarifications.jsonl: [task, history]
  feedback,      \* data/feedback.jsonl: << task, dialog the SQL is for >>
  overtaken      \* the dialog was ever replaced while a request was under way

ui == << dialogs, task, history, in_flight, bubbles, reset_shown, form >>
vars == << ui, chat, streams, persisted, feedback, overtaken >>

Dialogs == 1..MaxDialogs

(* An assistant turn is a question, asked or left empty by the model.      *)
Question(about, asked) == [role |-> "assistant", about |-> about, asked |-> asked]
Answer(about) == [role |-> "user", about |-> about, asked |-> FALSE]

Turn == [role : {"assistant", "user"}, about : 0..MaxDialogs, asked : BOOLEAN]

Replies == {"none", "question", "empty_question", "sql", "failure"}

Init ==
  /\ dialogs = 0
  /\ task = 0
  /\ history = << >>
  /\ in_flight = FALSE
  /\ chat = << >>
  /\ streams = {}
  /\ bubbles = 0
  /\ reset_shown = FALSE
  /\ form = << >>
  /\ persisted = {}
  /\ feedback = {}
  /\ overtaken = FALSE
-----------------------------------------------------------------------------
(* The page.                                                               *)

Pending == chat # << >> \/ streams # {}

(* resetDialog, and the new _task its caller sets                          *)
ResetKeepsForm(new_task) ==
  /\ task' = new_task
  /\ history' = << >>
  /\ bubbles' = 0
  /\ reset_shown' = FALSE
  /\ overtaken' = (overtaken \/ Pending)
  /\ UNCHANGED form

ResetDialog(new_task) ==
  /\ task' = new_task
  /\ history' = << >>
  /\ bubbles' = 0
  /\ reset_shown' = FALSE
  /\ form' = << >>
  /\ overtaken' = (overtaken \/ Pending)

Fetch(about, turns) ==
  chat' = << [task |-> about, history |-> turns, reply |-> "none"] >>

NotInFlight == ~in_flight

(* "#go": reset, then sendChat() with no answer, which does nothing while  *)
(* an earlier request is under way.                                        *)
Go ==
  /\ dialogs < MaxDialogs
  /\ dialogs' = dialogs + 1
  /\ ResetDialog(dialogs + 1)
  /\ IF NotInFlight
     THEN in_flight' = TRUE /\ Fetch(dialogs + 1, << >>)
     ELSE UNCHANGED << in_flight, chat >>
  /\ UNCHANGED << streams, persisted, feedback >>

(* "#go-stream": reset, then sendStream(), which has no guard.             *)
GoStream ==
  /\ dialogs < MaxDialogs
  /\ dialogs' = dialogs + 1
  /\ ResetDialog(dialogs + 1)
  /\ streams' = streams \cup {dialogs + 1}
  /\ UNCHANGED << in_flight, chat, persisted, feedback >>

Reset ==
  /\ reset_shown
  /\ ResetDialog(0)
  /\ UNCHANGED << dialogs, in_flight, chat, streams, persisted, feedback >>

(* An option or the free answer of any bubble still on the page:           *)
(* sendChat(answer).                                                       *)
SendAnswerGuardedLate ==
  /\ bubbles > 0
  /\ Len(history) < MaxTurns
  /\ history' = Append(history, Answer(task))
  /\ IF NotInFlight
     THEN in_flight' = TRUE /\ Fetch(task, history') /\ form' = << >>
     ELSE UNCHANGED << in_flight, chat, form >>
  /\ UNCHANGED << dialogs, task, bubbles, reset_shown, streams, persisted,
                  feedback, overtaken >>

SendAnswer ==
  /\ bubbles > 0
  /\ NotInFlight
  /\ Len(history) < MaxTurns
  /\ in_flight' = TRUE
  /\ history' = Append(history, Answer(task))
  /\ Fetch(task, history')
  /\ form' = << >>
  /\ UNCHANGED << dialogs, task, bubbles, reset_shown, streams, persisted,
                  feedback, overtaken >>

(* The rest of sendChat, when the reply is there.  The guard is taken back *)
(* in "finally", on every path.                                            *)
ReleasedBySql(reply) == reply # "sql"
Released(reply) == FALSE

Asks(reply) == reply \in {"question", "empty_question"}

ReceiveReply ==
  /\ chat # << >>
  /\ LET reply == chat[1].reply
     IN  /\ reply # "none"
         /\ in_flight' = Released(reply)
         /\ IF Asks(reply)
            THEN /\ history' = Append(history,
                                  Question(chat[1].task, reply = "question"))
                 /\ bubbles' = bubbles + 1
            ELSE UNCHANGED << history, bubbles >>
         /\ form' = IF reply = "sql" THEN << chat[1].task >> ELSE << >>
         /\ reset_shown' = (reset_shown \/ reply = "sql")
  /\ chat' = << >>
  /\ UNCHANGED << dialogs, task, streams, persisted, feedback, overtaken >>

(* The rest of sendStream, once the stream has ended: with a final event,  *)
(* or without one.                                                         *)
ReceiveFinal(d) ==
  /\ d \in streams
  /\ streams' = streams \ {d}
  /\ form' = << d >>
  /\ reset_shown' = TRUE
  /\ UNCHANGED << dialogs, task, history, in_flight, chat, bubbles, persisted,
                  feedback, overtaken >>

StreamFails(d) ==
  /\ d \in streams
  /\ streams' = streams \ {d}
  /\ UNCHANGED << ui, chat, persisted, feedback, overtaken >>

(* "#fb-send": the task is the page's, the SQL is the form's.  The handler *)
(* persists the pair unless the task is empty (min_length=1); any reply    *)
(* takes the form away, and without one it can be sent again.              *)
SendFeedback ==
  /\ form # << >>
  /\ feedback' = feedback \cup {<< about, form[1] >> : about \in {task} \ {0}}
  /\ \/ form' = << >>
     \/ form' = form
  /\ UNCHANGED << dialogs, task, history, in_flight, chat, streams, bubbles,
                  reset_shown, persisted, overtaken >>
-----------------------------------------------------------------------------
(* POST /chat.                                                             *)

(* n_clarifies counts the assistant turns whose question is not empty.     *)
Clarifies(turns) == Cardinality({i \in DOMAIN turns : turns[i].asked})

ForceSqlLate(turns) == Clarifies(turns) > MAX_CLARIFY_ROUNDS
ForceSql(turns) == Clarifies(turns) >= MAX_CLARIFY_ROUNDS

Reply(reply) == chat' = << [chat[1] EXCEPT !.reply = reply] >>

Arrived == chat # << >> /\ chat[1].reply = "none"

(* ChatRequest: an empty task is refused before the handler runs.          *)
Valid == Arrived /\ chat[1].task # 0

(* The model asked something, or said it wants to and left out what.       *)
Clarify ==
  /\ Valid
  /\ ~ForceSql(chat[1].history)
  /\ Reply("question") \/ Reply("empty_question")
  /\ UNCHANGED << ui, streams, persisted, feedback, overtaken >>

(* _persist_clarification: the dialog of a request with a history is kept; *)
(* a failing write is logged and forgotten.                                *)
Persist ==
  IF chat[1].history = << >>
  THEN persisted' = persisted
  ELSE \/ persisted' = persisted
            \cup {[task |-> chat[1].task, history |-> chat[1].history]}
       \/ persisted' = persisted

AnswerWithSql ==
  /\ Valid
  /\ Persist
  /\ Reply("sql")
  /\ UNCHANGED << ui, streams, feedback, overtaken >>

(* HTTP 422 or 500, or the request never arrived.                          *)
Fail ==
  /\ Arrived
  /\ Reply("failure")
  /\ UNCHANGED << ui, streams, persisted, feedback, overtaken >>

(* The reply is lost after the handler did its work.                       *)
LoseReply ==
  /\ chat # << >>
  /\ chat[1].reply \notin {"none", "failure"}
  /\ Reply("failure")
  /\ UNCHANGED << ui, streams, persisted, feedback, overtaken >>

Serve == Clarify \/ AnswerWithSql \/ Fail

Next ==
  \/ Go \/ GoStream \/ Reset \/ SendAnswer \/ SendFeedback
  \/ Clarify \/ AnswerWithSql \/ Fail \/ LoseReply
  \/ ReceiveReply
  \/ \E d \in Dialogs : ReceiveFinal(d) \/ StreamFails(d)

Spec == Init /\ [][Next]_vars

(* The server answers every request that arrives, and fetch() settles,     *)
(* with a reply or an exception.  The user need not do anything.           *)
FairSpec == Spec /\ WF_vars(Serve) /\ WF_vars(ReceiveReply)
-----------------------------------------------------------------------------
TypeOK ==
  /\ dialogs \in 0..MaxDialogs
  /\ task \in 0..dialogs
  /\ history \in Seq(Turn)
  /\ in_flight \in BOOLEAN
  /\ chat # << >> => chat[1].task \in 0..dialogs /\ chat[1].reply \in Replies
  /\ chat # << >> => chat[1].history \in Seq(Turn)
  /\ streams \subseteq 1..dialogs
  /\ bubbles \in Nat
  /\ reset_shown \in BOOLEAN
  /\ form \in {<< >>} \cup {<< d >> : d \in 1..dialogs}
  /\ \A p \in persisted : p.task \in 0..dialogs /\ p.history \in Seq(Turn)
  /\ feedback \subseteq (1..dialogs) \X (1..dialogs)
  /\ overtaken \in BOOLEAN
  /\ in_flight = (chat # << >>)

(* The questions a dialog really asks are at most MAX_CLARIFY_ROUNDS,      *)
(* whatever failed, was repeated or was overtaken (service.py:1826-1827).  *)
AsksAtMostTwice == Clarifies(history) <= MAX_CLARIFY_ROUNDS

(* What the server works on is what the page shows: nothing is added to    *)
(* the dialog while a request is under way (service.py:1247-1250).         *)
RequestMirrorsDialog ==
  (in_flight /\ ~overtaken) => chat[1].task = task /\ chat[1].history = history

(* Unless a dialog was replaced under a request, a dialog kept for later   *)
(* training is one dialog: it begins with a question, ends with an answer, *)
(* never asks twice in a row, and all of it is about the task it is kept   *)
(* with, although requests fail and answers are sent again                 *)
(* (service.py:1251-1259, 1875-1876).                                      *)
OneDialog(p) ==
  /\ p.history[1].role = "assistant"
  /\ p.history[Len(p.history)].role = "user"
  /\ \A i \in 1..(Len(p.history) - 1) :
       ~(p.history[i].role = "assistant" /\ p.history[i + 1].role = "assistant")
  /\ \A i \in DOMAIN p.history : p.history[i].about = p.task

PersistedDialogsAreWhole == ~overtaken => \A p \in persisted : OneDialog(p)

(* The dialog on the page, on its way and kept for training is one dialog. *)
DialogsAreWhole == TypeOK /\ RequestMirrorsDialog /\ PersistedDialogsAreWhole

(* Unless a dialog was replaced under a request, a rating is kept with the *)
(* task its SQL was made for (service.py:1532-1533).                       *)
FeedbackIsAboutItsTask == ~overtaken => \A f \in feedback : f[1] = f[2]

(* The guard is always taken back, so that the dialog can go on            *)
(* (service.py:1357-1359).                                                 *)
GuardIsReleased == in_flight ~> ~in_flight
-----------------------------------------------------------------------------
(* What the comment says of the rounds (service.py:1736).                  *)
RoundsAreBounded ==
  Cardinality({i \in DOMAIN history : history[i].role = "assistant"})
    <= MAX_CLARIFY_ROUNDS

(* What the request's fields say (service.py:1748-1751): the task is the   *)
(* first message of the dialog whose rounds are in the history.            *)
HistoryIsOfTheTask ==
  chat # << >> => \A i \in DOMAIN chat[1].history :
                    chat[1].history[i].about = chat[1].task
=============================================================================
