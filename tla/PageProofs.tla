----------------------------- MODULE PageProofs ------------------------------
(***************************************************************************)
(* The page keeps its promises, whatever is lost, repeated or overtaken:   *)
(* the dialog for any number of dialogs and turns; the cards under the     *)
(* answers, the log of times and the panel of the administrator for any    *)
(* number of answers, runs and lines.                                      *)
(***************************************************************************)
EXTENDS ChatDialog, Console, FiniteSetTheorems, SequenceTheorems, TLAPS
-----------------------------------------------------------------------------
(* The dialog.                                                             *)

Request == [task : 0..MaxDialogs, history : Seq(Turn), reply : Replies]

Types ==
  /\ TypeOK
  /\ chat \in {<< >>} \cup {<< q >> : q \in Request}
  /\ chat # << >> /\ chat[1].reply = "sql" => chat[1].task # 0

(* The page shows the dialog it has sent, or an emptied one; the server    *)
(* asks only where there is a round left.                                  *)
Rounds ==
  /\ Clarifies(history) <= MAX_CLARIFY_ROUNDS
  /\ chat # << >> => history = chat[1].history \/ history = << >>
  /\ chat # << >> /\ chat[1].reply = "question" =>
       Clarifies(chat[1].history) < MAX_CLARIFY_ROUNDS

(* Turns that begin with a question, never ask twice in a row, and are all *)
(* about one task.                                                         *)
Shape(turns, about) ==
  /\ turns # << >> => turns[1].role = "assistant"
  /\ \A i \in 1..(Len(turns) - 1) :
       ~(turns[i].role = "assistant" /\ turns[i + 1].role = "assistant")
  /\ \A i \in DOMAIN turns : turns[i].about = about

Page ==
  ~overtaken =>
    /\ Shape(history, task)
    /\ bubbles > 0 => history # << >>
    /\ chat # << >> => /\ chat[1].task = task
                       /\ chat[1].history = history
                       /\ history # << >> => history[Len(history)].role = "user"
    /\ \A p \in persisted : OneDialog(p)

(* The form, and the streams that will fill it, are of the page's task.    *)
Ratings ==
  ~overtaken =>
    /\ form # << >> => form[1] = task
    /\ streams \subseteq {task}
    /\ \A f \in feedback : f[1] = f[2]

IInv == Types /\ Rounds /\ Page /\ Ratings
-----------------------------------------------------------------------------
(* How a turn changes the count of questions.                              *)
LEMMA CountsNothing == Clarifies(<< >>) = 0
<1>1. {i \in DOMAIN << >> : << >>[i].asked} = {}
  OBVIOUS
<1>2. QED
  BY <1>1, FS_EmptySet DEF Clarifies

LEMMA Counting ==
  ASSUME NEW turns \in Seq(Turn), NEW turn \in Turn
  PROVE  /\ Clarifies(turns) \in Nat
         /\ ~turn.asked => Clarifies(Append(turns, turn)) = Clarifies(turns)
         /\ turn.asked => Clarifies(Append(turns, turn)) = Clarifies(turns) + 1
<1> DEFINE n == Len(turns)
           old == {i \in DOMAIN turns : turns[i].asked}
           more == Append(turns, turn)
           new == {i \in DOMAIN more : more[i].asked}
<1>1. /\ n \in Nat /\ DOMAIN turns = 1..n /\ DOMAIN more = 1..(n + 1)
      /\ more[n + 1] = turn /\ \A i \in 1..n : more[i] = turns[i]
  OBVIOUS
<1>2. IsFiniteSet(old)
  <2>1. IsFiniteSet(1..n)
    BY <1>1, FS_Interval
  <2>2. old \subseteq 1..n
    BY <1>1
  <2>3. QED
    BY <2>1, <2>2, FS_Subset
<1>3. Cardinality(old) \in Nat
  BY <1>2, FS_CardinalityType
<1>4. ~turn.asked => new = old
  BY <1>1
<1>5. turn.asked => new = old \cup {n + 1} /\ n + 1 \notin old
  BY <1>1
<1>6. turn.asked => Cardinality(new) = Cardinality(old) + 1
  BY <1>2, <1>5, FS_AddElement
<1>7. Clarifies(turns) = Cardinality(old) /\ Clarifies(more) = Cardinality(new)
  BY DEF Clarifies
<1> HIDE DEF old, new, more, n
<1>8. QED
  BY <1>3, <1>4, <1>6, <1>7 DEF more

(* How a turn changes the shape.                                           *)
LEMMA Answered ==
  ASSUME NEW turns \in Seq(Turn), NEW about \in 0..MaxDialogs,
         Shape(turns, about), turns # << >>
  PROVE  /\ Append(turns, Answer(about)) \in Seq(Turn)
         /\ Shape(Append(turns, Answer(about)), about)
         /\ Append(turns, Answer(about)) # << >>
         /\ Append(turns, Answer(about))[Len(Append(turns, Answer(about)))].role = "user"
<1> DEFINE n == Len(turns)
           more == Append(turns, Answer(about))
<1>1. Answer(about) \in Turn /\ Answer(about).role = "user" /\ Answer(about).about = about
  BY DEF Answer, Turn
<1>2. /\ n \in Nat \ {0} /\ DOMAIN turns = 1..n /\ DOMAIN more = 1..(n + 1) /\ Len(more) = n + 1
      /\ more[n + 1] = Answer(about) /\ \A i \in 1..n : more[i] = turns[i]
      /\ more \in Seq(Turn) /\ more # << >>
  BY <1>1
<1> HIDE DEF n, more
<1>3. Shape(more, about)
  <2>1. more[1].role = "assistant"
    BY <1>2 DEF Shape
  <2>2. ASSUME NEW i \in 1..n
        PROVE  ~(more[i].role = "assistant" /\ more[i + 1].role = "assistant")
    <3>1. CASE i = n
      BY <1>1, <1>2, <3>1
    <3>2. CASE i # n
      <4>1. i \in 1..(n - 1) /\ i + 1 \in 1..n
        BY <1>2, <3>2
      <4>2. QED
        BY <1>2, <4>1 DEF Shape, n
    <3>3. QED
      BY <3>1, <3>2
  <2>3. \A i \in DOMAIN more : more[i].about = about
    BY <1>1, <1>2 DEF Shape
  <2>4. Len(more) - 1 = n
    BY <1>2
  <2>5. QED
    BY <2>1, <2>2, <2>3, <2>4 DEF Shape
<1>4. QED
  BY <1>1, <1>2, <1>3 DEF more

LEMMA Asked ==
  ASSUME NEW turns \in Seq(Turn), NEW about \in 0..MaxDialogs, NEW asked \in BOOLEAN,
         Shape(turns, about), turns # << >> => turns[Len(turns)].role = "user"
  PROVE  /\ Append(turns, Question(about, asked)) \in Seq(Turn)
         /\ Shape(Append(turns, Question(about, asked)), about)
         /\ Append(turns, Question(about, asked)) # << >>
<1> DEFINE n == Len(turns)
           more == Append(turns, Question(about, asked))
<1>1. /\ Question(about, asked) \in Turn /\ Question(about, asked).about = about
      /\ Question(about, asked).role = "assistant"
  BY DEF Question, Turn
<1>a. /\ n \in Nat /\ DOMAIN turns = 1..n
      /\ more \in Seq(Turn) /\ more # << >> /\ (n # 0 <=> turns # << >>)
  BY <1>1
<1>b. /\ DOMAIN more = 1..(n + 1) /\ Len(more) = n + 1
      /\ more[n + 1] = Question(about, asked) /\ \A i \in 1..n : more[i] = turns[i]
  BY <1>1
<1>2. /\ n \in Nat /\ DOMAIN turns = 1..n /\ DOMAIN more = 1..(n + 1) /\ Len(more) = n + 1
      /\ more[n + 1] = Question(about, asked) /\ \A i \in 1..n : more[i] = turns[i]
      /\ more \in Seq(Turn) /\ more # << >> /\ (n # 0 <=> turns # << >>)
  BY <1>a, <1>b, Zenon
<1> HIDE DEF n, more
<1>3. Shape(more, about)
  <2>1. more[1].role = "assistant"
    BY <1>1, <1>2 DEF Shape
  <2>2. ASSUME NEW i \in 1..n
        PROVE  ~(more[i].role = "assistant" /\ more[i + 1].role = "assistant")
    <3>1. CASE i = n
      BY <1>2, <3>1 DEF n
    <3>2. CASE i # n
      <4>1. i \in 1..(n - 1) /\ i + 1 \in 1..n
        BY <1>2, <3>2
      <4>2. QED
        BY <1>2, <4>1 DEF Shape, n
    <3>3. QED
      BY <3>1, <3>2
  <2>3. \A i \in DOMAIN more : more[i].about = about
    BY <1>1, <1>2 DEF Shape
  <2>4. Len(more) - 1 = n
    BY <1>2
  <2>5. QED
    BY <2>1, <2>2, <2>3, <2>4 DEF Shape
<1>4. QED
  BY <1>2, <1>3 DEF more
-----------------------------------------------------------------------------
LEMMA Starts == Init => IInv
<1> SUFFICES ASSUME Init PROVE IInv
  OBVIOUS
<1> USE DEF Init
<1>1. << >> \in Seq(Turn)
  OBVIOUS
<1>2. Types
  <2>1. dialogs \in 0..MaxDialogs /\ task \in 0..dialogs
    BY BoundsAssumption
  <2>2. form \in {<< >>} \cup {<< d >> : d \in 1..dialogs}
    BY Zenon
  <2>3. chat \in {<< >>} \cup {<< q >> : q \in Request}
    BY Zenon
  <2>4. history \in Seq(Turn)
    BY <1>1
  <2>5. /\ in_flight = (chat # << >>) /\ in_flight \in BOOLEAN
        /\ feedback \subseteq (1..dialogs) \X (1..dialogs)
        /\ streams \subseteq 1..dialogs /\ bubbles \in Nat
    OBVIOUS
  <2>6. QED
    BY <2>1, <2>2, <2>3, <2>4, <2>5 DEF Types, TypeOK
<1>3. Rounds
  BY CountsNothing DEF Rounds, MAX_CLARIFY_ROUNDS
<1>4. Page /\ Ratings
  BY DEF Page, Shape, Ratings
<1>5. QED
  BY <1>2, <1>3, <1>4 DEF IInv

(* What is on its way is a request.                                        *)
LEMMA OnItsWay ==
  ASSUME Types, chat # << >>
  PROVE  /\ chat = << chat[1] >> /\ chat[1] \in Request
         /\ chat[1].task \in 0..dialogs /\ chat[1].task \in 0..MaxDialogs
         /\ chat[1].history \in Seq(Turn)
  BY DEF Types, TypeOK, Request

LEMMA Fetching ==
  ASSUME NEW about \in 0..MaxDialogs, NEW turns \in Seq(Turn), Fetch(about, turns)
  PROVE  /\ chat' \in {<< q >> : q \in Request} /\ chat' # << >>
         /\ chat'[1].task = about /\ chat'[1].history = turns
         /\ chat'[1].reply = "none" /\ "none" \in Replies
  BY DEF Fetch, Request, Replies

LEMMA Replying ==
  ASSUME Types, chat # << >>, NEW reply \in Replies, Reply(reply)
  PROVE  /\ chat' \in {<< q >> : q \in Request} /\ chat' # << >>
         /\ chat'[1].task = chat[1].task /\ chat'[1].history = chat[1].history
         /\ chat'[1].reply = reply
<1>1. chat = << chat[1] >> /\ chat[1] \in Request
  BY OnItsWay
<1>2. chat' = << [chat[1] EXCEPT !.reply = reply] >>
  BY DEF Reply
<1>3. QED
  BY <1>1, <1>2 DEF Request

(* A new dialog, or none: the page is empty.                               *)
LEMMA Emptied ==
  ASSUME IInv, NEW new_task, ResetDialog(new_task),
         chat' = chat \/ (/\ chat' # << >> /\ chat'[1].task = new_task
                          /\ chat'[1].history = << >> /\ chat'[1].reply = "none"),
         persisted' = persisted, feedback' = feedback,
         streams' \in {streams, streams \cup {new_task}}
  PROVE  Rounds' /\ Page' /\ Ratings'
<1> USE DEF IInv, ResetDialog
<1>1. Rounds'
  BY CountsNothing DEF Rounds, MAX_CLARIFY_ROUNDS
<1>2. ~overtaken' => ~overtaken /\ chat = << >> /\ streams = {}
  BY DEF Pending
<1>3. Shape(history', task')
  BY DEF Shape
<1>4. Page'
  BY <1>2, <1>3 DEF Page, Shape
<1>5. Ratings'
  BY <1>2 DEF Ratings
<1>6. QED
  BY <1>1, <1>4, <1>5

LEMMA EmptiedTypes ==
  ASSUME Types,
         dialogs' \in {dialogs, dialogs + 1}, dialogs' \in 0..MaxDialogs,
         task' \in 0..dialogs', history' = << >>, bubbles' = 0, form' = << >>,
         reset_shown' = FALSE, overtaken' \in BOOLEAN,
         streams' = streams \/ (streams' = streams \cup {dialogs'} /\ dialogs' # 0),
         \/ chat' = chat /\ in_flight' = in_flight
         \/ /\ chat' \in {<< q >> : q \in Request} /\ chat' # << >> /\ in_flight' = TRUE
            /\ chat'[1].task \in 0..dialogs' /\ chat'[1].history = << >>
            /\ chat'[1].reply = "none",
         persisted' = persisted, feedback' = feedback
  PROVE  Types'
<1>1. dialogs \in Nat /\ dialogs' \in Nat /\ dialogs <= dialogs' /\ MaxDialogs \in Nat
  BY BoundsAssumption DEF Types, TypeOK
<1>2. 0..dialogs \subseteq 0..dialogs' /\ 1..dialogs \subseteq 1..dialogs'
  BY <1>1
<1>4. << >> \in Seq(Turn)
  OBVIOUS
<1>5. streams' \subseteq 1..dialogs'
  <2>1. streams \subseteq 1..dialogs'
    BY <1>2 DEF Types, TypeOK
  <2>2. dialogs' # 0 => dialogs' \in 1..dialogs'
    BY <1>1
  <2>3. CASE streams' = streams
    BY <2>1, <2>3, Zenon
  <2>4. CASE streams' = streams \cup {dialogs'} /\ dialogs' # 0
    <3>1. dialogs' \in 1..dialogs'
      BY <2>2, <2>4, Zenon
    <3>2. \A d \in streams' : d \in 1..dialogs'
      BY <2>1, <2>4, <3>1, Zenon
    <3>3. QED
      BY <3>2, Zenon
  <2>5. QED
    BY <2>3, <2>4, Zenon
<1>6. form' \in {<< >>} \cup {<< d >> : d \in 1..dialogs'}
  BY Zenon
<1>7. /\ chat' \in {<< >>} \cup {<< q >> : q \in Request}
      /\ (chat' # << >> /\ chat'[1].reply = "sql") => chat'[1].task # 0
  BY DEF Types
<1>8. chat' # << >> => chat'[1].task \in 0..dialogs'
  BY <1>2 DEF Types, TypeOK
<1>9. chat' # << >> => chat'[1].reply \in Replies /\ chat'[1].history \in Seq(Turn)
  BY <1>7 DEF Request
<1>10. in_flight' = (chat' # << >>) /\ in_flight' \in BOOLEAN
  BY DEF Types, TypeOK
<1>11. \A p \in persisted' : p.task \in 0..dialogs' /\ p.history \in Seq(Turn)
  BY <1>2 DEF Types, TypeOK
<1>12. feedback' \subseteq (1..dialogs') \X (1..dialogs')
  BY <1>2 DEF Types, TypeOK
<1>13. bubbles' \in Nat /\ reset_shown' \in BOOLEAN /\ history' = << >> /\ overtaken' \in BOOLEAN
  BY DEF Types, TypeOK
<1>14. QED
  BY <1>4, <1>5, <1>6, <1>7, <1>8, <1>9, <1>10, <1>11, <1>12, <1>13 DEF Types, TypeOK

LEMMA GoStep ==
  ASSUME IInv, Go
  PROVE  IInv'
<1> USE DEF IInv
<1>1. dialogs + 1 \in 1..MaxDialogs /\ dialogs \in Nat /\ << >> \in Seq(Turn)
  BY BoundsAssumption DEF Go, Types, TypeOK
<1>0. /\ dialogs' = dialogs + 1 /\ task' \in 0..dialogs'
      /\ dialogs' \in {dialogs, dialogs + 1} /\ dialogs' \in 0..MaxDialogs /\ dialogs' # 0
      /\ history' = << >> /\ bubbles' = 0 /\ form' = << >> /\ reset_shown' = FALSE
      /\ overtaken' \in BOOLEAN /\ UNCHANGED << streams, persisted, feedback >>
  BY <1>1 DEF Go, ResetDialog, Types, TypeOK
<1>2. CASE in_flight
  <2>1. chat' = chat /\ in_flight' = in_flight
    BY <1>2 DEF Go, NotInFlight
  <2>2. Types'
    <3>1. chat' = chat /\ in_flight' = in_flight /\ Types
      BY <2>1
    <3> HIDE DEF IInv
    <3>2. QED
      BY <1>0, <3>1, EmptiedTypes
  <2>3. QED
    BY <2>1, <2>2, Emptied DEF Go
<1>3. CASE ~in_flight
  <2>1. in_flight' = TRUE /\ Fetch(dialogs + 1, << >>)
    BY <1>3 DEF Go, NotInFlight
  <2>2. /\ chat' \in {<< q >> : q \in Request} /\ chat' # << >>
        /\ chat'[1].task = dialogs + 1 /\ chat'[1].history = << >>
        /\ chat'[1].reply = "none" /\ "none" \in Replies
    <3>1. dialogs + 1 \in 0..MaxDialogs
      BY <1>1
    <3>2. QED
      BY <1>1, <2>1, <3>1, Fetching
  <2>3. Types'
    <3>1. chat'[1].task \in 0..dialogs'
      BY <1>0, <1>1, <2>2
    <3>2. QED
      BY <1>0, <2>1, <2>2, <3>1, EmptiedTypes
  <2>4. QED
    BY <2>2, <2>3, Emptied DEF Go
<1>4. QED
  BY <1>2, <1>3 DEF Types, TypeOK

LEMMA GoStreamStep ==
  ASSUME IInv, GoStream
  PROVE  IInv'
<1> USE DEF IInv
<1>1. dialogs + 1 \in 1..MaxDialogs /\ dialogs \in Nat /\ << >> \in Seq(Turn)
  BY BoundsAssumption DEF GoStream, Types, TypeOK
<1>0. /\ dialogs' = dialogs + 1 /\ task' \in 0..dialogs'
      /\ dialogs' \in {dialogs, dialogs + 1} /\ dialogs' \in 0..MaxDialogs /\ dialogs' # 0
      /\ history' = << >> /\ bubbles' = 0 /\ form' = << >> /\ reset_shown' = FALSE
      /\ overtaken' \in BOOLEAN /\ UNCHANGED << in_flight, chat, persisted, feedback >>
      /\ streams' = streams \cup {dialogs'}
  BY <1>1 DEF GoStream, ResetDialog, Types, TypeOK
<1>2. Types'
  <2>1. Types /\ chat' = chat /\ in_flight' = in_flight /\ persisted' = persisted
        /\ feedback' = feedback
    BY <1>0
  <2>2. QED
    BY ONLY <1>0, <2>1, EmptiedTypes
<1>3. QED
  BY <1>2, Emptied DEF GoStream

LEMMA ResetStep ==
  ASSUME IInv, Reset
  PROVE  IInv'
<1> USE DEF IInv
<1>1. /\ dialogs' = dialogs /\ dialogs' \in 0..MaxDialogs /\ task' \in 0..dialogs'
      /\ history' = << >> /\ bubbles' = 0 /\ form' = << >> /\ reset_shown' = FALSE
      /\ overtaken' \in BOOLEAN
      /\ UNCHANGED << in_flight, chat, streams, persisted, feedback >>
  BY BoundsAssumption DEF Reset, ResetDialog, Types, TypeOK
<1>2. Types'
  BY <1>1, EmptiedTypes
<1>3. QED
  BY <1>2, Emptied DEF Reset
-----------------------------------------------------------------------------
(* An answer is added to the page's dialog and sent with it.               *)
LEMMA SendAnswerStep ==
  ASSUME IInv, SendAnswer
  PROVE  IInv'
<1> USE DEF IInv
<1> DEFINE more == Append(history, Answer(task))
<1>1. /\ chat = << >> /\ bubbles > 0 /\ in_flight' = TRUE /\ history' = more
      /\ Fetch(task, more) /\ form' = << >>
      /\ UNCHANGED << dialogs, task, bubbles, reset_shown, streams, persisted,
                      feedback, overtaken >>
  BY DEF SendAnswer, NotInFlight, Types, TypeOK
<1>2. history \in Seq(Turn) /\ task \in 0..MaxDialogs
  BY BoundsAssumption DEF Types, TypeOK
<1>3. Answer(task) \in Turn /\ ~Answer(task).asked /\ more \in Seq(Turn)
  BY <1>2 DEF Answer, Turn
<1>4. /\ chat' \in {<< q >> : q \in Request} /\ chat' # << >>
      /\ chat'[1].task = task /\ chat'[1].history = more
      /\ chat'[1].reply = "none" /\ "none" \in Replies
  BY <1>1, <1>2, <1>3, Fetching
<1>5. Types'
  BY <1>1, <1>3, <1>4 DEF Types, TypeOK
<1>6. Rounds'
  <2>1. Clarifies(more) = Clarifies(history)
    BY <1>2, <1>3, Counting
  <2>2. Clarifies(history)' <= MAX_CLARIFY_ROUNDS
    BY <1>1, <2>1 DEF Rounds, MAX_CLARIFY_ROUNDS, Clarifies
  <2>3. QED
    BY <1>1, <1>4, <2>2 DEF Rounds, MAX_CLARIFY_ROUNDS
<1>7. Page'
  <2> SUFFICES ASSUME ~overtaken' PROVE Page'
    BY DEF Page
  <2>1. /\ Shape(history, task) /\ history # << >>
        /\ \A p \in persisted : OneDialog(p)
    BY <1>1 DEF Page
  <2>2. Shape(more, task) /\ more # << >> /\ more[Len(more)].role = "user"
    BY <1>2, <2>1, Answered
  <2>3. QED
    BY <1>1, <1>4, <2>1, <2>2 DEF Page, Shape, OneDialog
<1>8. Ratings'
  BY <1>1 DEF Ratings
<1>9. QED
  BY <1>5, <1>6, <1>7, <1>8

(* A question becomes a turn of whatever dialog the page shows.            *)
LEMMA ReceiveReplyStep ==
  ASSUME IInv, ReceiveReply
  PROVE  IInv'
<1> USE DEF IInv
<1> DEFINE asked == chat[1].reply = "question"
           turn == Question(chat[1].task, asked)
           more == Append(history, turn)
<1>1. /\ chat # << >> /\ chat' = << >> /\ in_flight' = FALSE
      /\ form' = IF chat[1].reply = "sql" THEN << chat[1].task >> ELSE << >>
      /\ reset_shown' \in {reset_shown, TRUE}
      /\ \/ Asks(chat[1].reply) /\ history' = more /\ bubbles' = bubbles + 1
         \/ history' = history /\ bubbles' = bubbles
      /\ UNCHANGED << dialogs, task, streams, persisted, feedback, overtaken >>
  BY DEF ReceiveReply, Released, Types, TypeOK
<1>2. /\ history \in Seq(Turn) /\ chat[1].task \in 0..dialogs
      /\ chat[1].task \in 0..MaxDialogs /\ chat[1].history \in Seq(Turn)
  BY <1>1, OnItsWay DEF Types, TypeOK
<1>3. turn \in Turn /\ turn.asked = asked /\ more \in Seq(Turn)
  BY <1>2 DEF Question, Turn
<1>4. Rounds'
  <2>1. Clarifies(history)' <= MAX_CLARIFY_ROUNDS
    <3>1. CASE history' = history
      BY <3>1 DEF Rounds, Clarifies
    <3>2. CASE history' = more
      <4>1. /\ Clarifies(history) \in Nat
            /\ ~asked => Clarifies(more) = Clarifies(history)
            /\ asked => Clarifies(more) = Clarifies(history) + 1
        BY <1>2, <1>3, Counting
      <4>2. asked => Clarifies(history) < MAX_CLARIFY_ROUNDS
        BY <1>1, CountsNothing DEF Rounds, MAX_CLARIFY_ROUNDS
      <4>3. Clarifies(history) <= MAX_CLARIFY_ROUNDS
        BY DEF Rounds
      <4>4. Clarifies(history)' = Clarifies(more)
        BY <3>2 DEF Clarifies
      <4> HIDE DEF more, asked
      <4>5. QED
        BY <4>1, <4>2, <4>3, <4>4 DEF MAX_CLARIFY_ROUNDS
    <3>3. QED
      BY <1>1, <3>1, <3>2
  <2>2. QED
    BY <1>1, <2>1 DEF Rounds, MAX_CLARIFY_ROUNDS
<1>5. Page'
  <2> SUFFICES ASSUME ~overtaken' PROVE Page'
    BY DEF Page
  <2>1. /\ Shape(history, task) /\ chat[1].task = task
        /\ history # << >> => history[Len(history)].role = "user"
        /\ bubbles > 0 => history # << >>
        /\ \A p \in persisted : OneDialog(p)
    BY <1>1 DEF Page
  <2>2. Shape(more, task) /\ more # << >>
    BY <1>2, <2>1, Asked
  <2>3. Shape(history', task') /\ (bubbles' > 0 => history' # << >>)
    BY <1>1, <2>1, <2>2
  <2>4. QED
    BY <1>1, <2>1, <2>3 DEF Page, Shape, OneDialog
<1>6. Ratings'
  BY <1>1 DEF Ratings, Page
<1>7. Types'
  <2>1. history' \in Seq(Turn) /\ bubbles' \in Nat
    <3>1. bubbles \in Nat /\ bubbles + 1 \in Nat
      BY DEF Types, TypeOK
    <3>2. QED
      BY <1>1, <1>2, <1>3, <3>1, Zenon
  <2>2. form' \in {<< >>} \cup {<< d >> : d \in 1..dialogs}
    <3>1. dialogs \in Nat
      BY BoundsAssumption DEF Types, TypeOK
    <3>2. CASE chat[1].reply = "sql"
      <4>1. chat[1].task \in 1..dialogs
        BY <1>1, <1>2, <3>1, <3>2 DEF Types
      <4>2. form' = << chat[1].task >>
        BY <1>1, <3>2
      <4>3. QED
        BY <4>1, <4>2, Zenon
    <3>3. CASE chat[1].reply # "sql"
      BY <1>1, <3>3, Zenon
    <3>4. QED
      BY <3>2, <3>3
  <2>3. QED
    BY <1>1, <2>1, <2>2 DEF Types, TypeOK
<1>8. QED
  BY <1>4, <1>5, <1>6, <1>7
-----------------------------------------------------------------------------
(* The server, or the network, settles the request; the dialog it was sent *)
(* may be kept.                                                            *)
Kept == [task |-> chat[1].task, history |-> chat[1].history]

LEMMA Settled ==
  ASSUME IInv, chat # << >>, NEW reply \in Replies, Reply(reply),
         reply = "question" => Clarifies(chat[1].history) < MAX_CLARIFY_ROUNDS,
         reply = "sql" => chat[1].task # 0,
         \/ persisted' = persisted
         \/ (persisted' = persisted \cup {Kept} /\ chat[1].history # << >>),
         UNCHANGED << ui, streams, feedback, overtaken >>
  PROVE  IInv'
<1>1. /\ chat[1].task \in 0..dialogs /\ chat[1].history \in Seq(Turn)
      /\ chat' \in {<< q >> : q \in Request} /\ chat' # << >>
      /\ chat'[1].task = chat[1].task /\ chat'[1].history = chat[1].history
      /\ chat'[1].reply = reply
  BY OnItsWay, Replying DEF IInv
<1>2. UNCHANGED << dialogs, task, history, in_flight, bubbles, reset_shown, form,
                   streams, feedback, overtaken >>
  BY DEF ui
<1>3. Types'
  <2>1. \A p \in persisted' : p.task \in 0..dialogs /\ p.history \in Seq(Turn)
    BY <1>1 DEF IInv, Types, TypeOK, Kept
  <2>2. QED
    BY <1>1, <1>2, <2>1 DEF IInv, Types, TypeOK
<1>4. Rounds'
  <2>1. /\ Clarifies(history)' = Clarifies(history)
        /\ Clarifies(chat[1].history)' = Clarifies(chat[1].history)
    BY <1>1, <1>2 DEF Clarifies
  <2>2. QED
    BY <1>1, <1>2, <2>1 DEF IInv, Rounds, MAX_CLARIFY_ROUNDS
<1>5. Page'
  <2> SUFFICES ASSUME ~overtaken PROVE Page'
    BY <1>2 DEF Page
  <2>1. /\ Shape(history, task) /\ chat[1].task = task /\ chat[1].history = history
        /\ bubbles > 0 => history # << >>
        /\ history # << >> => history[Len(history)].role = "user"
        /\ \A p \in persisted : OneDialog(p)
    BY DEF IInv, Page
  <2>2. history # << >> => OneDialog(Kept)
    BY <2>1 DEF OneDialog, Kept, Shape
  <2>3. \A p \in persisted' : OneDialog(p)
    BY <2>1, <2>2
  <2>4. QED
    BY <1>1, <1>2, <2>1, <2>3 DEF Page, Shape, OneDialog
<1>6. Ratings'
  BY <1>2 DEF IInv, Ratings
<1>7. QED
  BY <1>3, <1>4, <1>5, <1>6 DEF IInv

LEMMA ServerStep ==
  ASSUME IInv, Clarify \/ AnswerWithSql \/ Fail \/ LoseReply
  PROVE  IInv'
<1>1. CASE Clarify
  <2>1. /\ chat # << >> /\ Clarifies(chat[1].history) < MAX_CLARIFY_ROUNDS
        /\ \E reply \in {"question", "empty_question"} : Reply(reply)
        /\ UNCHANGED << ui, streams, persisted, feedback, overtaken >>
    <3>1. Clarifies(chat[1].history) \in Nat
      BY <1>1, OnItsWay, Counting, CountsNothing DEF Clarify, Valid, Arrived, IInv
    <3>2. QED
      BY <1>1, <3>1 DEF Clarify, Valid, Arrived, ForceSql, MAX_CLARIFY_ROUNDS
  <2>2. QED
    BY <2>1, Settled DEF Replies
<1>2. CASE AnswerWithSql
  <2>1. /\ chat # << >> /\ chat[1].task # 0 /\ Reply("sql")
        /\ \/ persisted' = persisted
           \/ (persisted' = persisted \cup {Kept} /\ chat[1].history # << >>)
        /\ UNCHANGED << ui, streams, feedback, overtaken >>
    BY <1>2 DEF AnswerWithSql, Valid, Arrived, Persist, Kept
  <2>2. QED
    BY <2>1, Settled DEF Replies
<1>3. CASE Fail \/ LoseReply
  <2>1. /\ chat # << >> /\ Reply("failure")
        /\ UNCHANGED << ui, streams, persisted, feedback, overtaken >>
    BY <1>3 DEF Fail, LoseReply, Arrived
  <2>2. QED
    BY <2>1, Settled DEF Replies
<1>4. QED
  BY <1>1, <1>2, <1>3

(* Ratings and streams leave the dialog alone.                             *)
LEMMA SameDialog ==
  ASSUME IInv,
         UNCHANGED << dialogs, task, history, in_flight, chat, bubbles, persisted, overtaken >>,
         reset_shown' \in BOOLEAN,
         form' \in {<< >>} \cup {<< d >> : d \in 1..dialogs},
         streams' \subseteq streams,
         feedback' \subseteq (1..dialogs) \X (1..dialogs)
  PROVE  Types' /\ Rounds' /\ Page'
<1>1. Types'
  BY DEF IInv, Types, TypeOK
<1>2. Rounds'
  BY DEF IInv, Rounds, Clarifies, MAX_CLARIFY_ROUNDS
<1>3. Page'
  BY DEF IInv, Page, Shape, OneDialog
<1>4. QED
  BY <1>1, <1>2, <1>3

LEMMA SendFeedbackStep ==
  ASSUME IInv, SendFeedback
  PROVE  IInv'
<1>1. /\ UNCHANGED << dialogs, task, history, in_flight, chat, bubbles, persisted, overtaken >>
      /\ reset_shown' = reset_shown /\ streams' = streams
      /\ form # << >> /\ (form' = form \/ form' = << >>)
      /\ feedback' = feedback \cup {<< about, form[1] >> : about \in {task} \ {0}}
  BY DEF SendFeedback
<1>2. /\ reset_shown \in BOOLEAN /\ task \in 0..dialogs /\ dialogs \in Nat
      /\ form \in {<< >>} \cup {<< d >> : d \in 1..dialogs}
      /\ feedback \subseteq (1..dialogs) \X (1..dialogs)
  BY BoundsAssumption DEF IInv, Types, TypeOK
<1>3. form[1] \in 1..dialogs
  BY <1>1, <1>2
<1>4. \A about \in {task} \ {0} : about \in 1..dialogs
  BY <1>2
<1>5. feedback' \subseteq (1..dialogs) \X (1..dialogs)
  BY <1>1, <1>2, <1>3, <1>4
<1>6. Types' /\ Rounds' /\ Page'
  BY <1>1, <1>2, <1>5, SameDialog
<1>7. Ratings'
  BY <1>1 DEF IInv, Ratings
<1>8. QED
  BY <1>6, <1>7 DEF IInv

LEMMA StreamEndsStep ==
  ASSUME IInv, NEW d \in Dialogs, ReceiveFinal(d) \/ StreamFails(d)
  PROVE  IInv'
<1>1. /\ UNCHANGED << dialogs, task, history, in_flight, chat, bubbles, persisted, overtaken >>
      /\ reset_shown' \in {reset_shown, TRUE} /\ streams' = streams \ {d} /\ d \in streams
      /\ form' = << d >> \/ form' = form
      /\ feedback' = feedback
  BY DEF ReceiveFinal, StreamFails, ui
<1>2. /\ reset_shown' \in BOOLEAN /\ d \in 1..dialogs
      /\ form \in {<< >>} \cup {<< e >> : e \in 1..dialogs}
      /\ feedback' \subseteq (1..dialogs) \X (1..dialogs)
  BY <1>1 DEF IInv, Types, TypeOK
<1>3. form' \in {<< >>} \cup {<< e >> : e \in 1..dialogs}
  BY <1>1, <1>2, Zenon
<1>4. Types' /\ Rounds' /\ Page'
  BY <1>1, <1>2, <1>3, SameDialog
<1>5. Ratings'
  BY <1>1 DEF IInv, Ratings
<1>6. QED
  BY <1>4, <1>5 DEF IInv
-----------------------------------------------------------------------------
LEMMA NextStep ==
  ASSUME IInv, [Next]_vars
  PROVE  IInv'
<1>1. CASE Go \/ GoStream \/ Reset \/ SendAnswer \/ SendFeedback \/ ReceiveReply
  BY <1>1, GoStep, GoStreamStep, ResetStep, SendAnswerStep, SendFeedbackStep, ReceiveReplyStep
<1>2. CASE Clarify \/ AnswerWithSql \/ Fail \/ LoseReply
  BY <1>2, ServerStep
<1>3. CASE \E d \in Dialogs : ReceiveFinal(d) \/ StreamFails(d)
  BY <1>3, StreamEndsStep
<1>4. CASE UNCHANGED vars
  BY <1>4 DEF vars, ui, IInv, Types, TypeOK, Rounds, Page, Ratings, Shape, OneDialog, Clarifies
<1>5. QED
  BY <1>1, <1>2, <1>3, <1>4 DEF Next

(* The inductive invariant holds, whatever the constants and whatever      *)
(* overtakes what.                                                         *)
THEOREM Inductive == Spec => []IInv
<1>1. QED
  BY Starts, NextStep, PTL DEF Spec

(* A dialog asks at most twice, although the server keeps no state and     *)
(* counts the rounds in what the page sends (service.py:1826-1827).        *)
THEOREM AsksCorrect == Spec => []AsksAtMostTwice
<1>1. IInv => AsksAtMostTwice
  BY DEF IInv, Rounds, AsksAtMostTwice
<1>2. QED
  BY <1>1, Inductive, PTL

(* Unless a dialog was replaced under a request, what is on the page, what *)
(* the server works on and what is kept is one dialog, whatever failed and *)
(* was sent again (service.py:1247-1259, 1875-1876).                       *)
THEOREM DialogsCorrect == Spec => []DialogsAreWhole
<1>1. IInv => DialogsAreWhole
  BY DEF IInv, Types, TypeOK, Page, DialogsAreWhole, RequestMirrorsDialog,
         PersistedDialogsAreWhole
<1>2. QED
  BY <1>1, Inductive, PTL

(* A rating goes to the task its SQL was made for (service.py:1532-1533).  *)
THEOREM FeedbackCorrect == Spec => []FeedbackIsAboutItsTask
<1>1. IInv => FeedbackIsAboutItsTask
  BY DEF IInv, Ratings, FeedbackIsAboutItsTask
<1>2. QED
  BY <1>1, Inductive, PTL
-----------------------------------------------------------------------------
(* The cards, the log of times and the panel.                              *)

(* The records and their ranges.                                           *)
Card == [sql : Answers, cost : 0..MaxAnswers, command : 0..MaxAnswers,
         bound : BOOLEAN, help : BOOLEAN, open : BOOLEAN, real : Statement,
         button : {"ready", "sending", "sent"}]
SandboxRun == [at : {"idle", "asked", "timed", "rows", "failed"}, of : Statement]
Report == [at : {"none", "asked", "ok", "failed"}, sql : 0..MaxAnswers,
           cost : 0..MaxAnswers, real : Statement]
Line == [sql : Answers, cost : 0..MaxAnswers, real : Statement]

Typed ==
  /\ answers \in 0..MaxAnswers
  /\ card = << >> \/ \E c \in Card : card = << c >>
  /\ forecast \in [Answers -> {"none", "asked", "forecast", "error", "failed", "settled"}]
  /\ sandbox \in [Answers -> SandboxRun]
  /\ report \in [Answers -> Report]
  /\ timing \in Seq(Line)
  /\ runs \in 0..MaxRuns
  /\ mixed \in BOOLEAN
  /\ panel \in Panel

(* What is about an answer is about one that was shown.                    *)
OfShownAnswers ==
  /\ card # << >> => /\ card[1].sql \in 1..answers
                     /\ card[1].cost \in 0..answers /\ card[1].command \in 0..answers
  /\ \A a \in Answers :
       /\ (forecast[a] = "none") = (a > answers)
       /\ report[a].at # "none" => a \in 1..answers /\ report[a].sql = a
  /\ \A i \in DOMAIN timing : timing[i].sql \in 1..answers

(* Until two statements were mixed, a card, and a report that was sent,    *)
(* tell of one.                                                            *)
OneStatement ==
  ~mixed =>
    /\ card # << >> => /\ {card[1].cost, card[1].command, card[1].real} \subseteq {0, card[1].sql}
                       /\ card[1].bound => card[1].command = card[1].sql
    /\ \A a \in Answers : report[a].at # "none" =>
         report[a].real = report[a].sql /\ report[a].cost \in {0, report[a].sql}
    /\ \A i \in DOMAIN timing : /\ timing[i].real = timing[i].sql
                                /\ timing[i].cost \in {0, timing[i].sql}

(* A report is under way only while the button is not free; an answer that *)
(* has a line has one only, and is not reported again, unless a reply was  *)
(* lost.                                                                   *)
HasLine(a) == \E i \in DOMAIN timing : timing[i].sql = a

OneReport ==
  \A a \in Answers :
    /\ OnPage(a) /\ card[1].button = "ready" => report[a].at = "none"
    /\ OnPage(a) /\ card[1].button = "sent" => HasLine(a)
    /\ report[a].at = "ok" => HasLine(a)
    /\ a \notin lost /\ HasLine(a) =>
         /\ report[a].at \in {"none", "ok"}
         /\ report[a].at = "none" /\ OnPage(a) => card[1].button = "sent"
    /\ a \notin lost =>
         \A i, j \in DOMAIN timing : timing[i].sql = a /\ timing[j].sql = a => i = j

(* The replies under way were asked for with the credentials in use, or    *)
(* with wrong ones that were dropped.                                      *)
PanelInv ==
  /\ \A l \in panel.loads : /\ l.reply = "stats" => l.sent = "right"
                            /\ l.reply = "401" => l.sent = "wrong"
  /\ ~panel.raced =>
       /\ \A l \in panel.loads :
            l.sent = panel.auth \/ (panel.auth = "none" /\ l.sent = "wrong")
       /\ panel.shown => panel.auth # "none"

ConsoleInv == Typed /\ OfShownAnswers /\ OneStatement /\ OneReport /\ PanelInv
-----------------------------------------------------------------------------
(* The two tabs share no state.                                            *)

LEMMA AuditFrame == AuditTab => UNCHANGED panel
BY DEF AuditTab, ShowAnswer, ClearPage, ToggleHelp, EnterTime, SubmitReport, RunSandbox,
   SettleForecast, SettleReport, SettleSandbox, LoseReportReply, PredictTime,
   ReceiveForecast, TimingReport, ReceiveReport, RunSql, ReceiveResult

LEMMA AdminFrame ==
  AdminTab => UNCHANGED << page, forecast, sandbox, report, timing, runs, mixed, lost >>
BY DEF AdminTab, Login, OpenAdminTab, Logout, AdminStats, ReceiveStats, FailToLoad

(* The card on the page, and what SetCard makes of it.                     *)
LEMMA CardOnPage ==
  ASSUME Typed, card # << >>
  PROVE  card[1] \in Card /\ card = << card[1] >>
BY DEF Typed

LEMMA SetCardIs ==
  ASSUME NEW c, SetCard(c)
  PROVE  /\ card = << >> => card' = << >>
         /\ card # << >> => card' = << c >> /\ card' # << >> /\ card'[1] = c
BY DEF SetCard

LEMMA InitIInv == ConsoleInit => ConsoleInv
<1> SUFFICES ASSUME ConsoleInit PROVE ConsoleInv
  OBVIOUS
<1>1. MaxAnswers \in Nat \ {0} /\ MaxRuns \in Nat
  BY ConsoleBounds
<1>2. Typed
  <2>1. NoReport \in Report /\ Idle \in SandboxRun
    BY <1>1 DEF NoReport, Report, Idle, SandboxRun, Statement, Own
  <2>2. timing \in Seq(Line)
    BY DEF ConsoleInit
  <2>3. panel \in Panel
    BY DEF ConsoleInit, Panel
  <2>4. /\ sandbox \in [Answers -> SandboxRun] /\ report \in [Answers -> Report]
        /\ forecast \in [Answers -> {"none", "asked", "forecast", "error", "failed", "settled"}]
    BY <2>1 DEF ConsoleInit
  <2>5. answers = 0 /\ runs = 0 /\ card = << >> /\ mixed \in BOOLEAN
    BY DEF ConsoleInit
  <2>6. 0 \in 0..MaxAnswers /\ 0 \in 0..MaxRuns
    BY <1>1
  <2>7. QED
    BY <2>2, <2>3, <2>4, <2>5, <2>6 DEF Typed
<1>3. OfShownAnswers
  BY <1>1 DEF ConsoleInit, OfShownAnswers, NoReport, Answers
<1>4. OneStatement
  BY DEF ConsoleInit, OneStatement, NoReport
<1>5. OneReport
  BY DEF ConsoleInit, OneReport, NoReport, OnPage, HasLine
<1>6. PanelInv
  BY DEF ConsoleInit, PanelInv
<1>7. QED
  BY <1>2, <1>3, <1>4, <1>5, <1>6 DEF ConsoleInv

-----------------------------------------------------------------------------
(* The records keep their ranges.                                          *)

LEMMA CardTyped ==
  ASSUME Typed, OfShownAnswers, AuditTab
  PROVE  card' = << >> \/ \E c \in Card : card' = << c >>
<1>1. MaxAnswers \in Nat \ {0} /\ answers \in 0..MaxAnswers
  BY ConsoleBounds DEF Typed
<1>2. ASSUME NEW c \in Card, card' = << c >>
      PROVE  card' = << >> \/ \E d \in Card : card' = << d >>
  BY <1>2
<1>3. CASE UNCHANGED card
  BY <1>3 DEF Typed
<1>4. CASE ShowAnswer
  <2>1. NewCard(answers + 1) \in Card
    BY <1>1, <1>4 DEF ShowAnswer, NewCard, Card, Answers, Statement, Own
  <2>2. QED
    BY <1>2, <1>4, <2>1 DEF ShowAnswer
<1>5. CASE ClearPage
  BY <1>5 DEF ClearPage
<1>6. ASSUME NEW c, SetCard(c), card # << >> => c \in Card
      PROVE  card' = << >> \/ \E d \in Card : card' = << d >>
  BY <1>6, SetCardIs
<1>7. ASSUME NEW a \in Answers, ReceiveForecast(a)
      PROVE  card' = << >> \/ \E d \in Card : card' = << d >>
  <2>1. CASE card # << >>
    <3>1. card[1] \in Card
      BY <2>1, CardOnPage
    <3>2. CostAfter(a) \in 0..MaxAnswers /\ a \in 0..MaxAnswers
      BY <1>1, <3>1 DEF CostAfter, Card, Answers
    <3>3. [card[1] EXCEPT !.cost = CostAfter(a), !.command = a,
                          !.bound = TRUE, !.open = card[1].help] \in Card
      BY <3>1, <3>2 DEF Card
    <3>4. QED
      BY <1>6, <1>7, <2>1, <3>3 DEF ReceiveForecast
  <2>2. QED
    BY <1>3, <1>7, <2>1 DEF ReceiveForecast
<1>8. CASE ToggleHelp
  <2>1. card[1] \in Card
    BY <1>8, CardOnPage DEF ToggleHelp
  <2>2. [card[1] EXCEPT !.help = ~@,
                        !.open = IF card[1].bound THEN ~card[1].help ELSE @] \in Card
    BY <2>1 DEF Card
  <2>3. QED
    BY <1>6, <1>8, <2>2 DEF ToggleHelp
<1>9. CASE EnterTime
  <2>1. card[1] \in Card
    BY <1>9, CardOnPage DEF EnterTime
  <2>2. [card[1] EXCEPT !.real = Shown(card[1])] \in Card
    BY <1>1, <2>1 DEF Card, Shown, Statement, Own, Answers
  <2>3. QED
    BY <1>6, <1>9, <2>2 DEF EnterTime
<1>10. CASE SubmitReport
  <2>1. card[1] \in Card
    BY <1>10, CardOnPage DEF SubmitReport
  <2>2. [card[1] EXCEPT !.button = "sending"] \in Card
    BY <2>1 DEF Card
  <2>3. QED
    BY <1>6, <1>10, <2>2 DEF SubmitReport
<1>11. ASSUME NEW a \in Answers, ReceiveReport(a)
       PROVE  card' = << >> \/ \E d \in Card : card' = << d >>
  <2>1. CASE OnPage(a)
    <3>1. card[1] \in Card
      BY <2>1, CardOnPage DEF OnPage
    <3>2. [card[1] EXCEPT !.button = ButtonAfter(report[a].at)] \in Card
      BY <3>1 DEF Card, ButtonAfter
    <3>3. QED
      BY <1>6, <1>11, <2>1, <3>2 DEF ReceiveReport
  <2>2. QED
    BY <1>3, <1>11, <2>1 DEF ReceiveReport
<1>12. ASSUME NEW a \in Answers, ReceiveResult(a)
       PROVE  card' = << >> \/ \E d \in Card : card' = << d >>
  <2>1. sandbox[a].of \in Statement
    BY DEF Typed, SandboxRun
  <2>2. card # << >> => [card[1] EXCEPT !.real = sandbox[a].of, !.help = TRUE,
                                         !.open = @ \/ ~card[1].help] \in Card
    BY <2>1, CardOnPage DEF Card
  <2>3. CASE sandbox[a].at = "timed"
    BY <1>6, <1>12, <2>2, <2>3 DEF ReceiveResult
  <2>4. QED
    BY <1>3, <1>12, <2>3 DEF ReceiveResult
<1>13. ASSUME NEW a \in Answers, PredictTime(a) \/ TimingReport(a) \/ LoseReportReply(a) \/ RunSql(a)
       PROVE  UNCHANGED card
  BY <1>13 DEF PredictTime, TimingReport, LoseReportReply, RunSql, page
<1>14. ASSUME NEW c, RunSandbox(c) PROVE UNCHANGED card
  BY <1>14 DEF RunSandbox, page
<1>15. QED
  BY <1>3, <1>4, <1>5, <1>7, <1>8, <1>9, <1>10, <1>11, <1>12, <1>13, <1>14
     DEF AuditTab, SettleForecast, SettleReport, SettleSandbox

LEMMA ReportTyped ==
  ASSUME Typed, OfShownAnswers, AuditTab
  PROVE  report' \in [Answers -> Report] /\ timing' \in Seq(Line)
<1>1. MaxAnswers \in Nat \ {0} /\ report \in [Answers -> Report] /\ timing \in Seq(Line)
  BY ConsoleBounds DEF Typed
<1>2. CASE UNCHANGED << report, timing >>
  BY <1>1, <1>2
<1>3. CASE SubmitReport
  <2> DEFINE r == [at |-> "asked", sql |-> card[1].sql, cost |-> card[1].cost,
                   real |-> card[1].real]
  <2>1. r \in Report
    BY <1>1, <1>3, CardOnPage DEF SubmitReport, Card, Report, Answers
  <2>2. report' = [report EXCEPT ![card[1].sql] = r] /\ UNCHANGED timing
    BY <1>3 DEF SubmitReport
  <2> HIDE DEF r
  <2>3. QED
    BY <1>1, <2>1, <2>2
<1>4. ASSUME NEW a \in Answers, TimingReport(a)
      PROVE  report' \in [Answers -> Report] /\ timing' \in Seq(Line)
  <2>1. report[a] \in Report /\ report[a].at = "asked"
    BY <1>1, <1>4 DEF TimingReport
  <2>2. [report[a] EXCEPT !.at = "ok"] \in Report /\ [report[a] EXCEPT !.at = "failed"] \in Report
    BY <2>1 DEF Report
  <2>3. report' \in [Answers -> Report]
    BY <1>1, <1>4, <2>2 DEF TimingReport
  <2>4. CASE UNCHANGED timing
    BY <1>1, <2>3, <2>4
  <2>5. CASE timing' = Append(timing, [sql |-> report[a].sql, cost |-> report[a].cost,
                                       real |-> report[a].real])
    <3>1. report[a].sql = a
      BY <2>1 DEF OfShownAnswers
    <3>2. QED
      BY <1>1, <2>1, <2>3, <2>5, <3>1 DEF Line, Report
  <2>6. QED
    BY <1>4, <2>4, <2>5 DEF TimingReport
<1>5. ASSUME NEW a \in Answers, LoseReportReply(a)
      PROVE  report' \in [Answers -> Report] /\ timing' \in Seq(Line)
  <2>1. [report[a] EXCEPT !.at = "failed"] \in Report
    BY <1>1 DEF Report
  <2>2. QED
    BY <1>1, <1>5, <2>1 DEF LoseReportReply
<1>6. ASSUME NEW a \in Answers, ReceiveReport(a)
      PROVE  report' \in [Answers -> Report] /\ timing' \in Seq(Line)
  <2>1. NoReport \in Report
    BY <1>1 DEF NoReport, Report, Statement, Own
  <2>2. QED
    BY <1>1, <1>6, <2>1 DEF ReceiveReport
<1>7. ASSUME NEW a \in Answers, SettleForecast(a) \/ SettleSandbox(a)
      PROVE  UNCHANGED << report, timing >>
  BY <1>7 DEF SettleForecast, SettleSandbox, PredictTime, ReceiveForecast, RunSql, ReceiveResult
<1>8. CASE ShowAnswer \/ ClearPage \/ ToggleHelp \/ EnterTime \/ \E c \in 1..Own : RunSandbox(c)
  BY <1>2, <1>8 DEF ShowAnswer, ClearPage, ToggleHelp, EnterTime, RunSandbox
<1>9. QED
  BY <1>2, <1>3, <1>4, <1>5, <1>6, <1>7, <1>8 DEF AuditTab, SettleReport

LEMMA AuditTyped ==
  ASSUME Typed, OfShownAnswers, AuditTab
  PROVE  Typed'
<1>1. card' = << >> \/ \E c \in Card : card' = << c >>
  BY CardTyped
<1>2. report' \in [Answers -> Report] /\ timing' \in Seq(Line) /\ UNCHANGED panel
  BY ReportTyped, AuditFrame
<1>3. /\ MaxAnswers \in Nat \ {0} /\ MaxRuns \in Nat
      /\ answers \in 0..MaxAnswers /\ runs \in 0..MaxRuns /\ mixed \in BOOLEAN
      /\ forecast \in [Answers -> {"none", "asked", "forecast", "error", "failed", "settled"}]
      /\ sandbox \in [Answers -> SandboxRun] /\ panel \in Panel
  BY ConsoleBounds DEF Typed
<1>4. answers' \in 0..MaxAnswers
  <2>1. UNCHANGED answers \/ (answers < MaxAnswers /\ answers' = answers + 1)
    BY Zenon DEF AuditTab, ShowAnswer, ClearPage, ToggleHelp, EnterTime, SubmitReport, RunSandbox,
       SettleForecast, SettleReport, SettleSandbox, LoseReportReply, PredictTime,
       ReceiveForecast, TimingReport, ReceiveReport, RunSql, ReceiveResult, page
  <2>2. QED
    BY <1>3, <2>1
<1>5. runs' \in 0..MaxRuns
  <2>1. UNCHANGED runs \/ (runs < MaxRuns /\ runs' = runs + 1)
    BY Zenon DEF AuditTab, ShowAnswer, ClearPage, ToggleHelp, EnterTime, SubmitReport, RunSandbox,
       SettleForecast, SettleReport, SettleSandbox, LoseReportReply, PredictTime,
       ReceiveForecast, TimingReport, ReceiveReport, RunSql, ReceiveResult
  <2>2. QED
    BY <1>3, <2>1
<1>6. mixed' \in BOOLEAN
  BY <1>3 DEF AuditTab, ShowAnswer, ClearPage, ToggleHelp, EnterTime, SubmitReport, RunSandbox,
     SettleForecast, SettleReport, SettleSandbox, LoseReportReply, PredictTime,
     ReceiveForecast, TimingReport, ReceiveReport, RunSql, ReceiveResult
<1>7. forecast' \in [Answers -> {"none", "asked", "forecast", "error", "failed", "settled"}]
  BY <1>3 DEF AuditTab, ShowAnswer, ClearPage, ToggleHelp, EnterTime, SubmitReport, RunSandbox,
     SettleForecast, SettleReport, SettleSandbox, LoseReportReply, PredictTime,
     ReceiveForecast, TimingReport, ReceiveReport, RunSql, ReceiveResult
<1>8. sandbox' \in [Answers -> SandboxRun]
  <2>1. CASE UNCHANGED sandbox
    BY <1>3, <2>1
  <2>2. ASSUME NEW c \in 1..Own, RunSandbox(c) PROVE sandbox' \in [Answers -> SandboxRun]
    <3>1. [at |-> "asked", of |-> c] \in SandboxRun
      BY <1>3 DEF SandboxRun, Statement, Own
    <3>2. QED
      BY <1>3, <2>2, <3>1 DEF RunSandbox
  <2>3. ASSUME NEW a \in Answers, RunSql(a) PROVE sandbox' \in [Answers -> SandboxRun]
    <3>1. \A outcome \in {"timed", "rows", "failed"} :
            [sandbox[a] EXCEPT !.at = outcome] \in SandboxRun
      BY <1>3 DEF SandboxRun
    <3>2. QED
      BY <1>3, <2>3, <3>1 DEF RunSql
  <2>4. ASSUME NEW a \in Answers, ReceiveResult(a) PROVE sandbox' \in [Answers -> SandboxRun]
    <3>1. Idle \in SandboxRun
      BY <1>3 DEF Idle, SandboxRun, Statement, Own
    <3>2. QED
      BY <1>3, <2>4, <3>1 DEF ReceiveResult, Enabled
  <2>5. CASE ShowAnswer \/ ClearPage \/ ToggleHelp \/ EnterTime \/ SubmitReport
    BY <2>1, <2>5 DEF ShowAnswer, ClearPage, ToggleHelp, EnterTime, SubmitReport
  <2>6. ASSUME NEW a \in Answers, SettleForecast(a) \/ SettleReport(a) \/ LoseReportReply(a)
        PROVE  UNCHANGED sandbox
    BY <2>6 DEF SettleForecast, SettleReport, LoseReportReply, PredictTime, ReceiveForecast,
       TimingReport, ReceiveReport
  <2>7. QED
    BY <2>1, <2>2, <2>3, <2>4, <2>5, <2>6 DEF AuditTab, SettleSandbox
<1>9. QED
  BY <1>1, <1>2, <1>3, <1>4, <1>5, <1>6, <1>7, <1>8 DEF Typed

LEMMA AdminTyped ==
  ASSUME Typed, AdminTab
  PROVE  panel' \in Panel
<1> DEFINE Loads == [sent : Credentials, reply : {"none", "stats", "401"}]
<1>1. /\ panel = [auth |-> panel.auth, shown |-> panel.shown, raced |-> panel.raced,
                  leave |-> panel.leave, loads |-> panel.loads]
      /\ panel.auth \in Credentials \cup {"none"} /\ panel.shown \in BOOLEAN
      /\ panel.raced \in BOOLEAN /\ panel.leave \in BOOLEAN /\ panel.loads \in SUBSET Loads
  BY DEF Typed, Panel
<1>2. ASSUME NEW c \in Credentials, Login(c) PROVE panel' \in Panel
  <2>1. [sent |-> c, reply |-> "none"] \in Loads
    OBVIOUS
  <2>2. panel' = [auth |-> c, shown |-> panel.shown,
                  raced |-> (panel.raced \/ panel.loads # {}), leave |-> panel.leave,
                  loads |-> panel.loads \cup {[sent |-> c, reply |-> "none"]}]
    BY <1>1, <1>2 DEF Login, Loading
  <2>3. QED
    BY <1>1, <2>1, <2>2 DEF Panel
<1>3. CASE OpenAdminTab
  <2>1. [sent |-> panel.auth, reply |-> "none"] \in Loads
    BY <1>1, <1>3 DEF OpenAdminTab
  <2>2. panel' = [panel EXCEPT !.loads = panel.loads \cup {[sent |-> panel.auth, reply |-> "none"]}]
    BY <1>3 DEF OpenAdminTab, Loading
  <2>3. QED
    BY <1>1, <2>1, <2>2 DEF Panel
<1>4. CASE Logout
  <2>1. panel' = [auth |-> "none", shown |-> FALSE,
                  raced |-> (panel.raced \/ panel.loads # {}), leave |-> FALSE,
                  loads |-> panel.loads]
    BY <1>1, <1>4 DEF Logout
  <2>2. QED
    BY <1>1, <2>1 DEF Panel
<1>5. ASSUME NEW l \in panel.loads, AdminStats(l) PROVE panel' \in Panel
  <2> DEFINE m == [l EXCEPT !.reply = IF l.sent = "right" THEN "stats" ELSE "401"]
  <2>1. m \in Loads
    BY <1>1
  <2>2. panel' = [panel EXCEPT !.loads = (panel.loads \ {l}) \cup {m}]
    BY <1>5 DEF AdminStats
  <2> HIDE DEF m
  <2>3. QED
    BY <1>1, <2>1, <2>2 DEF Panel
<1>6. ASSUME NEW l \in panel.loads, ReceiveStats(l) PROVE panel' \in Panel
  <2>1. \/ panel' = [auth |-> "none", shown |-> FALSE, raced |-> panel.raced,
                     leave |-> panel.leave, loads |-> panel.loads \ {l}]
        \/ panel' = [auth |-> panel.auth, shown |-> TRUE, raced |-> panel.raced,
                     leave |-> TRUE, loads |-> panel.loads \ {l}]
    BY <1>1, <1>6 DEF ReceiveStats, After401
  <2>2. panel.loads \ {l} \in SUBSET Loads
    BY <1>1
  <2>3. CASE panel' = [auth |-> "none", shown |-> FALSE, raced |-> panel.raced,
                       leave |-> panel.leave, loads |-> panel.loads \ {l}]
    BY <1>1, <2>2, <2>3 DEF Panel
  <2>4. CASE panel' = [auth |-> panel.auth, shown |-> TRUE, raced |-> panel.raced,
                       leave |-> TRUE, loads |-> panel.loads \ {l}]
    BY <1>1, <2>2, <2>4 DEF Panel
  <2>5. QED
    BY <2>1, <2>3, <2>4
<1>7. ASSUME NEW l \in panel.loads, FailToLoad(l) PROVE panel' \in Panel
  <2>1. panel' = [auth |-> panel.auth, shown |-> panel.shown, raced |-> panel.raced,
                  leave |-> panel.leave, loads |-> panel.loads \ {l}]
    BY <1>1, <1>7 DEF FailToLoad
  <2>2. QED
    BY <1>1, <2>1 DEF Panel
<1>8. QED
  BY <1>2, <1>3, <1>4, <1>5, <1>6, <1>7 DEF AdminTab

LEMMA StepTyped ==
  ASSUME Typed, OfShownAnswers, [ConsoleNext]_consoleVars
  PROVE  Typed'
<1>1. CASE AuditTab
  BY <1>1, AuditTyped
<1>2. CASE AdminTab
  BY <1>2, AdminTyped, AdminFrame DEF Typed, page
<1>3. CASE UNCHANGED consoleVars
  BY <1>3 DEF consoleVars, page, Typed
<1>4. QED
  BY <1>1, <1>2, <1>3 DEF ConsoleNext
-----------------------------------------------------------------------------
(* What a step of the user or a reply makes of the card, field by field.   *)

LEMMA ForecastOnCard ==
  ASSUME Typed, NEW a \in Answers, ReceiveForecast(a), card # << >>
  PROVE  /\ card' # << >> /\ card'[1].sql = card[1].sql /\ card'[1].real = card[1].real
         /\ card'[1].cost \in {card[1].cost, a} /\ card'[1].command = a
         /\ card'[1].button = card[1].button
<1> DEFINE c == [card[1] EXCEPT !.cost = CostAfter(a), !.command = a,
                                !.bound = TRUE, !.open = card[1].help]
<1>1. card[1] \in Card
  BY CardOnPage
<1>2. card' # << >> /\ card'[1] = c
  BY SetCardIs DEF ReceiveForecast
<1>3. CostAfter(a) \in {card[1].cost, a}
  BY DEF CostAfter
<1>4. QED
  BY <1>1, <1>2, <1>3 DEF Card

LEMMA HelpOnCard ==
  ASSUME Typed, ToggleHelp
  PROVE  /\ card # << >> /\ card' # << >>
         /\ card'[1].sql = card[1].sql /\ card'[1].real = card[1].real
         /\ card'[1].cost = card[1].cost /\ card'[1].command = card[1].command
         /\ card'[1].bound = card[1].bound /\ card'[1].button = card[1].button
<1>1. card[1] \in Card /\ card # << >>
  BY CardOnPage DEF ToggleHelp
<1>2. /\ card' # << >>
      /\ card'[1] = [card[1] EXCEPT !.help = ~@,
                       !.open = IF card[1].bound THEN ~card[1].help ELSE @]
  BY <1>1, SetCardIs DEF ToggleHelp
<1>3. QED
  BY <1>1, <1>2 DEF Card

LEMMA TimeOnCard ==
  ASSUME Typed, EnterTime
  PROVE  /\ card # << >> /\ card' # << >>
         /\ card'[1].sql = card[1].sql /\ card'[1].real = Shown(card[1])
         /\ card'[1].cost = card[1].cost /\ card'[1].command = card[1].command
         /\ card'[1].bound = card[1].bound /\ card'[1].button = card[1].button
<1>1. card[1] \in Card /\ card # << >>
  BY CardOnPage DEF EnterTime
<1>2. card' # << >> /\ card'[1] = [card[1] EXCEPT !.real = Shown(card[1])]
  BY <1>1, SetCardIs DEF EnterTime
<1>3. QED
  BY <1>1, <1>2 DEF Card

LEMMA SubmitOnCard ==
  ASSUME Typed, SubmitReport
  PROVE  /\ card # << >> /\ card' # << >>
         /\ card'[1].sql = card[1].sql /\ card'[1].real = card[1].real
         /\ card'[1].cost = card[1].cost /\ card'[1].command = card[1].command
         /\ card'[1].bound = card[1].bound /\ card'[1].button = "sending"
<1>1. card[1] \in Card /\ card # << >>
  BY CardOnPage DEF SubmitReport
<1>2. card' # << >> /\ card'[1] = [card[1] EXCEPT !.button = "sending"]
  BY <1>1, SetCardIs DEF SubmitReport
<1>3. QED
  BY <1>1, <1>2 DEF Card

LEMMA ReportOnCard ==
  ASSUME Typed, NEW a \in Answers, ReceiveReport(a), card # << >>
  PROVE  /\ card' # << >> /\ card'[1].sql = card[1].sql /\ card'[1].real = card[1].real
         /\ card'[1].cost = card[1].cost /\ card'[1].command = card[1].command
         /\ card'[1].bound = card[1].bound
         /\ card'[1].button = IF card[1].sql = a THEN ButtonAfter(report[a].at)
                                                 ELSE card[1].button
<1>1. card[1] \in Card
  BY CardOnPage
<1>2. CASE OnPage(a)
  <2>1. card' # << >> /\ card'[1] = [card[1] EXCEPT !.button = ButtonAfter(report[a].at)]
    BY <1>2, SetCardIs DEF ReceiveReport
  <2>2. QED
    BY <1>1, <1>2, <2>1 DEF Card, OnPage
<1>3. CASE ~OnPage(a)
  BY <1>3 DEF ReceiveReport, OnPage
<1>4. QED
  BY <1>2, <1>3

LEMMA ResultOnCard ==
  ASSUME Typed, NEW a \in Answers, ReceiveResult(a), card # << >>
  PROVE  /\ card' # << >> /\ card'[1].sql = card[1].sql
         /\ card'[1].cost = card[1].cost /\ card'[1].command = card[1].command
         /\ card'[1].bound = card[1].bound /\ card'[1].button = card[1].button
         /\ card'[1].real = card[1].real \/ (~mixed' => card'[1].real = card[1].sql)
<1>1. card[1] \in Card
  BY CardOnPage
<1>2. CASE sandbox[a].at = "timed"
  <2>1. /\ card' # << >>
        /\ card'[1] = [card[1] EXCEPT !.real = sandbox[a].of, !.help = TRUE,
                         !.open = @ \/ ~card[1].help]
        /\ ~mixed' => card[1].sql = sandbox[a].of
    BY <1>2, SetCardIs DEF ReceiveResult
  <2>2. QED
    BY <1>1, <2>1 DEF Card
<1>3. CASE sandbox[a].at # "timed"
  BY <1>3 DEF ReceiveResult
<1>4. QED
  BY <1>2, <1>3

LEMMA AnswerOnCard ==
  ASSUME ShowAnswer
  PROVE  /\ answers' = answers + 1 /\ answers < MaxAnswers /\ card' # << >>
         /\ card'[1].sql = answers + 1 /\ card'[1].real = 0
         /\ card'[1].cost = 0 /\ card'[1].command = 0
         /\ card'[1].bound = FALSE /\ card'[1].button = "ready"
<1>1. card' = << NewCard(answers + 1) >> /\ answers' = answers + 1 /\ answers < MaxAnswers
  BY DEF ShowAnswer
<1>2. card' # << >> /\ card'[1] = NewCard(answers + 1)
  BY <1>1
<1>3. QED
  BY <1>1, <1>2 DEF NewCard

-----------------------------------------------------------------------------
(* Nothing is about an answer that was not shown.                          *)

LEMMA StepShown ==
  ASSUME Typed, OfShownAnswers, AuditTab
  PROVE  OfShownAnswers'
<1>1. /\ MaxAnswers \in Nat \ {0} /\ answers \in 0..MaxAnswers
      /\ card # << >> => /\ card[1].sql \in 1..answers
                         /\ card[1].cost \in 0..answers /\ card[1].command \in 0..answers
      /\ \A a \in Answers : (forecast[a] = "none") = (a > answers)
      /\ \A a \in Answers : report[a].at # "none" => a \in 1..answers /\ report[a].sql = a
      /\ \A i \in DOMAIN timing : timing[i].sql \in 1..answers
  BY ConsoleBounds DEF Typed, OfShownAnswers
<1>2. /\ forecast = [a \in Answers |-> forecast[a]]
      /\ report = [a \in Answers |-> report[a]] /\ \A a \in Answers : report[a] \in Report
      /\ timing \in Seq(Line)
  BY DEF Typed
<1>3. CASE ShowAnswer
  <2>1. UNCHANGED << report, timing >> /\ forecast' = [forecast EXCEPT ![answers + 1] = "asked"]
    BY <1>3 DEF ShowAnswer
  <2>2. answers' = answers + 1 /\ answers + 1 \in Answers
    BY <1>1, <1>3 DEF ShowAnswer, Answers
  <2>3. \A a \in Answers : (forecast'[a] = "none") = (a > answers')
    <3>1. ASSUME NEW a \in Answers PROVE (forecast'[a] = "none") = (a > answers')
      <4>1. CASE a = answers + 1
        <5>1. forecast'[a] = "asked"
          BY <1>2, <2>1, <2>2, <4>1
        <5>2. ~(a > answers')
          BY <1>1, <2>2, <4>1
        <5>3. QED
          BY <5>1, <5>2
      <4>2. CASE a # answers + 1
        <5>1. forecast'[a] = forecast[a]
          BY <1>2, <2>1, <4>2
        <5>2. (a > answers') <=> (a > answers)
          BY <1>1, <2>2, <4>2 DEF Answers
        <5>3. (forecast[a] = "none") = (a > answers)
          BY <1>1
        <5>4. QED
          BY <5>1, <5>2, <5>3
      <4>3. QED
        BY <4>1, <4>2
    <3>2. QED
      BY <3>1
  <2>4. /\ card' # << >> /\ card'[1].sql = answers + 1
        /\ card'[1].cost = 0 /\ card'[1].command = 0
    BY <1>3, AnswerOnCard
  <2>5. QED
    BY <1>1, <2>1, <2>2, <2>3, <2>4 DEF OfShownAnswers
<1>4. ASSUME UNCHANGED << answers, forecast, report, timing >>,
             card # << >> => /\ card'[1].sql = card[1].sql /\ card'[1].cost = card[1].cost
                             /\ card'[1].command = card[1].command,
             card = << >> => card' = << >>
      PROVE  OfShownAnswers'
  BY <1>1, <1>4 DEF OfShownAnswers
<1>5. CASE ClearPage
  BY <1>1, <1>5 DEF ClearPage, OfShownAnswers
<1>6. CASE ToggleHelp
  BY <1>4, <1>6, HelpOnCard DEF ToggleHelp
<1>7. CASE EnterTime
  BY <1>4, <1>7, TimeOnCard DEF EnterTime
<1>8. CASE SubmitReport
  <2> DEFINE r == [at |-> "asked", sql |-> card[1].sql, cost |-> card[1].cost,
                   real |-> card[1].real]
  <2>1. report' = [report EXCEPT ![card[1].sql] = r] /\ UNCHANGED << answers, forecast, timing >>
    BY <1>8 DEF SubmitReport
  <2>2. card[1].sql \in 1..answers /\ r.sql = card[1].sql
    BY <1>1, <1>8 DEF SubmitReport
  <2> HIDE DEF r
  <2>3. \A a \in Answers : report'[a].at # "none" => a \in 1..answers /\ report'[a].sql = a
    BY <1>1, <1>2, <2>1, <2>2
  <2>4. QED
    BY <1>1, <1>8, <2>1, <2>3, SubmitOnCard DEF OfShownAnswers
<1>9. ASSUME NEW a \in Answers, ReceiveForecast(a) PROVE OfShownAnswers'
  <2>1. UNCHANGED << answers, report, timing >> /\ forecast' = [forecast EXCEPT ![a] = "settled"]
    BY <1>9 DEF ReceiveForecast
  <2>2. a \in 1..answers /\ forecast[a] # "none"
    BY <1>1, <1>9 DEF ReceiveForecast, Answers
  <2>3. \A b \in Answers : (forecast'[b] = "none") = (b > answers')
    BY <1>1, <1>2, <2>1, <2>2
  <2>4. card = << >> => card' = << >>
    BY <1>9 DEF ReceiveForecast
  <2>5. card # << >> => /\ card'[1].sql = card[1].sql
                        /\ card'[1].cost \in 0..answers /\ card'[1].command \in 0..answers
    BY <1>1, <1>9, <2>2, ForecastOnCard
  <2>6. QED
    BY <1>1, <2>1, <2>3, <2>4, <2>5 DEF OfShownAnswers
<1>10. ASSUME NEW a \in Answers, PredictTime(a) PROVE OfShownAnswers'
  <2>1. PICK outcome \in {"forecast", "error", "failed"} :
          forecast' = [forecast EXCEPT ![a] = outcome]
    BY <1>10 DEF PredictTime
  <2>2. UNCHANGED << answers, card, report, timing >> /\ forecast[a] # "none"
    BY <1>10 DEF PredictTime, page
  <2>3. \A b \in Answers : (forecast'[b] = "none") = (b > answers')
    BY <1>1, <1>2, <2>1, <2>2
  <2>4. QED
    BY <1>1, <2>2, <2>3 DEF OfShownAnswers
<1>11. ASSUME NEW a \in Answers, TimingReport(a) PROVE OfShownAnswers'
  <2>1. UNCHANGED << answers, card, forecast >> /\ report[a].at = "asked"
    BY <1>11 DEF TimingReport, page
  <2>2. PICK at \in {"ok", "failed"} : report' = [report EXCEPT ![a].at = at]
    BY <1>11 DEF TimingReport
  <2>3. report[a] \in Report /\ a \in 1..answers /\ report[a].sql = a
    BY <1>1, <1>2, <2>1
  <2>4. \A b \in Answers : report'[b].at # "none" => b \in 1..answers /\ report'[b].sql = b
    BY <1>1, <1>2, <2>2, <2>3 DEF Report
  <2>5. \A i \in DOMAIN timing' : timing'[i].sql \in 1..answers
    <3>1. CASE UNCHANGED timing
      BY <1>1, <3>1
    <3>2. CASE timing' = Append(timing, [sql |-> report[a].sql, cost |-> report[a].cost,
                                         real |-> report[a].real])
      BY <1>1, <1>2, <2>3, <3>2
    <3>3. QED
      BY <1>11, <3>1, <3>2 DEF TimingReport
  <2>6. QED
    BY <1>1, <2>1, <2>4, <2>5 DEF OfShownAnswers
<1>12. ASSUME NEW a \in Answers, LoseReportReply(a) PROVE OfShownAnswers'
  <2>1. UNCHANGED << answers, card, forecast, timing >> /\ report[a].at = "ok"
        /\ report' = [report EXCEPT ![a].at = "failed"]
    BY <1>12 DEF LoseReportReply, page
  <2>2. \A b \in Answers : report'[b].at # "none" => b \in 1..answers /\ report'[b].sql = b
    BY <1>1, <1>2, <2>1 DEF Report
  <2>3. QED
    BY <1>1, <2>1, <2>2 DEF OfShownAnswers
<1>13. ASSUME NEW a \in Answers, ReceiveReport(a) PROVE OfShownAnswers'
  <2>1. UNCHANGED << answers, forecast, timing >> /\ report' = [report EXCEPT ![a] = NoReport]
    BY <1>13 DEF ReceiveReport
  <2>2. \A b \in Answers : report'[b].at # "none" => b \in 1..answers /\ report'[b].sql = b
    BY <1>1, <1>2, <2>1 DEF NoReport
  <2>3. card = << >> => card' = << >>
    BY <1>13 DEF ReceiveReport, OnPage
  <2>4. QED
    BY <1>1, <1>13, <2>1, <2>2, <2>3, ReportOnCard DEF OfShownAnswers
<1>14. ASSUME NEW a \in Answers, ReceiveResult(a) PROVE OfShownAnswers'
  <2>1. card = << >> => card' = << >>
    BY <1>14, SetCardIs DEF ReceiveResult
  <2>2. UNCHANGED << answers, forecast, report, timing >>
    BY <1>14 DEF ReceiveResult
  <2>3. QED
    BY <1>4, <1>14, <2>1, <2>2, ResultOnCard
<1>15. ASSUME NEW c, RunSandbox(c) \/ (c \in Answers /\ RunSql(c)) PROVE OfShownAnswers'
  <2>1. UNCHANGED << answers, card, forecast, report, timing >>
    BY <1>15 DEF RunSandbox, RunSql, page
  <2>2. QED
    BY <1>4, <2>1
<1>16. QED
  BY <1>3, <1>5, <1>6, <1>7, <1>8, <1>9, <1>10, <1>11, <1>12, <1>13, <1>14, <1>15
     DEF AuditTab, SettleForecast, SettleReport, SettleSandbox
-----------------------------------------------------------------------------
(* A card and its report tell of one statement.                            *)

(* The three parts of OneStatement.                                        *)
CardIsOfOne ==
  card # << >> => /\ {card[1].cost, card[1].command, card[1].real} \subseteq {0, card[1].sql}
                  /\ card[1].bound => card[1].command = card[1].sql
ReportsAreOfOne ==
  \A a \in Answers : report[a].at # "none" =>
    report[a].real = report[a].sql /\ report[a].cost \in {0, report[a].sql}
LinesAreOfOne ==
  \A i \in DOMAIN timing : /\ timing[i].real = timing[i].sql
                           /\ timing[i].cost \in {0, timing[i].sql}

LEMMA StepStatement ==
  ASSUME Typed, OfShownAnswers, OneStatement, AuditTab
  PROVE  OneStatement'
<1> SUFFICES ASSUME ~mixed' PROVE CardIsOfOne' /\ ReportsAreOfOne' /\ LinesAreOfOne'
  BY DEF OneStatement, CardIsOfOne, ReportsAreOfOne, LinesAreOfOne
<1>1. ~mixed
  BY DEF AuditTab, ShowAnswer, ClearPage, ToggleHelp, EnterTime, SubmitReport, RunSandbox,
     SettleForecast, SettleReport, SettleSandbox, LoseReportReply, PredictTime,
     ReceiveForecast, TimingReport, ReceiveReport, RunSql, ReceiveResult
<1>2. CardIsOfOne /\ ReportsAreOfOne /\ LinesAreOfOne
  BY <1>1 DEF OneStatement, CardIsOfOne, ReportsAreOfOne, LinesAreOfOne
<1>3. /\ report = [a \in Answers |-> report[a]] /\ \A a \in Answers : report[a] \in Report
      /\ timing \in Seq(Line)
  BY DEF Typed
<1>4. CASE ShowAnswer
  BY <1>2, <1>4, AnswerOnCard DEF ShowAnswer, CardIsOfOne, ReportsAreOfOne, LinesAreOfOne
<1>5. CASE ClearPage
  BY <1>2, <1>5 DEF ClearPage, CardIsOfOne, ReportsAreOfOne, LinesAreOfOne
<1>6. CASE ToggleHelp
  <2>1. UNCHANGED << report, timing >>
    BY <1>6 DEF ToggleHelp
  <2>2. CardIsOfOne'
    BY <1>2, <1>6, HelpOnCard DEF CardIsOfOne
  <2>3. QED
    BY <1>2, <2>1, <2>2 DEF ReportsAreOfOne, LinesAreOfOne
<1>7. CASE EnterTime
  <2>1. UNCHANGED << report, timing >>
    BY <1>7 DEF EnterTime
  <2>2. CardIsOfOne'
    BY <1>2, <1>7, TimeOnCard DEF CardIsOfOne, Shown
  <2>3. QED
    BY <1>2, <2>1, <2>2 DEF ReportsAreOfOne, LinesAreOfOne
<1>8. CASE SubmitReport
  <2> DEFINE r == [at |-> "asked", sql |-> card[1].sql, cost |-> card[1].cost,
                   real |-> card[1].real]
  <2>1. report' = [report EXCEPT ![card[1].sql] = r] /\ UNCHANGED timing
    BY <1>8 DEF SubmitReport
  <2>2. card[1].real # 0 /\ card # << >>
    BY <1>8 DEF SubmitReport
  <2>3. r.real = r.sql /\ r.cost \in {0, r.sql}
    BY <1>2, <2>2 DEF CardIsOfOne
  <2> HIDE DEF r
  <2>4. ReportsAreOfOne'
    BY <1>2, <1>3, <2>1, <2>3 DEF ReportsAreOfOne
  <2>5. CardIsOfOne'
    BY <1>2, <1>8, SubmitOnCard DEF CardIsOfOne
  <2>6. QED
    BY <1>2, <2>1, <2>4, <2>5 DEF LinesAreOfOne
<1>9. ASSUME NEW a \in Answers, ReceiveForecast(a)
      PROVE  CardIsOfOne' /\ ReportsAreOfOne' /\ LinesAreOfOne'
  <2>1. UNCHANGED << report, timing >>
    BY <1>9 DEF ReceiveForecast
  <2>2. card = << >> => card' = << >>
    BY <1>9 DEF ReceiveForecast
  <2>3. card # << >> => card[1].sql = a
    BY <1>9 DEF ReceiveForecast, OnPage
  <2>4. CardIsOfOne'
    BY <1>2, <1>9, <2>2, <2>3, ForecastOnCard DEF CardIsOfOne
  <2>5. QED
    BY <1>2, <2>1, <2>4 DEF ReportsAreOfOne, LinesAreOfOne
<1>10. ASSUME NEW a \in Answers, TimingReport(a)
       PROVE  CardIsOfOne' /\ ReportsAreOfOne' /\ LinesAreOfOne'
  <2>1. UNCHANGED card /\ report[a].at = "asked"
    BY <1>10 DEF TimingReport, page
  <2>2. PICK at \in {"ok", "failed"} : report' = [report EXCEPT ![a].at = at]
    BY <1>10 DEF TimingReport
  <2>3. /\ report[a] \in Report /\ report[a].real = report[a].sql
        /\ report[a].cost \in {0, report[a].sql}
    BY <1>2, <1>3, <2>1 DEF ReportsAreOfOne
  <2>4. ReportsAreOfOne'
    BY <1>2, <1>3, <2>2, <2>3 DEF ReportsAreOfOne, Report
  <2>5. LinesAreOfOne'
    <3>1. CASE UNCHANGED timing
      BY <1>2, <3>1 DEF LinesAreOfOne
    <3>2. CASE timing' = Append(timing, [sql |-> report[a].sql, cost |-> report[a].cost,
                                         real |-> report[a].real])
      BY <1>2, <1>3, <2>3, <3>2 DEF LinesAreOfOne
    <3>3. QED
      BY <1>10, <3>1, <3>2 DEF TimingReport
  <2>6. QED
    BY <1>2, <2>1, <2>4, <2>5 DEF CardIsOfOne
<1>11. ASSUME NEW a \in Answers, LoseReportReply(a)
       PROVE  CardIsOfOne' /\ ReportsAreOfOne' /\ LinesAreOfOne'
  <2>1. UNCHANGED << card, timing >> /\ report[a].at = "ok"
        /\ report' = [report EXCEPT ![a].at = "failed"]
    BY <1>11 DEF LoseReportReply, page
  <2>2. ReportsAreOfOne'
    BY <1>2, <1>3, <2>1 DEF ReportsAreOfOne, Report
  <2>3. QED
    BY <1>2, <2>1, <2>2 DEF CardIsOfOne, LinesAreOfOne
<1>12. ASSUME NEW a \in Answers, ReceiveReport(a)
       PROVE  CardIsOfOne' /\ ReportsAreOfOne' /\ LinesAreOfOne'
  <2>1. UNCHANGED timing /\ report' = [report EXCEPT ![a] = NoReport]
    BY <1>12 DEF ReceiveReport
  <2>2. ReportsAreOfOne'
    BY <1>2, <1>3, <2>1 DEF ReportsAreOfOne, NoReport
  <2>3. card = << >> => card' = << >>
    BY <1>12 DEF ReceiveReport, OnPage
  <2>4. CardIsOfOne'
    BY <1>2, <1>12, <2>3, ReportOnCard DEF CardIsOfOne
  <2>5. QED
    BY <1>2, <2>1, <2>2, <2>4 DEF LinesAreOfOne
<1>13. ASSUME NEW a \in Answers, ReceiveResult(a)
       PROVE  CardIsOfOne' /\ ReportsAreOfOne' /\ LinesAreOfOne'
  <2>1. card = << >> => card' = << >>
    BY <1>13, SetCardIs DEF ReceiveResult
  <2>2. UNCHANGED << report, timing >>
    BY <1>13 DEF ReceiveResult
  <2>3. CardIsOfOne'
    BY <1>2, <1>13, <2>1, ResultOnCard DEF CardIsOfOne
  <2>4. QED
    BY <1>2, <2>2, <2>3 DEF ReportsAreOfOne, LinesAreOfOne
<1>14. ASSUME NEW c, RunSandbox(c) \/ (c \in Answers /\ (RunSql(c) \/ PredictTime(c)))
       PROVE  CardIsOfOne' /\ ReportsAreOfOne' /\ LinesAreOfOne'
  <2>1. UNCHANGED << card, report, timing >>
    BY <1>14 DEF RunSandbox, RunSql, PredictTime, page
  <2>2. QED
    BY <1>2, <2>1 DEF CardIsOfOne, ReportsAreOfOne, LinesAreOfOne
<1>15. QED
  BY <1>4, <1>5, <1>6, <1>7, <1>8, <1>9, <1>10, <1>11, <1>12, <1>13, <1>14
     DEF AuditTab, SettleForecast, SettleReport, SettleSandbox

-----------------------------------------------------------------------------
(* A report is kept once.                                                  *)

(* OneReport, for one answer.                                              *)
Once(a) ==
  /\ OnPage(a) /\ card[1].button = "ready" => report[a].at = "none"
  /\ OnPage(a) /\ card[1].button = "sent" => HasLine(a)
  /\ report[a].at = "ok" => HasLine(a)
  /\ a \notin lost /\ HasLine(a) =>
       /\ report[a].at \in {"none", "ok"}
       /\ report[a].at = "none" /\ OnPage(a) => card[1].button = "sent"
  /\ a \notin lost =>
       \A i, j \in DOMAIN timing : timing[i].sql = a /\ timing[j].sql = a => i = j

LEMMA StepReport ==
  ASSUME Typed, OfShownAnswers, OneReport, AuditTab
  PROVE  OneReport'
<1> SUFFICES ASSUME NEW a \in Answers PROVE Once(a)'
  BY DEF OneReport, Once
<1>1. Once(a)
  BY DEF OneReport, Once
<1>2. /\ report = [b \in Answers |-> report[b]] /\ \A b \in Answers : report[b] \in Report
      /\ timing \in Seq(Line)
  BY DEF Typed
<1>3. ASSUME UNCHANGED << timing, lost >>, report'[a] = report[a],
             card' # << >> => card # << >> /\ card'[1].sql = card[1].sql
                              /\ card'[1].button = card[1].button
      PROVE  Once(a)'
  BY <1>1, <1>3 DEF Once, OnPage, HasLine
<1>4. CASE ShowAnswer
  <2>1. UNCHANGED << timing, report, lost >>
    BY <1>4 DEF ShowAnswer
  <2>2. card' # << >> /\ card'[1].sql = answers + 1 /\ card'[1].button = "ready"
    BY <1>4, AnswerOnCard
  <2>3. CASE a = answers + 1
    <3>1. a \notin 1..answers
      BY <2>3 DEF Typed
    <3>2. ~HasLine(a) /\ report[a].at = "none"
      BY <3>1 DEF OfShownAnswers, HasLine
    <3>3. \A i, j \in DOMAIN timing : timing[i].sql = a /\ timing[j].sql = a => i = j
      BY <3>2 DEF HasLine
    <3>4. ~HasLine(a)' /\ report'[a].at = "none"
      BY <2>1, <3>2 DEF HasLine
    <3>5. QED
      BY <2>1, <2>2, <3>3, <3>4 DEF Once, OnPage
  <2>4. CASE a # answers + 1
    BY <1>1, <2>1, <2>2, <2>4 DEF Once, OnPage, HasLine
  <2>5. QED
    BY <2>3, <2>4
<1>5. CASE ClearPage
  BY <1>3, <1>5 DEF ClearPage
<1>6. CASE ToggleHelp
  BY <1>3, <1>6, HelpOnCard DEF ToggleHelp
<1>7. CASE EnterTime
  BY <1>3, <1>7, TimeOnCard DEF EnterTime
<1>8. CASE SubmitReport
  <2> DEFINE r == [at |-> "asked", sql |-> card[1].sql, cost |-> card[1].cost,
                   real |-> card[1].real]
  <2>1. report' = [report EXCEPT ![card[1].sql] = r] /\ UNCHANGED << timing, lost >>
    BY <1>8 DEF SubmitReport
  <2>2. card # << >> /\ card[1].button = "ready" /\ r.at = "asked"
    BY <1>8 DEF SubmitReport, ButtonFree
  <2>3. card' # << >> /\ card'[1].sql = card[1].sql /\ card'[1].button = "sending"
    BY <1>8, SubmitOnCard
  <2> HIDE DEF r
  <2>4. CASE a = card[1].sql
    <3>1. OnPage(a) /\ report[a].at = "none" /\ report'[a].at = "asked"
      BY <1>1, <1>2, <2>1, <2>2, <2>4 DEF OnPage, Once
    <3>2. a \notin lost => ~HasLine(a)
      BY <1>1, <2>2, <3>1 DEF Once
    <3>3. QED
      BY <1>1, <2>1, <2>3, <3>1, <3>2 DEF Once, OnPage, HasLine
  <2>5. CASE a # card[1].sql
    <3>1. report'[a] = report[a]
      BY <1>2, <2>1, <2>5
    <3>2. ~OnPage(a) /\ ~OnPage(a)'
      BY <2>3, <2>5 DEF OnPage
    <3>3. QED
      BY <1>1, <2>1, <3>1, <3>2 DEF Once, HasLine
  <2>6. QED
    BY <2>4, <2>5
<1>9. ASSUME NEW b \in Answers, TimingReport(b) PROVE Once(a)'
  <2>1. UNCHANGED << card, lost >> /\ report[b].at = "asked" /\ report[b] \in Report
    BY <1>2, <1>9 DEF TimingReport, page
  <2>2. report[b].sql = b
    BY <2>1 DEF OfShownAnswers
  <2>3. CASE UNCHANGED timing /\ report' = [report EXCEPT ![b].at = "failed"]
    <3>1. CASE a = b
      <4>1. report'[a].at = "failed"
        BY <1>2, <2>1, <2>3, <3>1 DEF Report
      <4>2. a \notin lost => ~HasLine(a)
        BY <1>1, <2>1, <3>1 DEF Once
      <4>3. ~(OnPage(a) /\ card[1].button = "ready")
        BY <1>1, <2>1, <3>1 DEF Once
      <4>4. QED
        BY <1>1, <2>1, <2>3, <4>1, <4>2, <4>3 DEF Once, OnPage, HasLine
    <3>2. CASE a # b
      BY <1>2, <1>3, <2>1, <2>3, <3>2
    <3>3. QED
      BY <3>1, <3>2
  <2>4. CASE /\ report' = [report EXCEPT ![b].at = "ok"]
             /\ timing' = Append(timing, [sql |-> report[b].sql, cost |-> report[b].cost,
                                          real |-> report[b].real])
    <3> DEFINE n == Len(timing)
    <3>1. /\ n \in Nat /\ DOMAIN timing = 1..n /\ DOMAIN timing' = 1..(n + 1)
          /\ \A i \in 1..n : timing'[i] = timing[i]
          /\ timing'[n + 1].sql = b
      BY <1>2, <2>2, <2>4
    <3> HIDE DEF n
    <3>2. CASE a = b
      <4>1. report'[a].at = "ok"
        BY <1>2, <2>1, <2>4, <3>2 DEF Report
      <4>2. HasLine(a)'
        BY <3>1, <3>2 DEF HasLine
      <4>3. ~(OnPage(a) /\ card[1].button = "ready")
        BY <1>1, <2>1, <3>2 DEF Once
      <4>4. a \notin lost => \A i \in 1..n : timing[i].sql # a
        BY <1>1, <2>1, <3>1, <3>2 DEF Once, HasLine
      <4>5. a \notin lost =>
              \A i, j \in DOMAIN timing' : timing'[i].sql = a /\ timing'[j].sql = a => i = j
        BY <3>1, <4>4
      <4>6. QED
        BY <2>1, <4>1, <4>2, <4>3, <4>5 DEF Once, OnPage
    <3>3. CASE a # b
      <4>1. report'[a] = report[a]
        BY <1>2, <2>4, <3>3
      <4>2. HasLine(a)' <=> HasLine(a)
        BY <3>1, <3>3 DEF HasLine
      <4>3. (\A i, j \in DOMAIN timing : timing[i].sql = a /\ timing[j].sql = a => i = j)
            => (\A i, j \in DOMAIN timing' : timing'[i].sql = a /\ timing'[j].sql = a => i = j)
        BY <3>1, <3>3
      <4>4. QED
        BY <1>1, <2>1, <4>1, <4>2, <4>3 DEF Once, OnPage
    <3>4. QED
      BY <3>2, <3>3
  <2>5. QED
    BY <1>9, <2>3, <2>4 DEF TimingReport
<1>10. ASSUME NEW b \in Answers, LoseReportReply(b) PROVE Once(a)'
  <2>1. UNCHANGED << card, timing >> /\ report[b].at = "ok" /\ report[b] \in Report
        /\ report' = [report EXCEPT ![b].at = "failed"] /\ lost' = lost \cup {b}
    BY <1>2, <1>10 DEF LoseReportReply, page
  <2>2. CASE a = b
    <3>1. report'[a].at = "failed" /\ a \in lost'
      BY <1>2, <2>1, <2>2 DEF Report
    <3>2. QED
      BY <1>1, <2>1, <2>2, <3>1 DEF Once, OnPage, HasLine
  <2>3. CASE a # b
    <3>1. report'[a] = report[a] /\ (a \in lost' <=> a \in lost)
      BY <1>2, <2>1, <2>3
    <3>2. QED
      BY <1>1, <2>1, <3>1 DEF Once, OnPage, HasLine
  <2>4. QED
    BY <2>2, <2>3
<1>11. ASSUME NEW b \in Answers, ReceiveReport(b) PROVE Once(a)'
  <2>1. UNCHANGED << timing, lost >> /\ report' = [report EXCEPT ![b] = NoReport]
        /\ report[b].at \in {"ok", "failed"}
    BY <1>11 DEF ReceiveReport
  <2>2. card = << >> => card' = << >>
    BY <1>11 DEF ReceiveReport, OnPage
  <2>3. CASE a = b
    <3>1. report'[a].at = "none"
      BY <1>2, <2>1, <2>3 DEF NoReport
    <3>2. /\ OnPage(a)' <=> OnPage(a)
          /\ OnPage(a) => card'[1].button = ButtonAfter(report[a].at)
      BY <1>11, <2>2, <2>3, ReportOnCard DEF OnPage
    <3>3. CASE report[a].at = "ok"
      <4>1. HasLine(a) /\ (HasLine(a)' <=> HasLine(a))
        BY <1>1, <2>1, <3>3 DEF Once, HasLine
      <4>2. OnPage(a) => card'[1].button = "sent"
        BY <3>2, <3>3 DEF ButtonAfter
      <4>3. QED
        BY <1>1, <2>1, <3>1, <3>2, <4>1, <4>2 DEF Once
    <3>4. CASE report[a].at = "failed"
      <4>1. a \notin lost => ~HasLine(a)
        BY <1>1, <3>4 DEF Once
      <4>2. HasLine(a)' <=> HasLine(a)
        BY <2>1 DEF HasLine
      <4>3. OnPage(a) => card'[1].button = "ready"
        BY <3>2, <3>4 DEF ButtonAfter
      <4>4. QED
        BY <1>1, <2>1, <3>1, <3>2, <4>1, <4>2, <4>3 DEF Once
    <3>5. QED
      BY <2>1, <2>3, <3>3, <3>4
  <2>4. CASE a # b
    <3>1. report'[a] = report[a]
      BY <1>2, <2>1, <2>4
    <3>2. /\ OnPage(a)' <=> OnPage(a)
          /\ OnPage(a) => card'[1].button = card[1].button
      BY <1>11, <2>2, <2>4, ReportOnCard DEF OnPage
    <3>3. HasLine(a)' <=> HasLine(a)
      BY <2>1 DEF HasLine
    <3>4. QED
      BY <1>1, <2>1, <3>1, <3>2, <3>3 DEF Once
  <2>5. QED
    BY <2>3, <2>4
<1>12. ASSUME NEW b \in Answers, ReceiveForecast(b) PROVE Once(a)'
  <2>1. UNCHANGED << timing, lost, report >> /\ (card = << >> => card' = << >>)
    BY <1>12 DEF ReceiveForecast
  <2>2. QED
    BY <1>3, <1>12, <2>1, ForecastOnCard
<1>13. ASSUME NEW b \in Answers, ReceiveResult(b) PROVE Once(a)'
  <2>1. UNCHANGED << timing, lost, report >> /\ (card = << >> => card' = << >>)
    BY <1>13, SetCardIs DEF ReceiveResult
  <2>2. QED
    BY <1>3, <1>13, <2>1, ResultOnCard
<1>14. ASSUME NEW c, RunSandbox(c) \/ (c \in Answers /\ (RunSql(c) \/ PredictTime(c)))
       PROVE  Once(a)'
  <2>1. UNCHANGED << card, report, timing, lost >>
    BY <1>14 DEF RunSandbox, RunSql, PredictTime, page
  <2>2. QED
    BY <1>3, <2>1
<1>15. QED
  BY <1>4, <1>5, <1>6, <1>7, <1>8, <1>9, <1>10, <1>11, <1>12, <1>13, <1>14
     DEF AuditTab, SettleForecast, SettleReport, SettleSandbox
-----------------------------------------------------------------------------
(* The panel of the administrator.                                         *)

LEMMA StepPanel ==
  ASSUME Typed, PanelInv, AdminTab
  PROVE  PanelInv'
<1>1. /\ panel = [auth |-> panel.auth, shown |-> panel.shown, raced |-> panel.raced,
                  leave |-> panel.leave, loads |-> panel.loads]
      /\ panel.auth \in Credentials \cup {"none"} /\ panel.raced \in BOOLEAN
      /\ panel.loads \in SUBSET [sent : Credentials, reply : {"none", "stats", "401"}]
  BY DEF Typed, Panel
<1>2. \A l \in panel.loads : /\ l.reply = "stats" => l.sent = "right"
                             /\ l.reply = "401" => l.sent = "wrong"
  BY DEF PanelInv
<1>3. ~panel.raced => /\ \A l \in panel.loads :
                          l.sent = panel.auth \/ (panel.auth = "none" /\ l.sent = "wrong")
                      /\ panel.shown => panel.auth # "none"
  BY DEF PanelInv
<1>4. ASSUME NEW c \in Credentials, Login(c) PROVE PanelInv'
  <2> DEFINE new == [sent |-> c, reply |-> "none"]
  <2>1. /\ panel'.auth = c /\ panel'.loads = panel.loads \cup {new}
        /\ ~panel'.raced => panel.loads = {}
        /\ panel'.shown = panel.shown
    BY <1>1, <1>4 DEF Login, Loading
  <2>2. new.sent = c /\ new.reply = "none" /\ c # "none"
    BY DEF Credentials
  <2> HIDE DEF new
  <2>3. QED
    BY <1>2, <2>1, <2>2 DEF PanelInv
<1>5. CASE OpenAdminTab
  <2> DEFINE new == [sent |-> panel.auth, reply |-> "none"]
  <2>1. /\ panel'.auth = panel.auth /\ panel'.loads = panel.loads \cup {new}
        /\ panel'.raced = panel.raced /\ panel'.shown = panel.shown
    BY <1>1, <1>5 DEF OpenAdminTab, Loading
  <2>2. new.sent = panel.auth /\ new.reply = "none"
    OBVIOUS
  <2> HIDE DEF new
  <2>3. QED
    BY <1>2, <1>3, <2>1, <2>2 DEF PanelInv
<1>6. CASE Logout
  <2>1. /\ panel'.auth = "none" /\ panel'.loads = panel.loads
        /\ ~panel'.raced => panel.loads = {}
        /\ panel'.shown = FALSE
    BY <1>1, <1>6 DEF Logout
  <2>2. QED
    BY <1>2, <2>1 DEF PanelInv
<1>7. ASSUME NEW l \in panel.loads, AdminStats(l) PROVE PanelInv'
  <2> DEFINE m == [l EXCEPT !.reply = IF l.sent = "right" THEN "stats" ELSE "401"]
  <2>1. /\ m.sent = l.sent
        /\ m.reply = "stats" => m.sent = "right"
        /\ m.reply = "401" => m.sent = "wrong"
    BY <1>1 DEF Credentials
  <2>2. /\ panel'.auth = panel.auth /\ panel'.loads = (panel.loads \ {l}) \cup {m}
        /\ panel'.raced = panel.raced /\ panel'.shown = panel.shown
    BY <1>1, <1>7 DEF AdminStats
  <2> HIDE DEF m
  <2>3. QED
    BY <1>2, <1>3, <2>1, <2>2 DEF PanelInv
<1>8. ASSUME NEW l \in panel.loads, ReceiveStats(l) PROVE PanelInv'
  <2>1. panel'.loads = panel.loads \ {l} /\ panel'.raced = panel.raced
    BY <1>1, <1>8 DEF ReceiveStats, After401
  <2>2. CASE l.reply = "401"
    <3>1. panel'.auth = "none" /\ panel'.shown = FALSE
      BY <1>1, <1>8, <2>2 DEF ReceiveStats, After401
    <3>2. l.sent = "wrong"
      BY <1>2, <2>2
    <3>3. \A k \in panel.loads : k.sent # "none"
      BY <1>1 DEF Credentials
    <3>4. ~panel.raced => \A k \in panel.loads : k.sent = "wrong"
      BY <1>3, <3>2, <3>3
    <3>5. QED
      BY <1>2, <2>1, <3>1, <3>4 DEF PanelInv
  <2>3. CASE l.reply = "stats"
    <3>1. panel'.auth = panel.auth
      BY <1>1, <1>8, <2>3 DEF ReceiveStats
    <3>2. ~panel.raced => panel.auth # "none"
      BY <1>2, <1>3, <2>3
    <3>3. QED
      BY <1>2, <1>3, <2>1, <3>1, <3>2 DEF PanelInv
  <2>4. QED
    BY <1>1, <1>8, <2>2, <2>3 DEF ReceiveStats
<1>9. ASSUME NEW l \in panel.loads, FailToLoad(l) PROVE PanelInv'
  <2>1. /\ panel'.auth = panel.auth /\ panel'.loads = panel.loads \ {l}
        /\ panel'.raced = panel.raced /\ panel'.shown = panel.shown
    BY <1>1, <1>9 DEF FailToLoad
  <2>2. QED
    BY <1>2, <1>3, <2>1 DEF PanelInv
<1>10. QED
  BY <1>4, <1>5, <1>6, <1>7, <1>8, <1>9 DEF AdminTab

-----------------------------------------------------------------------------
(* The inductive invariant.                                                *)

LEMMA StepIInv == ConsoleInv /\ [ConsoleNext]_consoleVars => ConsoleInv'
<1> SUFFICES ASSUME ConsoleInv, [ConsoleNext]_consoleVars PROVE ConsoleInv'
  OBVIOUS
<1>1. Typed /\ OfShownAnswers /\ OneStatement /\ OneReport /\ PanelInv
  BY DEF ConsoleInv
<1>2. Typed'
  BY <1>1, StepTyped
<1>3. CASE AuditTab
  <2>1. PanelInv'
    BY <1>1, <1>3, AuditFrame DEF PanelInv
  <2>2. QED
    BY <1>1, <1>2, <1>3, <2>1, StepShown, StepStatement, StepReport DEF ConsoleInv
<1>4. ASSUME UNCHANGED << page, forecast, report, timing, mixed, lost >>
      PROVE  OfShownAnswers' /\ OneStatement' /\ OneReport'
  BY <1>1, <1>4 DEF page, OfShownAnswers, OneStatement, OneReport, OnPage, HasLine
<1>5. CASE AdminTab
  BY <1>1, <1>2, <1>4, <1>5, AdminFrame, StepPanel DEF ConsoleInv
<1>6. CASE UNCHANGED consoleVars
  BY <1>1, <1>2, <1>4, <1>6 DEF consoleVars, ConsoleInv, PanelInv
<1>7. QED
  BY <1>3, <1>5, <1>6 DEF ConsoleNext

LEMMA ConsoleInductive == ConsoleSpec => []ConsoleInv
BY InitIInv, StepIInv, PTL DEF ConsoleSpec

-----------------------------------------------------------------------------
(* However many answers are shown and whatever the user does with their    *)
(* cards: a line of the log of times is about one statement unless a       *)
(* forecast or a time came to another card, a card that says its report    *)
(* was sent has its line, and none has two unless a reply was lost         *)
(* (service.py:833-838, 971-987, 1023-1056).                               *)
THEOREM CardsAreReported == ConsoleSpec => []ReportsTellTheirCard
<1>1. ASSUME ConsoleInv PROVE ConsoleTypeOK
  <2>1. Typed /\ OfShownAnswers
    BY <1>1 DEF ConsoleInv
  <2>2. answers \in 0..MaxAnswers /\ runs \in 0..MaxRuns /\ panel \in Panel
    BY <2>1 DEF Typed
  <2>3. timing \in Seq([sql : Answers, cost : 0..MaxAnswers, real : Statement])
    BY <2>1 DEF Typed, Line
  <2>4. card # << >> => /\ card[1].sql \in 1..answers
                        /\ {card[1].cost, card[1].command} \subseteq 0..answers
                        /\ card[1].real \in Statement
                        /\ card[1].button \in {"ready", "sending", "sent"}
    BY <2>1, CardOnPage DEF OfShownAnswers, Card
  <2>5. \A a \in Answers : (forecast[a] = "none") = (a > answers)
    BY <2>1 DEF OfShownAnswers
  <2>6. QED
    BY <2>2, <2>3, <2>4, <2>5 DEF ConsoleTypeOK
<1>2. ASSUME ConsoleInv PROVE PairsAreOfTheCard
  BY <1>2 DEF ConsoleInv, OneStatement, PairsAreOfTheCard
<1>3. ASSUME ConsoleInv PROVE ReportsAreKeptOnce
  <2> SUFFICES ASSUME NEW a \in Answers
               PROVE  /\ OnPage(a) /\ card[1].button = "sent" => LinesOf(a) # {}
                      /\ a \notin lost => Cardinality(LinesOf(a)) <= 1
    BY DEF ReportsAreKeptOnce
  <2>1. Once(a)
    BY <1>3 DEF ConsoleInv, OneReport, Once
  <2>2. OnPage(a) /\ card[1].button = "sent" => LinesOf(a) # {}
    BY <2>1 DEF Once, HasLine, LinesOf
  <2>3. ASSUME a \notin lost PROVE Cardinality(LinesOf(a)) <= 1
    <3>1. CASE LinesOf(a) = {}
      BY <3>1, FS_EmptySet
    <3>2. CASE LinesOf(a) # {}
      <4>1. PICK i : i \in LinesOf(a)
        BY <3>2
      <4>2. LinesOf(a) = {i}
        BY <2>1, <2>3, <4>1 DEF Once, LinesOf
      <4>3. QED
        BY <4>2, FS_Singleton
    <3>3. QED
      BY <3>1, <3>2
  <2>4. QED
    BY <2>2, <2>3
<1>4. ConsoleInv => ReportsTellTheirCard
  BY <1>1, <1>2, <1>3 DEF ReportsTellTheirCard
<1>5. QED
  BY <1>4, ConsoleInductive, PTL

(* Whichever replies are under way when the user logs in, leaves or is     *)
(* refused: statistics are on the panel only while there are credentials,  *)
(* unless he left or changed them before a reply came                      *)
(* (service.py:1449-1482).                                                 *)
THEOREM StatisticsNeedLogin == ConsoleSpec => []StatsNeedLogin
<1>1. ConsoleInv => StatsNeedLogin
  BY DEF ConsoleInv, PanelInv, StatsNeedLogin
<1>2. QED
  BY <1>1, ConsoleInductive, PTL
=============================================================================
