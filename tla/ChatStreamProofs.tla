-------------------------- MODULE ChatStreamProofs --------------------------
(***************************************************************************)
(* What /chat/stream shows is what the run produced, for any number of     *)
(* requests, threads and events; each request is one event channel.        *)
(***************************************************************************)
EXTENDS ChatStream, FiniteSetTheorems, SequenceTheorems, TLAPS

(***************************************************************************)
(* The frames of a request are in three parts: sent, in the queue, in the  *)
(* loop.                                                                   *)
(***************************************************************************)
LEMMA Parts ==
  \A a, b, c \in Seq(Frame) :
    /\ Len(a \o b \o c) = Len(a) + Len(b) + Len(c)
    /\ \A i \in 1..Len(a) : (a \o b \o c)[i] = a[i]
    /\ \A i \in 1..Len(b) : (a \o b \o c)[Len(a) + i] = b[i]
OBVIOUS

LEMMA FirstPart ==
  \A a, b, c \in Seq(Frame) : \A i \in DOMAIN a :
    i \in DOMAIN (a \o b \o c) /\ (a \o b \o c)[i] = a[i]
OBVIOUS

LEMMA PutAtEnd ==
  \A a, b, c \in Seq(Frame) : \A f \in Frame :
    Append(a \o b \o c, f) = a \o b \o Append(c, f)
<1> SUFFICES ASSUME NEW a \in Seq(Frame), NEW b \in Seq(Frame), NEW c \in Seq(Frame),
                    NEW f \in Frame
             PROVE  Append(a \o b \o c, f) = a \o b \o Append(c, f)
  OBVIOUS
<1> DEFINE left == Append(a \o b \o c, f)
           right == a \o b \o Append(c, f)
<1>1. left \in Seq(Frame) /\ right \in Seq(Frame)
  OBVIOUS
<1>2. Len(left) = Len(a) + Len(b) + Len(c) + 1 /\ Len(right) = Len(left)
  OBVIOUS
<1>3. \A i \in 1..Len(left) : left[i] = right[i]
  OBVIOUS
<1>4. QED
  BY <1>1, <1>2, <1>3, SeqEqual

LEMMA MoveToQueue ==
  \A a, b, c \in Seq(Frame) :
    c # << >> => a \o b \o c = a \o Append(b, Head(c)) \o Tail(c)
OBVIOUS

LEMMA MoveToSent ==
  \A a, b, c \in Seq(Frame) :
    b # << >> => a \o b \o c = Append(a, Head(b)) \o Tail(b) \o c
OBVIOUS
-----------------------------------------------------------------------------
(* The frames of an open stream are all somewhere on the way; a closed one *)
(* has taken everything, the sentinel last.                                *)
Whole(r) ==
  /\ client[r] # "closed" => emitted[r] = sent[r] \o queue[r] \o ready[r]
  /\ client[r] = "closed" =>
       /\ worker[r] = "done"
       /\ Len(sent[r]) = Len(emitted[r]) - 1
       /\ \A i \in DOMAIN sent[r] : sent[r][i] = emitted[r][i]

(* Where the worker stands is told by what it has emitted: progress, then  *)
(* one outcome, then the sentinel.                                         *)
AllProgress(all, n) == \A i \in 1..n : all[i].kind = "progress"

Content(r) ==
  LET all == emitted[r]  n == Len(emitted[r])
  IN  /\ worker[r] \in {"none", "waiting"} => n = 0
      /\ worker[r] \in {"running", "logging", "final"} => AllProgress(all, n)
      /\ worker[r] = "finally" =>
           n >= 1 /\ all[n].kind \in Outcomes /\ AllProgress(all, n - 1)
      /\ worker[r] = "done" =>
           /\ n >= 2 /\ all[n].kind = "sentinel"
           /\ all[n - 1].kind \in Outcomes /\ AllProgress(all, n - 2)

(* The row is dealt with between the run and its outcome.                  *)
Logged(r) ==
  /\ worker[r] \in {"none", "waiting", "running", "logging"} => logged[r] = "no"
  /\ worker[r] = "final" => logged[r] # "no"
  /\ \A i \in DOMAIN emitted[r] :
       /\ emitted[r][i].kind = "final" => logged[r] # "no"
       /\ emitted[r][i].kind = "error" => logged[r] = "no"

Lane(r) ==
  /\ client[r] \in {"idle", "greeting"} => worker[r] = "none"
  /\ Whole(r)
  /\ Content(r)
  /\ Logged(r)

(* A request waits for a thread once.                                      *)
Queued ==
  /\ \A i \in DOMAIN waiting : worker[waiting[i]] = "waiting"
  /\ \A i, j \in DOMAIN waiting : waiting[i] = waiting[j] => i = j

Types ==
  /\ client \in [Requests -> ClientStates]
  /\ worker \in [Requests -> WorkerStates]
  /\ waiting \in Seq(Requests)
  /\ emitted \in [Requests -> Seq(Frame)]
  /\ ready \in [Requests -> Seq(Frame)]
  /\ queue \in [Requests -> Seq(Frame)]
  /\ sent \in [Requests -> Seq(Frame)]
  /\ logged \in [Requests -> {"no", "row", "dropped"}]

(* Requests may be infinitely many; those with a thread are not.           *)
Pool == IsFiniteSet(Busy) /\ Cardinality(Busy) <= Threads

IInv ==
  /\ Types
  /\ Pool
  /\ Queued
  /\ \A r \in Requests : Lane(r)
-----------------------------------------------------------------------------
LEMMA Starts == Init => IInv
<1> SUFFICES ASSUME Init PROVE IInv
  OBVIOUS
<1> USE DEF Init
<1>1. << >> \in Seq(Frame) /\ << >> \in Seq(Requests)
  OBVIOUS
<1>2. Types
  BY <1>1 DEF Types, ClientStates, WorkerStates
<1>3. Pool
  <2>1. Busy = {}
    BY DEF Busy
  <2>2. IsFiniteSet(Busy) /\ Cardinality(Busy) = 0
    BY <2>1, FS_EmptySet
  <2>3. QED
    BY <2>2, ThreadsAssumption DEF Pool
<1>4. Queued
  BY DEF Queued
<1>5. ASSUME NEW r \in Requests PROVE Lane(r)
  BY DEF Lane, Whole, Content, AllProgress, Logged
<1>6. QED
  BY <1>2, <1>3, <1>4, <1>5 DEF IInv

(* A request nothing happens to keeps its promises.                        *)
Untouched(r) ==
  /\ client'[r] = client[r] /\ worker'[r] = worker[r]
  /\ emitted'[r] = emitted[r] /\ ready'[r] = ready[r]
  /\ queue'[r] = queue[r] /\ sent'[r] = sent[r] /\ logged'[r] = logged[r]

LEMMA UntouchedLane ==
  ASSUME NEW r, Untouched(r), Lane(r)
  PROVE  Lane(r)'
<1>1. Whole(r)'
  BY DEF Untouched, Lane, Whole
<1>2. Content(r)'
  <2>1. Content(r)
    BY DEF Lane
  <2>2. QED
    BY <2>1 DEF Untouched, Content, AllProgress
<1>3. Logged(r)'
  BY DEF Untouched, Lane, Logged
<1>4. QED
  BY <1>1, <1>2, <1>3 DEF Untouched, Lane

(* Threads given back, or none taken.                                      *)
LEMMA PoolShrinks ==
  ASSUME Pool, Busy' \subseteq Busy
  PROVE  Pool'
<1>1. IsFiniteSet(Busy') /\ Cardinality(Busy') <= Cardinality(Busy)
  BY FS_Subset DEF Pool
<1>2. IsFiniteSet(Busy) /\ Cardinality(Busy) <= Threads
  BY DEF Pool
<1>3. Cardinality(Busy) \in Nat /\ Cardinality(Busy') \in Nat
  BY <1>1, <1>2, FS_CardinalityType
<1>4. QED
  BY <1>1, <1>2, <1>3, ThreadsAssumption DEF Pool

LEMMA StartRunStep ==
  ASSUME IInv, StartRun
  PROVE  IInv'
<1> USE DEF IInv
<1>1. PICK r \in Requests : /\ r = Head(waiting) /\ r = waiting[1]
                           /\ worker[r] = "waiting" /\ 1 \in DOMAIN waiting
  BY DEF StartRun, Types, Queued
<1>0. worker' = [worker EXCEPT ![r] = "running"]
  BY <1>1 DEF StartRun
<1>2. Types'
  BY <1>1 DEF StartRun, Types, WorkerStates
<1>3. Pool'
  <2>1. Busy' = Busy \cup {r}
    BY <1>1 DEF StartRun, Busy, Types
  <2>2. IsFiniteSet(Busy) /\ Cardinality(Busy) < Threads
    BY DEF Pool, StartRun, ThreadFree
  <2>3. r \notin Busy
    BY <1>1 DEF Busy
  <2>4. IsFiniteSet(Busy') /\ Cardinality(Busy') = Cardinality(Busy) + 1
    BY <2>1, <2>2, <2>3, FS_AddElement
  <2>5. Cardinality(Busy) \in Nat
    BY <2>2, FS_CardinalityType
  <2>6. QED
    BY <2>2, <2>4, <2>5, ThreadsAssumption DEF Pool
<1>4. Queued'
  <2>1. /\ waiting \in Seq(Requests) /\ waiting # << >>
        /\ waiting' = Tail(waiting)
    BY DEF StartRun, Types
  <2>2. /\ \A i \in DOMAIN waiting' : i + 1 \in DOMAIN waiting /\ i \in Nat \ {0}
        /\ \A i \in DOMAIN waiting' : waiting'[i] = waiting[i + 1]
    BY <2>1
  <2>3. \A i \in DOMAIN waiting' : waiting'[i] # r /\ waiting'[i] \in Requests
    BY <1>1, <2>1, <2>2 DEF Queued
  <2>4. \A q \in Requests : q # r => worker'[q] = worker[q]
    BY <1>0 DEF Types
  <2>5. QED
    BY <2>2, <2>3, <2>4 DEF Queued
<1>5. ASSUME NEW q \in Requests PROVE Lane(q)'
  <2>1. CASE q = r
    <3>1. worker'[r] = "running" /\ worker[r] = "waiting"
      BY <1>1 DEF StartRun, Types
    <3>2. UNCHANGED << client, emitted, ready, queue, sent, logged >>
      BY DEF StartRun
    <3>3. Whole(r)' /\ (client'[r] \notin {"idle", "greeting"})
      BY <1>1, <3>1, <3>2 DEF Lane, Whole
    <3>4. Content(r)'
      <4>1. Len(emitted[r]) = 0
        BY <1>1 DEF Lane, Content
      <4>2. AllProgress(emitted[r], 0)
        BY DEF AllProgress
      <4>3. QED
        BY <3>1, <3>2, <4>1, <4>2 DEF Content, AllProgress
    <3>5. Logged(r)'
      BY <1>1, <3>1, <3>2 DEF Lane, Logged
    <3>6. QED
      BY <2>1, <3>3, <3>4, <3>5 DEF Lane
  <2>2. CASE q # r
    <3>1. Untouched(q)
      BY <2>2, <1>0 DEF StartRun, Types, Untouched
    <3>2. QED
      BY <3>1, UntouchedLane
  <2>3. QED
    BY <2>1, <2>2
<1>6. QED
  BY <1>2, <1>3, <1>4, <1>5
-----------------------------------------------------------------------------
(* The worker.  A frame it emits is the last of all.                       *)
LEMMA Emitting ==
  ASSUME Types, NEW r \in Requests,
         NEW kind \in {"progress", "final", "error", "sentinel"},
         Emit(r, kind)
  PROVE  /\ emitted' \in [Requests -> Seq(Frame)]
         /\ ready' \in [Requests -> Seq(Frame)]
         /\ queue' = queue
         /\ emitted'[r] = Append(emitted[r], Numbered(r, kind))
         /\ ready'[r] = Append(ready[r], Numbered(r, kind))
         /\ Len(emitted'[r]) = Len(emitted[r]) + 1
         /\ emitted'[r][Len(emitted[r]) + 1].kind = kind
         /\ \A i \in DOMAIN emitted[r] : emitted'[r][i] = emitted[r][i]
         /\ \A q \in Requests \ {r} : emitted'[q] = emitted[q] /\ ready'[q] = ready[q]
         /\ emitted[r] = sent[r] \o queue[r] \o ready[r] =>
               emitted'[r] = sent[r] \o queue[r] \o ready'[r]
<1>1. emitted[r] \in Seq(Frame) /\ ready[r] \in Seq(Frame)
      /\ sent[r] \in Seq(Frame) /\ queue[r] \in Seq(Frame)
  BY DEF Types
<1>2. Numbered(r, kind) \in Frame /\ Numbered(r, kind).kind = kind
  BY <1>1 DEF Numbered, Frame
<1>3. /\ emitted'[r] = Append(emitted[r], Numbered(r, kind))
      /\ ready'[r] = Append(ready[r], Numbered(r, kind))
      /\ \A q \in Requests \ {r} : emitted'[q] = emitted[q] /\ ready'[q] = ready[q]
      /\ queue' = queue
  BY DEF Emit, Types
<1>4. emitted'[r] \in Seq(Frame) /\ ready'[r] \in Seq(Frame)
  BY <1>1, <1>2, <1>3
<1>5. emitted' \in [Requests -> Seq(Frame)] /\ ready' \in [Requests -> Seq(Frame)]
  BY <1>3, <1>4 DEF Emit, Types
<1>6. /\ Len(emitted'[r]) = Len(emitted[r]) + 1
      /\ emitted'[r][Len(emitted[r]) + 1] = Numbered(r, kind)
      /\ \A i \in DOMAIN emitted[r] : emitted'[r][i] = emitted[r][i]
  BY <1>1, <1>2, <1>3
<1>7. emitted[r] = sent[r] \o queue[r] \o ready[r] =>
        emitted'[r] = sent[r] \o queue[r] \o ready'[r]
  <2> DEFINE f == Numbered(r, kind)  a == sent[r]  b == queue[r]  c == ready[r]
  <2>1. a \in Seq(Frame) /\ b \in Seq(Frame) /\ c \in Seq(Frame) /\ f \in Frame
    BY <1>1, <1>2
  <2>2. Append(a \o b \o c, f) = a \o b \o Append(c, f)
    <3> HIDE DEF f, a, b, c
    <3>1. \A y, z \in Seq(Frame) : \A g \in Frame :
            Append(a \o y \o z, g) = a \o y \o Append(z, g)
      BY <2>1, PutAtEnd, Zenon
    <3>2. \A z \in Seq(Frame) : \A g \in Frame :
            Append(a \o b \o z, g) = a \o b \o Append(z, g)
      BY <2>1, <3>1, Zenon
    <3>3. QED
      BY <2>1, <3>2, Zenon
  <2>3. QED
    BY <1>3, <2>2, Zenon
<1>8. QED
  BY <1>2, <1>3, <1>5, <1>6, <1>7

(* Nobody who waits for a thread is served.                                *)
LEMMA QueuedKept ==
  ASSUME Types, Queued, waiting' = waiting,
         \A q \in Requests : worker[q] = "waiting" => worker'[q] = "waiting"
  PROVE  Queued'
BY DEF Types, Queued

(* What a step of the worker of r does to the others.                      *)
LEMMA OthersUntouched ==
  ASSUME Types, NEW r \in Requests, Work(r), NEW q \in Requests, q # r
  PROVE  Untouched(q)
BY DEF Types, Work, Untouched, RunEmits, RunReturns, RunRaises, LogEvent,
       EmitFinal, Finally, Emit, EmitSentinel

LEMMA RunEmitsStep ==
  ASSUME IInv, NEW r \in Requests, RunEmits(r)
  PROVE  Types' /\ Lane(r)' /\ worker' = worker /\ waiting' = waiting
<1> USE DEF IInv
<1>1. Emit(r, "progress") /\ worker[r] = "running"
      /\ UNCHANGED << client, worker, waiting, sent, logged >>
  BY DEF RunEmits
<1>2. Types'
  BY <1>1, Emitting DEF Types
<1>3. Whole(r)'
  BY <1>1, Emitting DEF Whole, Lane
<1>4. Len(emitted[r]) \in Nat /\ DOMAIN emitted[r] = 1..Len(emitted[r])
      /\ DOMAIN emitted'[r] = 1..Len(emitted'[r])
  BY <1>2 DEF Types
<1>5. AllProgress(emitted'[r], Len(emitted'[r]))
  <2>1. AllProgress(emitted[r], Len(emitted[r]))
    BY <1>1 DEF Lane, Content
  <2>2. /\ Len(emitted'[r]) = Len(emitted[r]) + 1
        /\ emitted'[r][Len(emitted[r]) + 1].kind = "progress"
        /\ \A i \in DOMAIN emitted[r] : emitted'[r][i] = emitted[r][i]
    BY <1>1, Emitting
  <2>3. ASSUME NEW i \in 1..Len(emitted'[r]) PROVE emitted'[r][i].kind = "progress"
    <3>1. CASE i = Len(emitted[r]) + 1
      BY <2>2, <3>1
    <3>2. CASE i \in DOMAIN emitted[r]
      BY <1>4, <2>1, <2>2, <3>2 DEF AllProgress
    <3>3. QED
      BY <1>4, <2>2, <3>1, <3>2
  <2>4. QED
    BY <2>3 DEF AllProgress
<1>6. Content(r)'
  BY <1>1, <1>5 DEF Content, AllProgress
<1>7. Logged(r)'
  BY <1>1, <1>4, <1>5 DEF Lane, Logged, AllProgress
<1>8. QED
  BY <1>1, <1>2, <1>3, <1>6, <1>7 DEF Lane

LEMMA RunReturnsStep ==
  ASSUME IInv, NEW r \in Requests, RunReturns(r)
  PROVE  Types' /\ Lane(r)'
<1> USE DEF IInv, RunReturns, AfterRun
<1>1. Types' /\ worker'[r] = "logging"
  BY DEF Types, WorkerStates
<1>2. Whole(r)' /\ Content(r)' /\ Logged(r)'
  BY <1>1 DEF Lane, Whole, Content, AllProgress, Logged
<1>3. QED
  BY <1>1, <1>2 DEF Lane

LEMMA LogEventStep ==
  ASSUME IInv, NEW r \in Requests, LogEvent(r)
  PROVE  Types' /\ Lane(r)'
<1> USE DEF IInv, LogEvent
<1>1. Types' /\ worker'[r] = "final" /\ logged'[r] # "no"
  BY DEF Types, WorkerStates
<1>2. Len(emitted[r]) \in Nat /\ DOMAIN emitted[r] = 1..Len(emitted[r])
  BY DEF Types
<1>3. Whole(r)' /\ Content(r)'
  BY <1>1 DEF Lane, Whole, Content, AllProgress
<1>4. Logged(r)'
  BY <1>1, <1>2 DEF Lane, Content, AllProgress, Logged
<1>5. QED
  BY <1>1, <1>3, <1>4 DEF Lane

(* The outcome, after progress only.                                       *)
LEMMA OutcomeStep ==
  ASSUME IInv, NEW r \in Requests, NEW kind \in Outcomes,
         Emit(r, kind), worker[r] \in {"running", "final"},
         kind = "final" <=> worker[r] = "final",
         worker' = [worker EXCEPT ![r] = "finally"],
         UNCHANGED << client, waiting, sent, logged >>
  PROVE  Types' /\ Lane(r)'
<1> USE DEF IInv, Outcomes
<1>1. Types' /\ worker'[r] = "finally"
  BY Emitting DEF Types, WorkerStates
<1>2. Whole(r)'
  BY <1>1, Emitting DEF Whole, Lane
<1>3. Len(emitted[r]) \in Nat /\ DOMAIN emitted[r] = 1..Len(emitted[r])
      /\ DOMAIN emitted'[r] = 1..Len(emitted'[r])
  BY <1>1 DEF Types
<1>4. /\ Len(emitted'[r]) = Len(emitted[r]) + 1
      /\ emitted'[r][Len(emitted[r]) + 1].kind = kind
      /\ AllProgress(emitted'[r], Len(emitted[r]))
  <2>1. AllProgress(emitted[r], Len(emitted[r]))
    BY DEF Lane, Content
  <2>2. /\ Len(emitted'[r]) = Len(emitted[r]) + 1
        /\ emitted'[r][Len(emitted[r]) + 1].kind = kind
        /\ \A i \in DOMAIN emitted[r] : emitted'[r][i] = emitted[r][i]
    BY Emitting
  <2>3. QED
    BY <1>3, <2>1, <2>2 DEF AllProgress
<1>5. Content(r)'
  BY <1>1, <1>3, <1>4 DEF Content, AllProgress
<1>6. Logged(r)'
  <2>1. /\ kind = "final" => logged'[r] # "no"
        /\ kind = "error" => logged'[r] = "no"
    BY DEF Lane, Logged
  <2>2. ASSUME NEW i \in DOMAIN emitted'[r]
        PROVE  emitted'[r][i].kind \in {"progress", kind}
    BY <1>3, <1>4 DEF AllProgress
  <2>3. QED
    BY <1>1, <2>1, <2>2 DEF Logged
<1>7. QED
  BY <1>1, <1>2, <1>5, <1>6 DEF Lane

LEMMA FinallyStep ==
  ASSUME IInv, NEW r \in Requests, Finally(r)
  PROVE  Types' /\ Lane(r)'
<1> USE DEF IInv, Outcomes
<1>1. Emit(r, "sentinel") /\ worker[r] = "finally"
      /\ worker' = [worker EXCEPT ![r] = "done"]
      /\ UNCHANGED << client, waiting, sent, logged >>
  BY DEF Finally, EmitSentinel
<1>2. Types' /\ worker'[r] = "done"
  BY <1>1, Emitting DEF Types, WorkerStates
<1>3. Whole(r)'
  BY <1>1, <1>2, Emitting DEF Whole, Lane
<1>4. Len(emitted[r]) \in Nat /\ DOMAIN emitted[r] = 1..Len(emitted[r])
      /\ DOMAIN emitted'[r] = 1..Len(emitted'[r])
  BY <1>2 DEF Types
<1>5. /\ Len(emitted'[r]) = Len(emitted[r]) + 1
      /\ emitted'[r][Len(emitted[r]) + 1].kind = "sentinel"
      /\ \A i \in DOMAIN emitted[r] : emitted'[r][i] = emitted[r][i]
  BY <1>1, Emitting
<1>6. /\ Len(emitted[r]) >= 1 /\ emitted[r][Len(emitted[r])].kind \in Outcomes
      /\ AllProgress(emitted[r], Len(emitted[r]) - 1)
  BY <1>1 DEF Lane, Content
<1>7. Content(r)'
  <2> DEFINE n == Len(emitted[r])
  <2>1. n \in DOMAIN emitted[r] /\ Len(emitted'[r]) - 1 = n /\ Len(emitted'[r]) - 2 = n - 1
    BY <1>4, <1>5, <1>6
  <2>2. emitted'[r][n].kind \in Outcomes
    BY <1>5, <1>6, <2>1
  <2>3. AllProgress(emitted'[r], n - 1)
    <3>1. AllProgress(emitted[r], n - 1)
      BY <1>6
    <3>2. \A i \in 1..(n - 1) : i \in DOMAIN emitted[r]
      BY <1>4
    <3> HIDE DEF n
    <3>3. QED
      BY <1>5, <3>1, <3>2 DEF AllProgress
  <2>4. Len(emitted'[r]) >= 2 /\ emitted'[r][Len(emitted'[r])].kind = "sentinel"
    BY <1>4, <1>5, <1>6
  <2> HIDE DEF n
  <2>5. QED
    BY <1>2, <2>1, <2>2, <2>3, <2>4 DEF Content
<1>8. Logged(r)'
  BY <1>1, <1>2, <1>4, <1>5 DEF Lane, Logged
<1>9. QED
  BY <1>1, <1>2, <1>3, <1>7, <1>8 DEF Lane

LEMMA WorkStep ==
  ASSUME IInv, NEW r \in Requests, Work(r)
  PROVE  IInv'
<1> USE DEF IInv
<1>1. Types' /\ Lane(r)'
  <2>1. CASE RunEmits(r)
    BY <2>1, RunEmitsStep
  <2>2. CASE RunReturns(r)
    BY <2>2, RunReturnsStep
  <2>3. CASE RunRaises(r)
    BY <2>3, OutcomeStep DEF RunRaises, AfterError, Outcomes
  <2>4. CASE LogEvent(r)
    BY <2>4, LogEventStep
  <2>5. CASE EmitFinal(r)
    BY <2>5, OutcomeStep DEF EmitFinal, Outcomes
  <2>6. CASE Finally(r)
    BY <2>6, FinallyStep
  <2>7. QED
    BY <2>1, <2>2, <2>3, <2>4, <2>5, <2>6 DEF Work
<1>2. \A q \in Requests : q # r => Lane(q)'
  BY OthersUntouched, UntouchedLane
<1>3. /\ waiting' = waiting
      /\ worker[r] \notin {"none", "waiting", "done"}
      /\ \A q \in Requests : q # r => worker'[q] = worker[q]
  BY DEF Work, RunEmits, RunReturns, RunRaises, LogEvent, EmitFinal, Finally, Types
<1>4. Queued'
  BY <1>3, QueuedKept
<1>5. Pool'
  <2>1. Busy' \subseteq Busy
    BY <1>3 DEF Busy
  <2>2. QED
    BY <2>1, PoolShrinks
<1>6. QED
  BY <1>1, <1>2, <1>4, <1>5
-----------------------------------------------------------------------------
(* The loop and the response generator.                                    *)
LEMMA RunCallbackStep ==
  ASSUME IInv, NEW r \in Requests, RunCallback(r)
  PROVE  IInv'
<1> USE DEF IInv, RunCallback
<1>1. /\ sent[r] \in Seq(Frame) /\ queue[r] \in Seq(Frame) /\ ready[r] \in Seq(Frame)
      /\ ready[r] # << >>
  BY DEF Types
<1>2. queue'[r] = Append(queue[r], Head(ready[r])) /\ ready'[r] = Tail(ready[r])
  BY DEF Types
<1>3. queue'[r] \in Seq(Frame) /\ ready'[r] \in Seq(Frame)
  BY <1>1, <1>2
<1>4. Types'
  BY <1>3 DEF Types
<1>5. Whole(r)'
  <2>1. sent[r] \o queue[r] \o ready[r]
          = sent[r] \o Append(queue[r], Head(ready[r])) \o Tail(ready[r])
    BY <1>1, MoveToQueue, Zenon
  <2>2. QED
    BY <1>2, <2>1 DEF Lane, Whole
<1>6. ASSUME NEW q \in Requests PROVE Lane(q)'
  <2>1. CASE q = r
    BY <1>5, <2>1 DEF Lane, Content, AllProgress, Logged
  <2>2. CASE q # r
    <3>1. Untouched(q)
      BY <2>2 DEF Untouched, Types
    <3>2. QED
      BY <3>1, UntouchedLane
  <2>3. QED
    BY <2>1, <2>2
<1>7. Queued' /\ Pool'
  BY QueuedKept, PoolShrinks DEF Busy
<1>8. QED
  BY <1>4, <1>6, <1>7

LEMMA OpenStep ==
  ASSUME IInv, NEW r \in Requests, Open(r)
  PROVE  IInv'
<1> USE DEF IInv, Open
<1>1. Types' /\ client'[r] = "greeting"
  BY DEF Types, ClientStates
<1>2. ASSUME NEW q \in Requests PROVE Lane(q)'
  <2>1. CASE q = r
    <3>1. Whole(r)' /\ Logged(r)'
      BY <1>1 DEF Lane, Whole, Logged
    <3>2. Content(r)'
      BY <1>1 DEF Lane, Content, AllProgress
    <3>3. QED
      BY <1>1, <2>1, <3>1, <3>2 DEF Lane
  <2>2. CASE q # r
    <3>1. Untouched(q)
      BY <2>2 DEF Untouched, Types
    <3>2. QED
      BY <3>1, UntouchedLane
  <2>3. QED
    BY <2>1, <2>2
<1>3. Queued' /\ Pool'
  BY QueuedKept, PoolShrinks DEF Busy
<1>4. QED
  BY <1>1, <1>2, <1>3

LEMMA SubmitStep ==
  ASSUME IInv, NEW r \in Requests, Submit(r)
  PROVE  IInv'
<1> USE DEF IInv, Submit
<1>1. Types' /\ client'[r] = "streaming" /\ worker'[r] = "waiting" /\ worker[r] = "none"
  BY DEF Types, ClientStates, WorkerStates, Lane
<1>2. ASSUME NEW q \in Requests PROVE Lane(q)'
  <2>1. CASE q = r
    <3>1. Whole(r)' /\ Logged(r)'
      BY <1>1 DEF Lane, Whole, Logged
    <3>2. Content(r)'
      BY <1>1 DEF Lane, Content, AllProgress
    <3>3. QED
      BY <1>1, <2>1, <3>1, <3>2 DEF Lane
  <2>2. CASE q # r
    <3>1. Untouched(q)
      BY <2>2 DEF Untouched, Types
    <3>2. QED
      BY <3>1, UntouchedLane
  <2>3. QED
    BY <2>1, <2>2
<1>3. Queued'
  <2>1. /\ waiting \in Seq(Requests)
        /\ DOMAIN waiting = 1..Len(waiting) /\ Len(waiting) \in Nat
        /\ DOMAIN waiting' = 1..(Len(waiting) + 1)
        /\ waiting'[Len(waiting) + 1] = r
        /\ \A i \in DOMAIN waiting : waiting'[i] = waiting[i]
    <3>1. waiting \in Seq(Requests) /\ waiting' = Append(waiting, r)
      BY DEF Types
    <3>2. QED
      BY ONLY <3>1, r \in Requests
  <2>2. \A i \in DOMAIN waiting :
          /\ waiting[i] \in Requests /\ waiting[i] # r
          /\ worker'[waiting[i]] = "waiting"
    BY <1>1, <2>1 DEF Queued, Types
  <2>3. QED
    BY <1>1, <2>1, <2>2 DEF Queued
<1>4. Pool'
  BY <1>1, PoolShrinks DEF Busy, Types
<1>5. QED
  BY <1>1, <1>2, <1>3, <1>4

LEMMA DisconnectStep ==
  ASSUME IInv, NEW r \in Requests, Disconnect(r)
  PROVE  IInv'
<1> USE DEF IInv, Disconnect
<1>1. Types' /\ client'[r] = "gone"
  BY DEF Types, ClientStates
<1>2. ASSUME NEW q \in Requests PROVE Lane(q)'
  <2>1. CASE q = r
    <3>1. client[r] # "closed" /\ client[r] # "gone"
      OBVIOUS
    <3>2. UNCHANGED << worker, emitted, ready, queue, sent, logged >>
      OBVIOUS
    <3>3. Whole(r)'
      BY <1>1, <3>1, <3>2 DEF Lane, Whole
    <3>4. Content(r)' /\ Logged(r)'
      BY <3>2 DEF Lane, Content, AllProgress, Logged
    <3>5. QED
      BY <1>1, <2>1, <3>3, <3>4 DEF Lane
  <2>2. CASE q # r
    <3>1. Untouched(q)
      BY <2>2 DEF Untouched, Types
    <3>2. QED
      BY <3>1, UntouchedLane
  <2>3. QED
    BY <2>1, <2>2
<1>3. Queued' /\ Pool'
  BY QueuedKept, PoolShrinks DEF Busy
<1>4. QED
  BY <1>1, <1>2, <1>3

(* What the generator takes is the next frame; when that is the sentinel,  *)
(* there is nothing behind it, and the run is over.                        *)
LEMMA Taking ==
  ASSUME IInv, NEW r \in Requests, TakeFrame(r)
  PROVE  /\ Len(sent[r]) \in Nat /\ Len(emitted[r]) \in Nat
         /\ Len(sent[r]) + 1 \in DOMAIN emitted[r]
         /\ DOMAIN sent[r] = 1..Len(sent[r])
         /\ emitted[r][Len(sent[r]) + 1] = Head(queue[r])
         /\ \A i \in DOMAIN sent[r] : sent[r][i] = emitted[r][i]
         /\ Head(queue[r]).kind = "sentinel" =>
              worker[r] = "done" /\ Len(sent[r]) = Len(emitted[r]) - 1
<1>1. /\ sent[r] \in Seq(Frame) /\ queue[r] \in Seq(Frame) /\ ready[r] \in Seq(Frame)
      /\ emitted[r] \in Seq(Frame) /\ queue[r] # << >>
      /\ emitted[r] = sent[r] \o queue[r] \o ready[r]
  BY DEF IInv, TakeFrame, Types, Lane, Whole
<1>2. /\ Len(sent[r]) \in Nat /\ Len(queue[r]) \in Nat \ {0} /\ Len(ready[r]) \in Nat
      /\ DOMAIN sent[r] = 1..Len(sent[r]) /\ DOMAIN emitted[r] = 1..Len(emitted[r])
      /\ Head(queue[r]) = queue[r][1]
  BY <1>1
<1>3. /\ Len(emitted[r]) = Len(sent[r]) + Len(queue[r]) + Len(ready[r])
      /\ \A i \in 1..Len(sent[r]) : emitted[r][i] = sent[r][i]
      /\ \A i \in 1..Len(queue[r]) : emitted[r][Len(sent[r]) + i] = queue[r][i]
  <2> DEFINE all == sent[r] \o queue[r] \o ready[r]
  <2>1. /\ Len(all) = Len(sent[r]) + Len(queue[r]) + Len(ready[r])
        /\ \A i \in 1..Len(sent[r]) : all[i] = sent[r][i]
        /\ \A i \in 1..Len(queue[r]) : all[Len(sent[r]) + i] = queue[r][i]
    <3> DEFINE a == sent[r]  b == queue[r]  c == ready[r]
    <3>1. a \in Seq(Frame) /\ b \in Seq(Frame) /\ c \in Seq(Frame)
      BY <1>1
    <3>2. /\ Len(a \o b \o c) = Len(a) + Len(b) + Len(c)
          /\ \A i \in 1..Len(a) : (a \o b \o c)[i] = a[i]
          /\ \A i \in 1..Len(b) : (a \o b \o c)[Len(a) + i] = b[i]
      <4> HIDE DEF a, b, c
      <4>1. QED
        BY <3>1, Parts, Zenon
    <3>3. QED
      BY <3>2, Zenon
  <2>2. emitted[r] = all
    BY <1>1
  <2> HIDE DEF all
  <2>3. QED
    BY <2>1, <2>2, Zenon
<1> DEFINE m == Len(sent[r])  k == Len(queue[r])  l == Len(ready[r])
           n == Len(emitted[r])
<1>a. m \in Nat /\ k \in Nat \ {0} /\ l \in Nat /\ n = m + k + l
  BY <1>2, <1>3, Zenon
<1>b. n \in Nat /\ m + 1 \in 1..n
  <2> HIDE DEF m, k, l, n
  <2>1. QED
    BY <1>a
<1>4. /\ Len(sent[r]) + 1 \in DOMAIN emitted[r]
      /\ emitted[r][Len(sent[r]) + 1] = Head(queue[r])
  <2>1. 1 \in 1..Len(queue[r])
    BY <1>2
  <2>2. emitted[r][Len(sent[r]) + 1] = queue[r][1]
    BY <1>3, <2>1
  <2>3. QED
    BY <1>2, <1>b, <2>2, Zenon
<1>5. ASSUME Head(queue[r]).kind = "sentinel"
      PROVE  worker[r] = "done" /\ Len(sent[r]) = Len(emitted[r]) - 1
  <2> DEFINE i == Len(sent[r]) + 1
  <2>1. i \in 1..n /\ emitted[r][i].kind = "sentinel" /\ n \in Nat
    BY <1>b, <1>4, <1>5, Zenon
  <2>2. Content(r) /\ worker[r] \in WorkerStates
    BY DEF IInv, Lane, Types
  <2> HIDE DEF i
  <2>3. worker[r] = "done"
    BY <2>1, <2>2 DEF Content, AllProgress, Outcomes, WorkerStates
  <2>4. i = n
    BY <2>1, <2>2, <2>3 DEF Content, AllProgress, Outcomes
  <2>5. QED
    BY <1>2, <2>1, <2>3, <2>4 DEF i
<1>6. \A i \in DOMAIN sent[r] : sent[r][i] = emitted[r][i]
  BY <1>2, <1>3
<1>7. QED
  BY <1>2, <1>b, <1>4, <1>5, <1>6, Zenon

LEMMA TakeFrameStep ==
  ASSUME IInv, NEW r \in Requests, TakeFrame(r)
  PROVE  IInv'
<1>1. /\ sent[r] \in Seq(Frame) /\ queue[r] \in Seq(Frame) /\ ready[r] \in Seq(Frame)
      /\ queue[r] # << >> /\ client[r] = "streaming"
      /\ Head(queue[r]) \in Frame /\ Tail(queue[r]) \in Seq(Frame)
      /\ queue' = [queue EXCEPT ![r] = Tail(queue[r])]
      /\ UNCHANGED << worker, waiting, emitted, ready, logged >>
  BY DEF IInv, TakeFrame, Types
<1>2. /\ queue'[r] = Tail(queue[r])
      /\ queue' \in [Requests -> Seq(Frame)]
  BY <1>1 DEF IInv, Types
<1>3. Types' /\ Whole(r)' /\ client'[r] \notin {"idle", "greeting"}
  <2>1. CASE Head(queue[r]).kind = "sentinel"
    <3>1. client' = [client EXCEPT ![r] = "closed"] /\ sent' = sent
      BY <2>1 DEF TakeFrame
    <3>2. client'[r] = "closed" /\ Types'
      BY <1>1, <1>2, <3>1 DEF IInv, Types, ClientStates
    <3>3. Whole(r)'
      BY <1>1, <2>1, <3>1, <3>2, Taking DEF Whole
    <3>4. QED
      BY <3>2, <3>3
  <2>2. CASE Head(queue[r]).kind # "sentinel"
    <3>1. sent' = [sent EXCEPT ![r] = Append(sent[r], Head(queue[r]))] /\ client' = client
      BY <2>2 DEF TakeFrame
    <3>2. Append(sent[r], Head(queue[r])) \in Seq(Frame)
      BY <1>1
    <3>3. sent'[r] = Append(sent[r], Head(queue[r])) /\ Types'
      BY <1>1, <1>2, <3>1, <3>2 DEF IInv, Types
    <3>4. sent[r] \o queue[r] \o ready[r]
            = Append(sent[r], Head(queue[r])) \o Tail(queue[r]) \o ready[r]
      BY <1>1, MoveToSent, Zenon
    <3>5. emitted[r] = sent[r] \o queue[r] \o ready[r]
      BY <1>1 DEF IInv, Lane, Whole
    <3>6. emitted'[r] = sent'[r] \o queue'[r] \o ready'[r]
      BY <1>1, <1>2, <3>3, <3>4, <3>5, Zenon
    <3>7. QED
      BY <1>1, <3>1, <3>3, <3>6 DEF Whole
  <2>3. QED
    BY <2>1, <2>2
<1>4. Lane(r)'
  BY <1>1, <1>3 DEF IInv, Lane, Content, AllProgress, Logged
<1>5. ASSUME NEW q \in Requests, q # r PROVE Lane(q)'
  <2>1. Untouched(q)
    BY <1>5 DEF TakeFrame, Untouched, IInv, Types
  <2>2. QED
    BY <2>1, UntouchedLane DEF IInv
<1>6. Queued' /\ Pool'
  BY <1>1, QueuedKept, PoolShrinks DEF IInv, Busy
<1>7. QED
  BY <1>3, <1>4, <1>5, <1>6 DEF IInv
-----------------------------------------------------------------------------
LEMMA NextStep ==
  ASSUME IInv, [Next]_vars
  PROVE  IInv'
<1>1. CASE StartRun
  BY <1>1, StartRunStep
<1>2. CASE \E r \in Requests :
             Work(r) \/ RunCallback(r) \/ Open(r) \/ Submit(r) \/ TakeFrame(r) \/ Disconnect(r)
  BY <1>2, WorkStep, RunCallbackStep, OpenStep, SubmitStep, TakeFrameStep, DisconnectStep
<1>3. CASE UNCHANGED vars
  BY <1>3 DEF vars, IInv, Types, Pool, Busy, Queued, Lane, Whole, Content, AllProgress, Logged
<1>4. QED
  BY <1>1, <1>2, <1>3 DEF Next

(* The inductive invariant holds, whatever the constants and whatever      *)
(* overtakes what.                                                         *)
THEOREM Inductive == Spec => []IInv
<1>1. QED
  BY Starts, NextStep, PTL DEF Spec

(* What a run has produced: all it emitted, less the sentinel.             *)
ProducedFacts(r) ==
  /\ worker[r] # "done" => Produced(r) = emitted[r]
  /\ worker[r] = "done" =>
       /\ Produced(r) = SubSeq(emitted[r], 1, Len(emitted[r]) - 1)
       /\ Len(emitted[r]) >= 2
       /\ emitted[r][Len(emitted[r])].kind = "sentinel"
  /\ emitted[r] \in Seq(Frame) /\ Produced(r) \in Seq(Frame)
  /\ Len(emitted[r]) \in Nat

LEMMA ProducedIs ==
  ASSUME NEW r \in Requests
  PROVE  IInv => ProducedFacts(r)
<1> SUFFICES ASSUME IInv PROVE ProducedFacts(r)
  OBVIOUS
<1>1. emitted[r] \in Seq(Frame) /\ Len(emitted[r]) \in Nat
      /\ worker[r] \in WorkerStates /\ Content(r)
  BY DEF IInv, Types, Lane
<1>2. ASSUME worker[r] # "done", emitted[r] # << >>
      PROVE  emitted[r][Len(emitted[r])].kind # "sentinel"
  <2>1. Len(emitted[r]) \in 1..Len(emitted[r])
    BY <1>1, <1>2
  <2>2. QED
    BY <1>1, <1>2, <2>1 DEF Content, AllProgress, Outcomes, WorkerStates
<1>3. ASSUME worker[r] = "done"
      PROVE  /\ Len(emitted[r]) >= 2 /\ emitted[r] # << >>
             /\ emitted[r][Len(emitted[r])].kind = "sentinel"
  BY <1>1, <1>3 DEF Content
<1>4. SubSeq(emitted[r], 1, Len(emitted[r]) - 1) \in Seq(Frame)
  BY <1>1
<1>5. QED
  BY <1>1, <1>2, <1>3, <1>4 DEF Produced, ProducedFacts

LEMMA ProducedWillBe ==
  ASSUME NEW r \in Requests
  PROVE  IInv' => ProducedFacts(r)'
<1>1. IInv => ProducedFacts(r)
  BY ProducedIs
<1>2. QED
  BY <1>1, PTL

(* Nothing is lost or overtaken between the worker and the client, a       *)
(* stream that ends showed everything and one outcome, and no answer is    *)
(* shown of which the trail knows nothing (service.py:1934-1984).          *)
THEOREM StreamCorrect == Spec => []StreamTellsTheRun
<1>1. ASSUME IInv PROVE TypeOK
  BY <1>1 DEF IInv, Types, Pool, TypeOK
<1>2. ASSUME IInv PROVE NothingLostOnTheWay
  BY <1>2 DEF IInv, Lane, Whole, NothingLostOnTheWay
<1>3. ASSUME IInv PROVE ClosedStreamIsComplete
  <2> SUFFICES ASSUME NEW r \in Requests, client[r] = "closed"
               PROVE  /\ worker[r] = "done"
                      /\ sent[r] = Produced(r)
                      /\ sent[r] # << >>
                      /\ \A i \in DOMAIN sent[r] :
                           sent[r][i].kind \in Outcomes <=> i = Len(sent[r])
    BY DEF ClosedStreamIsComplete
  <2> DEFINE n == Len(emitted[r])
  <2>1. /\ worker[r] = "done" /\ Len(sent[r]) = n - 1
        /\ \A i \in DOMAIN sent[r] : sent[r][i] = emitted[r][i]
        /\ Content(r) /\ sent[r] \in Seq(Frame)
    BY <1>3 DEF IInv, Lane, Whole, Types
  <2>2. /\ Produced(r) = SubSeq(emitted[r], 1, n - 1)
        /\ n >= 2 /\ n \in Nat /\ emitted[r] \in Seq(Frame)
    BY <1>3, <2>1, ProducedIs DEF ProducedFacts
  <2>3. DOMAIN sent[r] = 1..(n - 1)
    BY <2>1
  <2>4. sent[r] = Produced(r)
    <3>1. /\ SubSeq(emitted[r], 1, n - 1) \in Seq(Frame)
          /\ Len(SubSeq(emitted[r], 1, n - 1)) = n - 1
          /\ \A i \in 1..(n - 1) : SubSeq(emitted[r], 1, n - 1)[i] = emitted[r][i]
      BY <2>2
    <3> DEFINE all == SubSeq(emitted[r], 1, n - 1)
    <3>2. /\ sent[r] \in Seq(Frame) /\ all \in Seq(Frame)
          /\ Len(sent[r]) = Len(all) /\ all = Produced(r)
      BY <2>1, <2>2, <3>1
    <3>3. \A i \in 1..Len(sent[r]) : sent[r][i] = all[i]
      BY <2>1, <2>3, <3>1, <3>2
    <3> HIDE DEF all
    <3>4. sent[r] = all
      BY <3>2, <3>3, SeqEqual
    <3>5. QED
      BY <3>2, <3>4
  <2>5. sent[r] # << >>
    BY <2>1, <2>2
  <2>6. emitted[r][n - 1].kind \in Outcomes /\ AllProgress(emitted[r], n - 2)
    BY <2>1 DEF Content
  <2> HIDE DEF n
  <2>7. \A i \in DOMAIN sent[r] : sent[r][i].kind \in Outcomes <=> i = Len(sent[r])
    <3>1. ASSUME NEW i \in 1..(n - 1) PROVE emitted[r][i].kind \in Outcomes <=> i = n - 1
      BY <2>2, <2>6 DEF AllProgress, Outcomes
    <3>2. QED
      BY <2>1, <2>3, <3>1
  <2>8. QED
    BY <2>1, <2>4, <2>5, <2>7
<1>4. ASSUME IInv PROVE AnswerIsLoggedFirst
  <2>1. ASSUME NEW r \in Requests, NEW i \in DOMAIN sent[r]
        PROVE  i \in DOMAIN emitted[r] /\ sent[r][i] = emitted[r][i]
    <3>1. sent[r] \in Seq(Frame) /\ queue[r] \in Seq(Frame) /\ ready[r] \in Seq(Frame)
          /\ emitted[r] \in Seq(Frame) /\ Whole(r)
      BY <1>4 DEF IInv, Types, Lane
    <3>2. CASE client[r] # "closed"
      <4>1. emitted[r] = sent[r] \o queue[r] \o ready[r]
        BY <3>1, <3>2 DEF Whole
      <4>2. /\ i \in DOMAIN (sent[r] \o queue[r] \o ready[r])
            /\ (sent[r] \o queue[r] \o ready[r])[i] = sent[r][i]
        <5> DEFINE a == sent[r]  b == queue[r]  c == ready[r]
        <5>1. a \in Seq(Frame) /\ b \in Seq(Frame) /\ c \in Seq(Frame) /\ i \in DOMAIN a
          BY <3>1
        <5> HIDE DEF a, b, c
        <5>2. i \in DOMAIN (a \o b \o c) /\ (a \o b \o c)[i] = a[i]
          BY <5>1, FirstPart
        <5>3. QED
          BY <5>2 DEF a, b, c
      <4>3. QED
        BY <4>1, <4>2, Zenon
    <3>3. CASE client[r] = "closed"
      BY <3>1, <3>3 DEF Whole
    <3>4. QED
      BY <3>2, <3>3
  <2>2. QED
    BY <1>4, <2>1 DEF IInv, Lane, Logged, AnswerIsLoggedFirst
<1>5. IInv => StreamTellsTheRun
  BY <1>1, <1>2, <1>3, <1>4 DEF StreamTellsTheRun
<1>6. QED
  BY <1>5, Inductive, PTL
-----------------------------------------------------------------------------
(* Each request is a channel: every step of it is one of the channel, or   *)
(* none.                                                                   *)
LEMMA UntouchedChannel ==
  ASSUME NEW r, Untouched(r)
  PROVE  UNCHANGED ChannelVars(r)
BY DEF Untouched, ChannelVars, Produced, ClientOf

LEMMA EmittingProduces ==
  ASSUME IInv, IInv', NEW r \in Requests, NEW kind \in {"progress", "final", "error"},
         Emit(r, kind), worker[r] # "done", worker'[r] # "done",
         UNCHANGED << client, sent >>
  PROVE  ChannelNext(r)
<1>1. Produced(r) = emitted[r]
  BY ProducedIs DEF ProducedFacts
<1>2. Produced(r)' = emitted'[r]
  BY ProducedWillBe DEF ProducedFacts
<1>3. emitted'[r] = Append(emitted[r], Numbered(r, kind))
  BY DEF IInv, Types, Emit
<1>4. Channel(r)!Produce([kind |-> kind, n |-> Len(emitted[r]) + 1])
  BY <1>1, <1>2, <1>3 DEF Channel!Produce, Numbered, ClientOf
<1>5. QED
  BY <1>4 DEF ChannelNext

LEMMA WorkIsChannel ==
  ASSUME IInv, IInv', NEW r \in Requests, Work(r)
  PROVE  ChannelNext(r) \/ UNCHANGED ChannelVars(r)
<1>1. CASE RunEmits(r)
  BY <1>1, EmittingProduces DEF RunEmits
<1>2. CASE RunReturns(r) \/ LogEvent(r)
  <2>1. worker[r] # "done" /\ worker'[r] # "done" /\ UNCHANGED << emitted, sent, client >>
    BY <1>2 DEF RunReturns, LogEvent, AfterRun, IInv, Types
  <2>2. QED
    BY <2>1 DEF ChannelVars, Produced, ClientOf
<1>3. CASE RunRaises(r) \/ EmitFinal(r)
  <2>1. worker[r] # "done" /\ worker'[r] # "done" /\ UNCHANGED << sent, client >>
    BY <1>3 DEF RunRaises, EmitFinal, AfterError, IInv, Types
  <2>2. QED
    BY <1>3, <2>1, EmittingProduces DEF RunRaises, EmitFinal
<1>4. CASE Finally(r)
  <2>1. /\ Emit(r, "sentinel") /\ worker[r] = "finally" /\ worker'[r] = "done"
        /\ UNCHANGED << sent, client >>
    BY <1>4 DEF Finally, EmitSentinel, IInv, Types
  <2> DEFINE n == Len(emitted[r])
  <2>2. /\ Produced(r) = emitted[r] /\ emitted[r] \in Seq(Frame) /\ n \in Nat
        /\ Produced(r)' = SubSeq(emitted'[r], 1, Len(emitted'[r]) - 1)
        /\ emitted'[r] \in Seq(Frame)
    BY <2>1, ProducedIs, ProducedWillBe DEF ProducedFacts
  <2>3. /\ Len(emitted'[r]) = n + 1
        /\ \A i \in DOMAIN emitted[r] : emitted'[r][i] = emitted[r][i]
    BY <2>1, Emitting DEF IInv
  <2>4. Produced(r)' = Produced(r)
    <3>1. /\ SubSeq(emitted'[r], 1, n) \in Seq(Frame)
          /\ Len(SubSeq(emitted'[r], 1, n)) = n
          /\ \A i \in 1..n : SubSeq(emitted'[r], 1, n)[i] = emitted'[r][i]
      BY <2>2, <2>3
    <3>2. SubSeq(emitted'[r], 1, n) = emitted[r]
      BY <2>2, <2>3, <3>1, SeqEqual
    <3>3. Len(emitted'[r]) - 1 = n
      BY <2>2, <2>3
    <3>4. QED
      BY <2>2, <3>2, <3>3
  <2>5. Channel(r)!Finish
    BY <2>1, <2>4 DEF Channel!Finish, ClientOf
  <2>6. QED
    BY <2>5 DEF ChannelNext
<1>5. QED
  BY <1>1, <1>2, <1>3, <1>4 DEF Work

LEMMA TakeFrameIsChannel ==
  ASSUME IInv, IInv', NEW r \in Requests, TakeFrame(r)
  PROVE  ChannelNext(r)
<1> DEFINE m == Len(sent[r])  n == Len(emitted[r])
<1>1. /\ client[r] = "streaming" /\ UNCHANGED << worker, emitted >>
      /\ Produced(r)' = Produced(r)
  BY DEF TakeFrame, Produced
<1>2. /\ m \in Nat /\ n \in Nat /\ m + 1 \in 1..n
      /\ emitted[r][m + 1] = Head(queue[r]) /\ emitted[r] \in Seq(Frame)
  <2>1. emitted[r] \in Seq(Frame) /\ DOMAIN emitted[r] = 1..n
    BY ProducedIs DEF ProducedFacts
  <2>2. QED
    BY <2>1, Taking, Zenon
<1>3. CASE Head(queue[r]).kind = "sentinel"
  <2>1. client'[r] = "closed" /\ sent' = sent
    BY <1>3 DEF TakeFrame, IInv, Types
  <2>2. worker[r] = "done"
    BY <1>3, Taking
  <2>3. sent[r] = Produced(r)
    <3>1. m = n - 1
      BY <1>3, Taking
    <3>2. Produced(r) = SubSeq(emitted[r], 1, n - 1)
      BY <2>2, ProducedIs DEF ProducedFacts
    <3>3. /\ SubSeq(emitted[r], 1, n - 1) \in Seq(Frame)
          /\ Len(SubSeq(emitted[r], 1, n - 1)) = n - 1
          /\ \A i \in 1..(n - 1) : SubSeq(emitted[r], 1, n - 1)[i] = emitted[r][i]
      BY <1>2
    <3>4. \A i \in 1..m : sent[r][i] = emitted[r][i]
      BY Taking
    <3>5. sent[r] \in Seq(Frame)
      BY DEF IInv, Types
    <3>6. QED
      BY <3>1, <3>2, <3>3, <3>4, <3>5, SeqEqual
  <2>4. Channel(r)!Complete
    BY <1>1, <2>1, <2>2, <2>3 DEF Channel!Complete, ClientOf
  <2>5. QED
    BY <2>4 DEF ChannelNext
<1>4. CASE Head(queue[r]).kind # "sentinel"
  <2>1. client' = client /\ sent'[r] = Append(sent[r], Head(queue[r]))
    BY <1>4 DEF TakeFrame, IInv, Types
  <2>2. m < Len(Produced(r)) /\ Produced(r)[m + 1] = Head(queue[r])
    <3>1. CASE worker[r] # "done"
      <4>1. Produced(r) = emitted[r]
        BY <3>1, ProducedIs DEF ProducedFacts
      <4>2. QED
        BY <1>2, <4>1
    <3>2. CASE worker[r] = "done"
      <4>1. Produced(r) = SubSeq(emitted[r], 1, n - 1) /\ emitted[r][n].kind = "sentinel"
        BY <3>2, ProducedIs DEF ProducedFacts
      <4>2. m + 1 # n
        BY <1>2, <1>4, <4>1
      <4>3. m + 1 \in 1..(n - 1)
        <5> HIDE DEF m, n
        <5>1. QED
          BY <1>2, <4>2
      <4>4. /\ Len(SubSeq(emitted[r], 1, n - 1)) = n - 1
            /\ SubSeq(emitted[r], 1, n - 1)[m + 1] = emitted[r][m + 1]
        BY <1>2, <4>3
      <4>5. QED
        BY <1>2, <4>1, <4>3, <4>4
    <3>3. QED
      BY <3>1, <3>2
  <2>3. Channel(r)!Show
    BY <1>1, <2>1, <2>2 DEF Channel!Show, ClientOf
  <2>4. QED
    BY <2>3 DEF ChannelNext
<1>5. QED
  BY <1>3, <1>4

LEMMA StepIsChannel ==
  ASSUME IInv, IInv', [Next]_vars, NEW q \in Requests
  PROVE  ChannelNext(q) \/ UNCHANGED ChannelVars(q)
<1>1. CASE StartRun
  <2>1. Head(waiting) \in Requests /\ worker[Head(waiting)] = "waiting"
    <3>1. waiting \in Seq(Requests) /\ waiting # << >>
      BY <1>1 DEF StartRun, IInv, Types
    <3>2. Head(waiting) = waiting[1] /\ 1 \in DOMAIN waiting /\ Head(waiting) \in Requests
      BY <3>1
    <3>3. QED
      BY <3>2 DEF IInv, Queued
  <2>2. (worker'[q] = "done") = (worker[q] = "done")
    BY <1>1, <2>1 DEF StartRun, IInv, Types
  <2>3. QED
    BY <1>1, <2>2 DEF StartRun, ChannelVars, Produced, ClientOf
<1>2. ASSUME NEW r \in Requests,
             Work(r) \/ RunCallback(r) \/ Open(r) \/ Submit(r) \/ TakeFrame(r) \/ Disconnect(r)
      PROVE  ChannelNext(q) \/ UNCHANGED ChannelVars(q)
  <2>1. CASE q # r
    <3>1. Untouched(q)
      <4>1. CASE Work(r)
        BY <2>1, <4>1, OthersUntouched DEF IInv
      <4>2. CASE RunCallback(r) \/ Open(r) \/ Submit(r) \/ TakeFrame(r) \/ Disconnect(r)
        BY <2>1, <4>2
           DEF RunCallback, Open, Submit, TakeFrame, Disconnect, Untouched, IInv, Types
      <4>3. QED
        BY <1>2, <4>1, <4>2
    <3>2. QED
      BY <3>1, UntouchedChannel
  <2>2. CASE q = r /\ Work(r)
    BY <2>2, WorkIsChannel
  <2>3. CASE q = r /\ RunCallback(r)
    BY <2>3 DEF RunCallback, ChannelVars, Produced, ClientOf
  <2>4. CASE q = r /\ (Open(r) \/ Submit(r))
    <3>1. worker[r] = "none" /\ worker'[r] # "done"
      BY <2>4 DEF Open, Submit, IInv, Types, Lane
    <3>2. ClientOf(r)' = ClientOf(r) /\ UNCHANGED << emitted, sent >>
      BY <2>4 DEF Open, Submit, IInv, Types, ClientOf
    <3>3. QED
      BY <2>4, <3>1, <3>2 DEF ChannelVars, Produced
  <2>5. CASE q = r /\ TakeFrame(r)
    BY <2>5, TakeFrameIsChannel
  <2>6. CASE q = r /\ Disconnect(r)
    <3>1. Channel(r)!Leave
      BY <2>6 DEF Disconnect, Channel!Leave, ClientOf, Produced, IInv, Types
    <3>2. QED
      BY <2>6, <3>1 DEF ChannelNext
  <2>7. QED
    BY <1>2, <2>1, <2>2, <2>3, <2>4, <2>5, <2>6
<1>3. CASE UNCHANGED vars
  BY <1>3, UntouchedChannel DEF vars, Untouched
<1>4. QED
  BY <1>1, <1>2, <1>3 DEF Next

(* Whatever the threads and the loop do, each client is promised, and      *)
(* given, an event channel of its own.                                     *)
THEOREM Implements == Spec => ImplementsEventChannel
<1> DEFINE Steps == \A r \in Requests : ChannelNext(r) \/ UNCHANGED ChannelVars(r)
<1>1. Init => \A r \in Requests : Channel(r)!Init
  BY DEF Init, Channel!Init, Produced, ClientOf
<1>2. IInv /\ IInv' /\ [Next]_vars => [Steps]_vars
  BY StepIsChannel
<1> HIDE DEF Steps
<1>3. Spec => (\A r \in Requests : Channel(r)!Init) /\ [][Steps]_vars
  BY <1>1, <1>2, Inductive, PTL DEF Spec
<1>4. QED
  BY <1>3 DEF ImplementsEventChannel, Steps
=============================================================================
