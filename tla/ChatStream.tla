----------------------------- MODULE ChatStream -----------------------------
(***************************************************************************)
(* POST /chat/stream (infra/service.py): the pipeline runs in a thread of  *)
(* the executor and hands its events to the event loop, which puts them on *)
(* the request's asyncio.Queue; the response generator takes them from     *)
(* there and writes them to the client.  Many requests share the loop and  *)
(* the executor's threads.                                                 *)
(*                                                                         *)
(* The order in which the loop serves callbacks of different requests is   *)
(* left open; callbacks of one request are served first come, first served *)
(* (call_soon_threadsafe appends to the loop's deque).  How the pipeline   *)
(* comes by its events is the subject of module Pipeline; here it may      *)
(* produce up to MaxEvents of them, and then returns or raises.            *)
(***************************************************************************)
EXTENDS Integers, Sequences, FiniteSets

CONSTANTS
  Requests,
  MaxEvents,        \* bounds the progress events of one run
  Threads           \* threads of the default executor

ASSUME MaxEventsAssumption == MaxEvents \in Nat
ASSUME ThreadsAssumption == Threads \in Nat \ {0}

VARIABLES
  client,      \* client[r]: the response generator, see ClientStates
  worker,      \* worker[r]: worker_blocking, see WorkerStates
  waiting,     \* requests submitted to the executor, not yet started
  emitted,     \* emitted[r]: everything the worker handed to the loop
  ready,       \* ready[r]: callbacks the loop has not run yet
  queue,       \* queue[r]: the asyncio.Queue
  sent,        \* sent[r]: frames written to the client
  logged       \* logged[r]: what became of the row in events.csv

vars == << client, worker, waiting, emitted, ready, queue, sent, logged >>

ClientStates == {"idle", "greeting", "streaming", "closed", "gone"}
WorkerStates == {"none", "waiting", "running", "logging", "final", "finally", "done"}

(* The frames of one request are numbered, so that a lost, repeated or     *)
(* reordered one shows.                                                    *)
Frame == [kind : {"progress", "final", "error", "sentinel"}, n : Nat]

Numbered(r, kind) == [kind |-> kind, n |-> Len(emitted[r]) + 1]

Init ==
  /\ client = [r \in Requests |-> "idle"]
  /\ worker = [r \in Requests |-> "none"]
  /\ waiting = << >>
  /\ emitted = [r \in Requests |-> << >>]
  /\ ready = [r \in Requests |-> << >>]
  /\ queue = [r \in Requests |-> << >>]
  /\ sent = [r \in Requests |-> << >>]
  /\ logged = [r \in Requests |-> "no"]
-----------------------------------------------------------------------------
(* The worker thread.                                                      *)

(* emit_threadsafe: call_soon_threadsafe(q.put_nowait, event).  The other   *)
(* form waits until the client has taken the previous frame.               *)
EmitWhenTaken(r, kind) ==
  /\ ready[r] = << >> /\ queue[r] = << >>
  /\ emitted' = [emitted EXCEPT ![r] = Append(@, Numbered(r, kind))]
  /\ ready' = [ready EXCEPT ![r] = Append(@, Numbered(r, kind))]
  /\ UNCHANGED queue

Emit(r, kind) ==
  /\ emitted' = [emitted EXCEPT ![r] = Append(@, Numbered(r, kind))]
  /\ ready' = [ready EXCEPT ![r] = Append(@, Numbered(r, kind))]
  /\ UNCHANGED queue

(* q.put_nowait called straight from the worker thread.                    *)
EmitPastTheLoop(r, kind) ==
  /\ emitted' = [emitted EXCEPT ![r] = Append(@, Numbered(r, kind))]
  /\ queue' = [queue EXCEPT ![r] = Append(@, Numbered(r, kind))]
  /\ UNCHANGED ready

EmitSentinelPastTheLoop(r) == EmitPastTheLoop(r, "sentinel")
EmitSentinel(r) == Emit(r, "sentinel")

Busy == {r \in Requests : worker[r] \notin {"none", "waiting", "done"}}

(* The executor never runs more than its max_workers threads.              *)
ThreadFree == Cardinality(Busy) < Threads

(* A free thread takes the oldest submitted request.                       *)
StartRun ==
  /\ waiting # << >>
  /\ ThreadFree
  /\ worker' = [worker EXCEPT ![Head(waiting)] = "running"]
  /\ waiting' = Tail(waiting)
  /\ UNCHANGED << client, emitted, ready, queue, sent, logged >>

RunEmits(r) ==
  /\ worker[r] = "running"
  /\ Len(emitted[r]) < MaxEvents
  /\ Emit(r, "progress")
  /\ UNCHANGED << client, worker, waiting, sent, logged >>

FinalFirst == "final"
AfterRun == "logging"

RunReturns(r) ==
  /\ worker[r] = "running"
  /\ worker' = [worker EXCEPT ![r] = AfterRun]
  /\ UNCHANGED << client, waiting, emitted, ready, queue, sent, logged >>

(* "except Exception": one error event.                                    *)
AfterError == "finally"

RunRaises(r) ==
  /\ worker[r] = "running"
  /\ Emit(r, "error")
  /\ worker' = [worker EXCEPT ![r] = AfterError]
  /\ UNCHANGED << client, waiting, sent, logged >>

(* log_event never raises; a row it cannot write is dropped.               *)
LogEvent(r) ==
  /\ worker[r] = "logging"
  /\ \E outcome \in {"row", "dropped"} : logged' = [logged EXCEPT ![r] = outcome]
  /\ worker' = [worker EXCEPT ![r] = "final"]
  /\ UNCHANGED << client, waiting, emitted, ready, queue, sent >>

EmitFinal(r) ==
  /\ worker[r] = "final"
  /\ Emit(r, "final")
  /\ worker' = [worker EXCEPT ![r] = "finally"]
  /\ UNCHANGED << client, waiting, sent, logged >>

Finally(r) ==
  /\ worker[r] = "finally"
  /\ EmitSentinel(r)
  /\ worker' = [worker EXCEPT ![r] = "done"]
  /\ UNCHANGED << client, waiting, sent, logged >>

Work(r) ==
  RunEmits(r) \/ RunReturns(r) \/ RunRaises(r) \/ LogEvent(r) \/ EmitFinal(r) \/ Finally(r)
-----------------------------------------------------------------------------
(* The event loop runs the oldest callback of a request.                   *)
RunCallback(r) ==
  /\ ready[r] # << >>
  /\ queue' = [queue EXCEPT ![r] = Append(@, Head(ready[r]))]
  /\ ready' = [ready EXCEPT ![r] = Tail(@)]
  /\ UNCHANGED << client, worker, waiting, emitted, sent, logged >>
-----------------------------------------------------------------------------
(* The response generator.                                                 *)

(* The request arrives; the NL warnings, if any, are the first frame.      *)
Open(r) ==
  /\ client[r] = "idle"
  /\ client' = [client EXCEPT ![r] = "greeting"]
  /\ UNCHANGED << worker, waiting, emitted, ready, queue, sent, logged >>

(* loop.run_in_executor(None, worker_blocking)                             *)
Submit(r) ==
  /\ client[r] = "greeting"
  /\ client' = [client EXCEPT ![r] = "streaming"]
  /\ worker' = [worker EXCEPT ![r] = "waiting"]
  /\ waiting' = Append(waiting, r)
  /\ UNCHANGED << emitted, ready, queue, sent, logged >>

(* One turn of "while True: ev = await q.get()".                           *)
TakeFrame(r) ==
  /\ client[r] = "streaming"
  /\ queue[r] # << >>
  /\ queue' = [queue EXCEPT ![r] = Tail(@)]
  /\ IF Head(queue[r]).kind = "sentinel"
     THEN client' = [client EXCEPT ![r] = "closed"] /\ sent' = sent
     ELSE sent' = [sent EXCEPT ![r] = Append(@, Head(queue[r]))] /\ client' = client
  /\ UNCHANGED << worker, waiting, emitted, ready, logged >>

(* The client hangs up: the generator is cancelled wherever it is          *)
(* suspended.  Nothing tells the worker.                                   *)
Disconnect(r) ==
  /\ client[r] \in {"greeting", "streaming"}
  /\ client' = [client EXCEPT ![r] = "gone"]
  /\ UNCHANGED << worker, waiting, emitted, ready, queue, sent, logged >>

Next ==
  \/ StartRun
  \/ \E r \in Requests :
       Work(r) \/ RunCallback(r) \/ Open(r) \/ Submit(r) \/ TakeFrame(r) \/ Disconnect(r)

Spec == Init /\ [][Next]_vars

(* A free thread starts the next run; a run ends because every call to the *)
(* language model does; the loop runs its callbacks and resumes the        *)
(* generators.  Nothing obliges a client to come, or to leave.             *)
FairSpec ==
  /\ Spec
  /\ WF_vars(StartRun)
  /\ \A r \in Requests :
       /\ WF_vars(Work(r))
       /\ WF_vars(RunCallback(r))
       /\ WF_vars(Submit(r) \/ TakeFrame(r))
-----------------------------------------------------------------------------
TypeOK ==
  /\ client \in [Requests -> ClientStates]
  /\ worker \in [Requests -> WorkerStates]
  /\ waiting \in Seq(Requests)
  /\ emitted \in [Requests -> Seq(Frame)]
  /\ ready \in [Requests -> Seq(Frame)]
  /\ queue \in [Requests -> Seq(Frame)]
  /\ sent \in [Requests -> Seq(Frame)]
  /\ logged \in [Requests -> {"no", "row", "dropped"}]
  /\ Cardinality(Busy) <= Threads

Outcomes == {"final", "error"}

(* What the run produced: the sentinel that ends it is no event.           *)
Produced(r) ==
  LET all == emitted[r]
  IN  IF all # << >> /\ all[Len(all)].kind = "sentinel"
      THEN SubSeq(all, 1, Len(all) - 1)
      ELSE all

(* No frame is lost, repeated or overtaken on its way from the worker      *)
(* thread over the event loop to the client (service.py:1934-1936, 1980).  *)
NothingLostOnTheWay ==
  \A r \in Requests :
    client[r] # "closed" => emitted[r] = sent[r] \o queue[r] \o ready[r]

(* A stream that ends by itself showed everything the run produced, and    *)
(* exactly one outcome, as its last frame (service.py:1949-1969).          *)
ClosedStreamIsComplete ==
  \A r \in Requests :
    client[r] = "closed" =>
      /\ worker[r] = "done"
      /\ sent[r] = Produced(r)
      /\ sent[r] # << >>
      /\ \A i \in DOMAIN sent[r] : sent[r][i].kind \in Outcomes <=> i = Len(sent[r])

(* The client never sees a final answer the audit trail has not dealt with *)
(* (log_event comes before the final event, service.py:1943-1949), and a   *)
(* run that raised leaves no row.                                          *)
AnswerIsLoggedFirst ==
  \A r \in Requests : \A i \in DOMAIN sent[r] :
    /\ sent[r][i].kind = "final" => logged[r] # "no"
    /\ sent[r][i].kind = "error" => logged[r] = "no"

(* What a client is shown tells the run, whole and in order, and no sooner *)
(* than the trail knows of it.                                             *)
StreamTellsTheRun ==
  TypeOK /\ NothingLostOnTheWay /\ ClosedStreamIsComplete /\ AnswerIsLoggedFirst

(* An opened stream does not hang: it ends, unless its client leaves.      *)
StreamsEnd ==
  \A r \in Requests : client[r] = "greeting" ~> client[r] \in {"closed", "gone"}

(* A submitted run finishes and gives its thread back, even when its       *)
(* client, or every client, has left.                                      *)
RunsFinish ==
  \A r \in Requests : worker[r] = "waiting" ~> worker[r] = "done"

(* Nothing hangs, neither the page nor the thread (service.py:1969, 1978). *)
StreamsAndRunsEnd == StreamsEnd /\ RunsFinish
-----------------------------------------------------------------------------
(* Each request implements the channel it promises its client.             *)
ClientOf(r) ==
  CASE client[r] = "closed" -> "complete"
    [] client[r] = "gone" -> "left"
    [] OTHER -> "here"

Channel(r) == INSTANCE EventChannel
                WITH Items <- Frame,
                     produced <- Produced(r),
                     shown <- sent[r],
                     over <- worker[r] = "done",
                     client <- ClientOf(r)

(* The abstract Produce, with the one item the worker can produce next.    *)
ChannelNext(r) ==
  \/ \E kind \in {"progress", "final", "error"} :
       Channel(r)!Produce([kind |-> kind, n |-> Len(emitted[r]) + 1])
  \/ Channel(r)!Finish \/ Channel(r)!Show \/ Channel(r)!Complete \/ Channel(r)!Leave

ChannelVars(r) ==
  << Produced(r), sent[r], worker[r] = "done", ClientOf(r) >>

(* Whatever the threads and the loop do, each client sees a legal channel. *)
ImplementsEventChannel ==
  /\ \A r \in Requests : Channel(r)!Init
  /\ [][\A r \in Requests : ChannelNext(r) \/ UNCHANGED ChannelVars(r)]_vars
=============================================================================
