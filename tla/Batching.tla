------------------------------ MODULE Batching ------------------------------
(***************************************************************************)
(* scripts/batching_demo.py: MockVLLMServer collects the requests waiting  *)
(* in its queue into a batch, up to max_batch or until none came for       *)
(* max_wait_s, and answers a whole batch with one pass of the model.       *)
(* main() runs three experiments one after another: a server that takes    *)
(* one request at a time, one that batches, and two servers at once.       *)
(***************************************************************************)
EXTENDS Integers, Sequences, FiniteSets, SequencesExt

CONSTANTS
  Experiments,   \* the sets of servers main() starts together, in order
  MaxBatch,      \* [server |-> max_batch]
  Load           \* [server |-> how many requests are gathered on it]

ASSUME BatchingAssumption ==
  /\ Load \in [DOMAIN Load -> Nat]
  /\ MaxBatch \in [DOMAIN Load -> Nat \ {0}]

VARIABLES
  experiment,    \* the one under way; Len(Experiments) + 1 after the last
  phase,         \* [server |-> where its _loop is]
  queue,         \* [server |-> the requests put and not taken]
  batch,         \* [server |-> the requests of the batch being collected]
  sent,          \* [server |-> how many requests infer() has put]
  answered,      \* [server |-> the requests whose future is done]
  passes, served \* [server |-> its counters]

batchingVars == << experiment, phase, queue, batch, sent, answered, passes, served >>

Servers == DOMAIN Load
Phases == {"off", "waiting", "filling", "passing"}

BatchingInit(first) ==
  /\ experiment = first
  /\ phase = [s \in Servers |-> "off"]
  /\ queue = [s \in Servers |-> << >>]
  /\ batch = [s \in Servers |-> << >>]
  /\ sent = [s \in Servers |-> 0]
  /\ answered = [s \in Servers |-> {}]
  /\ passes = [s \in Servers |-> 0]
  /\ served = [s \in Servers |-> 0]

UnderWay == experiment \in DOMAIN Experiments
Current == IF UnderWay THEN Experiments[experiment] ELSE {}

(* start() of every server of the experiment                               *)
StartServers ==
  /\ UnderWay
  /\ \A s \in Current : phase[s] = "off"
  /\ phase' = [s \in Servers |-> IF s \in Current THEN "waiting" ELSE phase[s]]
  /\ UNCHANGED << experiment, queue, batch, sent, answered, passes, served >>

(* infer: put into the unbounded queue, then wait for the future           *)
Infer(s) ==
  /\ s \in Current
  /\ phase[s] # "off"
  /\ sent[s] < Load[s]
  /\ sent' = [sent EXCEPT ![s] = @ + 1]
  /\ queue' = [queue EXCEPT ![s] = Append(@, sent[s] + 1)]
  /\ UNCHANGED << experiment, phase, batch, answered, passes, served >>

(* _loop: the first request of a batch                                     *)
TakeFirst(s) ==
  /\ phase[s] = "waiting"
  /\ queue[s] # << >>
  /\ batch' = [batch EXCEPT ![s] = << Head(queue[s]) >>]
  /\ queue' = [queue EXCEPT ![s] = Tail(@)]
  /\ phase' = [phase EXCEPT ![s] = "filling"]
  /\ UNCHANGED << experiment, sent, answered, passes, served >>

(* the rest of the batch, while requests come within the window            *)
CollectedAnew(b, request) == << request >>
Collected(b, request) == Append(b, request)
Fill(s) ==
  /\ phase[s] = "filling"
  /\ Len(batch[s]) < MaxBatch[s]
  /\ queue[s] # << >>
  /\ batch' = [batch EXCEPT ![s] = Collected(@, Head(queue[s]))]
  /\ queue' = [queue EXCEPT ![s] = Tail(@)]
  /\ UNCHANGED << experiment, phase, sent, answered, passes, served >>

(* The batch is closed when it is full, or when the window passed with     *)
(* nothing to take.                                                        *)
ClosedWhenFull(s) == Len(batch[s]) = MaxBatch[s]
Closed(s) == Len(batch[s]) = MaxBatch[s] \/ queue[s] = << >>
BeginPass(s) ==
  /\ phase[s] = "filling"
  /\ Closed(s)
  /\ passes' = [passes EXCEPT ![s] = @ + 1]
  /\ served' = [served EXCEPT ![s] = @ + Len(batch[s])]
  /\ phase' = [phase EXCEPT ![s] = "passing"]
  /\ UNCHANGED << experiment, queue, batch, sent, answered >>

EndPass(s) ==
  /\ phase[s] = "passing"
  /\ answered' = [answered EXCEPT ![s] = @ \cup ToSet(batch[s])]
  /\ batch' = [batch EXCEPT ![s] = << >>]
  /\ phase' = [phase EXCEPT ![s] = "waiting"]
  /\ UNCHANGED << experiment, queue, sent, passes, served >>

(* gather() has every answer: stop() cancels the loops, the next           *)
(* experiment begins.                                                      *)
StopServers ==
  /\ UnderWay
  /\ \A s \in Current : Cardinality(answered[s]) = Load[s] /\ phase[s] # "off"
  /\ phase' = [s \in Servers |-> "off"]
  /\ experiment' = experiment + 1
  /\ UNCHANGED << queue, batch, sent, answered, passes, served >>

Serve(s) == TakeFirst(s) \/ Fill(s) \/ BeginPass(s) \/ EndPass(s)

BatchingNext ==
  \/ StartServers
  \/ StopServers
  \/ \E s \in Servers : Infer(s) \/ Serve(s)
-----------------------------------------------------------------------------
(* Every request that was sent and is not answered waits in one place,     *)
(* once: in the queue of the server it was sent to or in its batch; and    *)
(* the counter of a server is of the requests its passes covered           *)
(* (batching_demo.py:65-88).                                               *)
NobodyIsLost ==
  \A s \in Servers :
    LET waiting == queue[s] \o batch[s]
    IN  /\ IsInjective(waiting)
        /\ ToSet(waiting) \cup answered[s] = 1..sent[s]
        /\ ToSet(waiting) \cap answered[s] = {}
        /\ served[s] = Cardinality(answered[s])
                       + (IF phase[s] = "passing" THEN Len(batch[s]) ELSE 0)
        /\ passes[s] <= served[s] /\ served[s] <= passes[s] * MaxBatch[s]
=============================================================================
