-------------------------- MODULE ListenerPipeline --------------------------
(***************************************************************************)
(* The listener gateway of components/listener/listener_service.py with    *)
(* the writer (mother_service/realtimescalewriter.py) and the chain        *)
(* (mother_service/raven_integration.py) it feeds.  One event loop runs    *)
(* the requests, the writer and the background miner: a step is what runs  *)
(* from one suspension to the next.  A request suspends while an event is  *)
(* posted to BubbleDB and while the HTTP client closes.  The queues are    *)
(* unbounded, so putting suspends nobody; mining is synchronous and taking *)
(* from a queue that holds something does not suspend either, so the miner *)
(* keeps the loop until its queue is empty.                                *)
(*                                                                         *)
(* An event is a request with a position in its payload.  Latency,         *)
(* interference, the fields of the events and what BubbleDB holds are left *)
(* out: the pipeline reads nothing back.                                   *)
(***************************************************************************)
EXTENDS Integers, Sequences, FiniteSets, Functions

CONSTANTS
  Request,   \* batches of events that clients send
  Size,      \* Size[r]: number of events in the payload of r
  BatchSize  \* BATCH_SIZE

ASSUME PipelineAssumption ==
  /\ Size \in [Request -> Nat]
  /\ BatchSize \in Nat \ {0}

VARIABLES
  serving,      \* whether the lifespan of the application lasts
  place,        \* where the handler of a request is
  accepted,     \* accepted[r]: events of r given to the writer so far
  queued,       \* length of the queue of the TimeLatticeWriter
  miningQueue,  \* batches for the miner
  pending,      \* pending_mining_tasks
  blocks,       \* batches of the mined blocks, in chain order
  failed,       \* events of batches whose mining gave up
  total         \* total_accepted

queues == <<queued, miningQueue, pending>>
ledger == <<blocks, failed>>
vars   == <<serving, place, accepted, queues, ledger, total>>

EventsOf(r, n) == [i \in 1 .. n |-> <<r, i>>]

-----------------------------------------------------------------------------

Init ==
  /\ serving = TRUE
  /\ place = [r \in Request |-> "new"]
  /\ accepted = [r \in Request |-> 0]
  /\ queued = 0
  /\ miningQueue = <<>>
  /\ pending = 0
  /\ blocks = <<>>
  /\ failed = {}
  /\ total = 0

(* Mutant of Batches: neighbouring batches overlap. *)
BatchesOverlap(events) ==
  [k \in 1 .. (Len(events) + BatchSize - 1) \div BatchSize |->
     SubSeq(events, (k - 1) * BatchSize + 1,
            IF k * BatchSize < Len(events) THEN k * BatchSize + 1 ELSE Len(events))]

(* The slices of BatchSize events, the last one of what remains. *)
Batches(events) ==
  [k \in 1 .. (Len(events) + BatchSize - 1) \div BatchSize |->
     SubSeq(events, (k - 1) * BatchSize + 1,
            IF k * BatchSize < Len(events) THEN k * BatchSize ELSE Len(events))]

(* Mutant of Enqueue: one task is announced, however many batches. *)
EnqueueAsOne(batches) ==
  /\ miningQueue' = miningQueue \o batches
  /\ pending' = pending + 1

Enqueue(batches) ==
  /\ miningQueue' = miningQueue \o batches
  /\ pending' = pending + Len(batches)

(* The next event goes to the writer, and its post to BubbleDB starts.      *)
AcceptNext(r) ==
  /\ accepted' = [accepted EXCEPT ![r] = @ + 1]
  /\ queued' = queued + 1
  /\ total' = total + 1
  /\ place' = [place EXCEPT ![r] = "posting"]

(* The payload is used up: the HTTP client closes.                          *)
Leave(r) ==
  /\ place' = [place EXCEPT ![r] = "closing"]
  /\ UNCHANGED <<accepted, queued, total>>

Proceed(r) ==
  /\ IF accepted[r] < Size[r] THEN AcceptNext(r) ELSE Leave(r)
  /\ UNCHANGED <<serving, miningQueue, pending, ledger>>

(* ingest_batch, to its first suspension *)
Ingest(r) ==
  /\ serving
  /\ place[r] = "new"
  /\ Proceed(r)

(* BubbleDB answers, or the post fails, which is logged: the handler goes on  *)
(* either way.  There is no timeout.                                        *)
Posted(r) ==
  /\ place[r] = "posting"
  /\ Proceed(r)

(* The batches go to the miner, the client is answered. *)
Answer(r) ==
  /\ place[r] = "closing"
  /\ Enqueue(Batches(EventsOf(r, accepted[r])))
  /\ place' = [place EXCEPT ![r] = "answered"]
  /\ UNCHANGED <<serving, accepted, queued, ledger, total>>

(* Mutant of Selections: the batch queued last is taken first. *)
SelectionsLastFirst ==
  {order \in UNION {[1 .. n -> DOMAIN miningQueue] : n \in 0 .. Len(miningQueue)} :
     \A j, k \in DOMAIN order : j < k => order[j] > order[k]}

(* The places in miningQueue whose batches become blocks, as they are taken. *)
Selections ==
  {order \in UNION {[1 .. n -> DOMAIN miningQueue] : n \in 0 .. Len(miningQueue)} :
     \A j, k \in DOMAIN order : j < k => order[j] < order[k]}

(* The batches at some places are mined, the others are given up.           *)
SettleBatches(order) ==
  /\ blocks' = blocks \o [k \in DOMAIN order |-> miningQueue[order[k]]]
  /\ failed' = failed \union
       UNION {Range(miningQueue[k]) : k \in DOMAIN miningQueue \ Range(order)}

(* Mutant of Mine: it waits for a full batch. *)
MineFullOnly ==
  /\ serving
  /\ \E k \in DOMAIN miningQueue : Len(miningQueue[k]) = BatchSize
  /\ \E order \in Selections : SettleBatches(order)
  /\ miningQueue' = <<>>
  /\ pending' = pending - Len(miningQueue)
  /\ UNCHANGED <<serving, place, accepted, queued, total>>

(* background_miner, from a queue that holds something to an empty one.      *)
(* mine_block appends a block, or gives up after a million nonces, and then  *)
(* the batch is dropped.                                                    *)
Mine ==
  /\ serving
  /\ miningQueue # <<>>
  /\ \E order \in Selections : SettleBatches(order)
  /\ miningQueue' = <<>>
  /\ pending' = pending - Len(miningQueue)
  /\ UNCHANGED <<serving, place, accepted, queued, total>>

(* Mutant of Write: it takes without looking. *)
WriteBlindly ==
  /\ serving
  /\ queued' = queued - 1
  /\ UNCHANGED <<serving, place, accepted, miningQueue, pending, ledger, total>>

(* One turn of _writer_loop: the event is taken, and nothing else is done.  *)
Write ==
  /\ serving
  /\ queued > 0
  /\ queued' = queued - 1
  /\ UNCHANGED <<serving, place, accepted, miningQueue, pending, ledger, total>>

(* The server lets the requests under way end, then the miner is cancelled   *)
(* and the writer stopped, whatever their queues hold.                      *)
Shutdown ==
  /\ serving
  /\ \A r \in Request : place[r] \notin {"posting", "closing"}
  /\ serving' = FALSE
  /\ UNCHANGED <<place, accepted, queues, ledger, total>>

Next ==
  \/ \E r \in Request : Ingest(r) \/ Posted(r) \/ Answer(r)
  \/ Mine
  \/ Write
  \/ Shutdown

Spec == Init /\ [][Next]_vars

(* The loop runs what is ready, and BubbleDB answers or refuses each post.   *)
FairSpec ==
  /\ Spec
  /\ \A r \in Request : WF_vars(Posted(r)) /\ WF_vars(Answer(r))
  /\ WF_vars(Mine)
  /\ WF_vars(Write)

-----------------------------------------------------------------------------
(* Properties. *)

(* The counts of ingest_batch, background_miner and the writer: pending does *)
(* not fall below zero, no more events are accepted than a payload has, and  *)
(* only accepted events reach the miner.                                     *)
TypeOK ==
  /\ serving \in BOOLEAN
  /\ place \in [Request -> {"new", "posting", "closing", "answered"}]
  /\ \A r \in Request : accepted[r] \in 0 .. Size[r]
  /\ \A e \in failed : e[2] \in 1 .. accepted[e[1]]
  /\ queued \in 0 .. total
  /\ pending \in Nat

Batched(e) == {k \in DOMAIN miningQueue : e \in Range(miningQueue[k])}
Mined(e)   == {k \in DOMAIN blocks : e \in Range(blocks[k])}
GivenUp(e) == {k \in {e} : e \in failed}

(* ingest_batch, background_miner: once a request is answered, each event it *)
(* accepted waits in one batch, or is in one block, or its mining gave up --  *)
(* never two of these and never none -- and before that it is in none.       *)
EventHasOnePlace ==
  \A r \in Request : \A i \in 1 .. accepted[r] :
    LET e == <<r, i>>
    IN  Cardinality(Batched(e)) + Cardinality(Mined(e)) + Cardinality(GivenUp(e))
          = (IF place[r] = "answered" THEN 1 ELSE 0)

(* metrics["pending_mining_tasks"] (:227, :82): what /metrics and the answers *)
(* report is the number of batches the miner still has to take.              *)
PendingIsQueue == pending = Len(miningQueue)

(* ingest_batch, mine_block: the chain, and behind it the queue, hold the    *)
(* events of a request in the order of its payload, however requests, posts  *)
(* and mining interleave.                                                    *)
ChainKeepsOrder ==
  LET line == blocks \o miningQueue
  IN  \A k, l \in DOMAIN line : \A a \in Range(line[k]), b \in Range(line[l]) :
        k < l /\ a[1] = b[1] => a[2] < b[2]

(* If BubbleDB answers or refuses every post, a request that came in is       *)
(* answered, and each of its events is mined or given up in the end, unless   *)
(* the server shuts down first.                                              *)
EventsSettle ==
  \A r \in Request :
    place[r] # "new" ~>
      \/ ~ serving
      \/ /\ place[r] = "answered"
         /\ \A i \in 1 .. accepted[r] :
              <<r, i>> \in failed \/ Mined(<<r, i>>) # {}

=============================================================================
