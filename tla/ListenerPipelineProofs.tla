----------------------- MODULE ListenerPipelineProofs -----------------------
(* Proofs about ListenerPipeline, for every set of requests, all payloads   *)
(* and every batch size.                                                    *)
EXTENDS ListenerPipeline, SequenceTheorems, FiniteSetTheorems, TLAPS

(* The events that ingest_batch has given to the writer. *)
Accepted == {e \in Request \X Nat : e[2] \in 1 .. accepted[e[1]]}

(* What every step keeps: the counts, and that queue and failures hold only *)
(* accepted events, which makes the batches sequences and pending a length. *)
IInv ==
  /\ serving \in BOOLEAN
  /\ place \in [Request -> {"new", "posting", "closing", "answered"}]
  /\ accepted \in [Request -> Nat]
  /\ \A r \in Request : accepted[r] \in 0 .. Size[r]
  /\ queued \in Nat
  /\ total \in Nat
  /\ queued <= total
  /\ miningQueue \in Seq(Seq(Accepted))
  /\ failed \subseteq Accepted
  /\ pending = Len(miningQueue)

(* Slices of a sequence (the range of ingest_batch, :215-217) are sequences. *)
LEMMA BatchesAreSeqs ==
  ASSUME NEW S, NEW events \in Seq(S)
  PROVE  Batches(events) \in Seq(Seq(S))
<1> DEFINE n == (Len(events) + BatchSize - 1) \div BatchSize
           end(k) == IF k * BatchSize < Len(events) THEN k * BatchSize ELSE Len(events)
<1>1. BatchSize \in Nat /\ BatchSize >= 1 /\ Len(events) \in Nat
  BY PipelineAssumption
<1>2. n \in Int
  BY <1>1
<1>3. ASSUME NEW k \in 1 .. n
      PROVE  SubSeq(events, (k - 1) * BatchSize + 1, end(k)) \in Seq(S)
  <2>0. k \in Int /\ k >= 1 /\ k - 1 \in Nat
    BY <1>2, SMT
  <2>1. (k - 1) * BatchSize \in Nat
    BY <1>1, <2>0, SMT
  <2>2. end(k) \in Int /\ end(k) <= Len(events)
    BY <1>1, <2>0, SMT
  <2>3. (k - 1) * BatchSize + 1 \in 1 .. Len(events) + 1 \/ (k - 1) * BatchSize + 1 > end(k)
    BY <1>1, <2>1, <2>2, SMT
  <2>4. \A i \in (k - 1) * BatchSize + 1 .. end(k) : i \in 1 .. Len(events)
    BY <1>1, <2>1, <2>2, SMT
  <2> QED
    BY <1>1, <2>1, <2>2, <2>4, SubSeqProperties
<1>4. n \in Nat
  BY <1>1, SMT
<1>5. [k \in 1 .. n |-> SubSeq(events, (k - 1) * BatchSize + 1, end(k))] \in Seq(Seq(S))
  <2> DEFINE slice(k) == SubSeq(events, (k - 1) * BatchSize + 1, end(k))
  <2>1. \A k \in 1 .. n : slice(k) \in Seq(S)
    BY <1>3
  <2>2. [k \in 1 .. n |-> slice(k)] \in Seq(Seq(S))
    <3> HIDE DEF n, slice
    <3> QED
      BY <2>1, <1>4
  <2> QED
    BY <2>2
<1> QED
  BY <1>5 DEF Batches

(* A queue of accepted events stays one when more events are accepted. *)
LEMMA SeqsGrow ==
  ASSUME NEW S, NEW T, S \subseteq T, NEW q \in Seq(Seq(S))
  PROVE  q \in Seq(Seq(T))
<1>1. Seq(S) \subseteq Seq(T)
  OBVIOUS
<1> QED
  BY <1>1

LEMMA InitIInv == Init => IInv
BY PipelineAssumption DEF Init, IInv

(* The next event of a payload, or its end, keeps the invariant. *)
LEMMA ProceedIInv ==
  ASSUME IInv, NEW r \in Request, Proceed(r)
  PROVE  IInv'
<1> USE DEF IInv
<1>1. CASE accepted[r] < Size[r] /\ AcceptNext(r)
  <2>1. accepted' = [accepted EXCEPT ![r] = @ + 1] /\ queued' = queued + 1 /\ total' = total + 1
        /\ place' = [place EXCEPT ![r] = "posting"]
    BY <1>1 DEF AcceptNext
  <2>2. accepted' \in [Request -> Nat] /\ \A q \in Request : accepted'[q] \in 0 .. Size[q]
    <3>1. accepted \in [Request -> Nat] /\ Size \in [Request -> Nat]
          /\ \A q \in Request : accepted[q] \in 0 .. Size[q]
      BY PipelineAssumption
    <3>2. accepted[r] + 1 \in 0 .. Size[r] /\ accepted[r] + 1 \in Nat
      BY <1>1, <3>1
    <3>3. \A q \in Request : accepted'[q] = IF q = r THEN accepted[r] + 1 ELSE accepted[q]
      BY <2>1, <3>1
    <3>4. accepted' \in [Request -> Nat]
      BY <2>1, <3>1, <3>2
    <3> QED
      BY <3>1, <3>2, <3>3, <3>4
  <2>3. \A q \in Request : accepted[q] <= accepted'[q]
    <3>1. accepted \in [Request -> Nat]
      OBVIOUS
    <3>2. \A q \in Request : accepted'[q] = IF q = r THEN accepted[r] + 1 ELSE accepted[q]
      BY <2>1, <3>1
    <3>3. accepted[r] + 1 >= accepted[r] /\ \A q \in Request : accepted[q] >= accepted[q]
      BY <3>1
    <3> QED
      BY <3>1, <3>2, <3>3
  <2>4. Accepted \subseteq Accepted'
    <3>1. accepted \in [Request -> Nat]
      OBVIOUS
    <3>2. \A q \in Request : 1 .. accepted[q] \subseteq 1 .. accepted'[q]
      BY <2>2, <2>3, <3>1
    <3> QED
      BY <3>2 DEF Accepted
  <2>5. miningQueue' \in Seq(Seq(Accepted'))
    BY <2>4, SeqsGrow DEF Proceed
  <2> QED
    BY <2>1, <2>2, <2>4, <2>5 DEF Proceed, ledger
<1>2. CASE ~(accepted[r] < Size[r]) /\ Leave(r)
  <2>1. UNCHANGED <<accepted, queued, total, serving, miningQueue, pending, failed>>
    BY <1>2 DEF Leave, Proceed, ledger
  <2>2. Accepted' = Accepted
    BY <2>1 DEF Accepted
  <2>3. place' \in [Request -> {"new", "posting", "closing", "answered"}]
    BY <1>2 DEF Leave
  <2> QED
    BY <2>1, <2>2, <2>3
<1> QED
  BY <1>1, <1>2 DEF Proceed

LEMMA NextIInv ==
  ASSUME IInv, [Next]_vars
  PROVE  IInv'
<1>1. CASE UNCHANGED vars
  <2>1. UNCHANGED <<serving, place, accepted, queued, miningQueue, pending, failed, total>>
    BY <1>1 DEF vars, queues, ledger
  <2> QED
    BY <2>1 DEF IInv, Accepted
<1>2. ASSUME NEW r \in Request, Ingest(r) \/ Posted(r)
      PROVE  IInv'
  BY <1>2, ProceedIInv DEF Ingest, Posted
<1>3. ASSUME NEW r \in Request, Answer(r)
      PROVE  IInv'
  <2> DEFINE events == EventsOf(r, accepted[r])
  <2>1. UNCHANGED <<serving, accepted, queued, failed, total>>
    BY <1>3 DEF Answer, ledger
  <2>2. Accepted' = Accepted
    BY <2>1 DEF Accepted
  <2>3. events \in Seq(Accepted)
    <3>1. accepted[r] \in Nat
      BY DEF IInv
    <3>2. \A i \in 1 .. accepted[r] : <<r, i>> \in Accepted
      BY <3>1 DEF Accepted
    <3> QED
      BY <3>1, <3>2 DEF EventsOf
  <2>4. Batches(events) \in Seq(Seq(Accepted))
    BY <2>3, BatchesAreSeqs
  <2>5. miningQueue' = miningQueue \o Batches(events) /\ pending' = pending + Len(Batches(events))
    BY <1>3 DEF Answer, Enqueue
  <2>6. miningQueue' \in Seq(Seq(Accepted)) /\ pending' = Len(miningQueue')
    <3> HIDE DEF events
    <3>1. miningQueue \in Seq(Seq(Accepted)) /\ pending = Len(miningQueue)
      BY DEF IInv
    <3> QED
      BY <2>4, <2>5, <3>1, ConcatProperties
  <2>7. place' \in [Request -> {"new", "posting", "closing", "answered"}]
    BY <1>3 DEF Answer, IInv
  <2> QED
    BY <2>1, <2>2, <2>6, <2>7 DEF IInv
<1>4. CASE Mine
  <2>1. UNCHANGED <<serving, place, accepted, queued, total>> /\ miningQueue' = <<>>
        /\ pending' = pending - Len(miningQueue)
    BY <1>4 DEF Mine
  <2>2. Accepted' = Accepted
    BY <2>1 DEF Accepted
  <2>3. \A k \in DOMAIN miningQueue : Range(miningQueue[k]) \subseteq Accepted
    BY DEF IInv, Range
  <2>4. failed' \subseteq Accepted
    <3>1. PICK order \in Selections :
            failed' = failed \union
              UNION {Range(miningQueue[k]) : k \in DOMAIN miningQueue \ Range(order)}
      BY <1>4 DEF Mine, SettleBatches
    <3> QED
      BY <2>3, <3>1 DEF IInv
  <2> QED
    BY <2>1, <2>2, <2>4 DEF IInv
<1>5. CASE Write
  <2>1. UNCHANGED <<serving, place, accepted, miningQueue, pending, failed, total>>
        /\ queued > 0 /\ queued' = queued - 1
    BY <1>5 DEF Write, ledger
  <2> QED
    BY <2>1 DEF IInv, Accepted
<1>6. CASE Shutdown
  <2>1. UNCHANGED <<place, accepted, queued, miningQueue, pending, failed, total>> /\ serving' = FALSE
    BY <1>6 DEF Shutdown, queues, ledger
  <2> QED
    BY <2>1 DEF IInv, Accepted
<1> QED
  BY <1>1, <1>2, <1>3, <1>4, <1>5, <1>6 DEF Next

LEMMA IInvHolds == Spec => []IInv
<1>1. IInv /\ [Next]_vars => IInv'
  BY NextIInv
<1> QED
  BY InitIInv, <1>1, PTL DEF Spec

(* ingest_batch, background_miner and the writer keep their counts, for any   *)
(* number of clients and events.                                             *)
THEOREM TypeCorrect == Spec => []TypeOK
<1>1. IInv => TypeOK
  BY DEF IInv, TypeOK, Accepted
<1> QED
  BY IInvHolds, <1>1, PTL

(* pending_mining_tasks is the length of the mining queue, for any number of   *)
(* clients, events and batch size.                                           *)
THEOREM PendingIsQueueHolds == Spec => []PendingIsQueue
<1>1. IInv => PendingIsQueue
  BY DEF IInv, PendingIsQueue
<1> QED
  BY IInvHolds, <1>1, PTL

-----------------------------------------------------------------------------
(* Sequences of batches: what they hold, and in which order. *)

Holds(q, e) == \E k \in DOMAIN q : e \in Range(q[k])

(* Events of a request that q holds are in the order of the payload. *)
Ordered(q) ==
  \A k, l \in DOMAIN q : \A x \in Range(q[k]), y \in Range(q[l]) :
    k < l /\ x[1] = y[1] => x[2] < y[2]

(* Events of a request that p holds come before those of it that q holds. *)
Precedes(p, q) ==
  \A x, y : Holds(p, x) /\ Holds(q, y) /\ x[1] = y[1] => x[2] < y[2]

LEMMA HeldIsMember ==
  ASSUME NEW S, NEW q \in Seq(Seq(S)), NEW k \in DOMAIN q, NEW e \in Range(q[k])
  PROVE  e \in S
<1>1. q[k] \in Seq(S)
  OBVIOUS
<1> QED
  BY <1>1 DEF Range

LEMMA HoldsConcat ==
  ASSUME NEW S, NEW p \in Seq(S), NEW q \in Seq(S), NEW e
  PROVE  Holds(p \o q, e) <=> Holds(p, e) \/ Holds(q, e)
<1>1. /\ DOMAIN p = 1 .. Len(p) /\ DOMAIN q = 1 .. Len(q) /\ Len(p) \in Nat /\ Len(q) \in Nat
      /\ DOMAIN (p \o q) = 1 .. Len(p) + Len(q)
  BY ConcatProperties
<1>2. \A i \in 1 .. Len(p) + Len(q) : (p \o q)[i] = IF i <= Len(p) THEN p[i] ELSE q[i - Len(p)]
  BY ConcatProperties
<1>3. ASSUME Holds(p \o q, e) PROVE Holds(p, e) \/ Holds(q, e)
  <2>1. PICK k \in 1 .. Len(p) + Len(q) : e \in Range((p \o q)[k])
    BY <1>1, <1>3 DEF Holds
  <2>2. CASE k <= Len(p)
    BY <1>1, <1>2, <2>1, <2>2 DEF Holds
  <2>3. CASE ~(k <= Len(p))
    <3>1. k - Len(p) \in DOMAIN q /\ (p \o q)[k] = q[k - Len(p)]
      BY <1>1, <1>2, <2>1, <2>3
    <3> QED
      BY <2>1, <3>1 DEF Holds
  <2> QED
    BY <2>2, <2>3
<1>4. ASSUME Holds(p, e) PROVE Holds(p \o q, e)
  <2>1. PICK k \in DOMAIN p : e \in Range(p[k])
    BY <1>4 DEF Holds
  <2>2. k \in DOMAIN (p \o q) /\ (p \o q)[k] = p[k]
    BY <1>1, <1>2, <2>1
  <2> QED
    BY <2>1, <2>2 DEF Holds
<1>5. ASSUME Holds(q, e) PROVE Holds(p \o q, e)
  <2>1. PICK k \in DOMAIN q : e \in Range(q[k])
    BY <1>5 DEF Holds
  <2>2. k + Len(p) \in DOMAIN (p \o q) /\ (p \o q)[k + Len(p)] = q[k]
    BY <1>1, <1>2, <2>1
  <2> QED
    BY <2>1, <2>2 DEF Holds
<1> QED
  BY <1>3, <1>4, <1>5

LEMMA OrderedConcat ==
  ASSUME NEW S, NEW p \in Seq(S), NEW q \in Seq(S),
         Ordered(p), Ordered(q), Precedes(p, q)
  PROVE  Ordered(p \o q)
<1> DEFINE n == Len(p)
<1>1. /\ DOMAIN p = 1 .. n /\ DOMAIN q = 1 .. Len(q) /\ n \in Nat /\ Len(q) \in Nat
      /\ DOMAIN (p \o q) = 1 .. n + Len(q)
  BY ConcatProperties
<1>2. \A i \in 1 .. n + Len(q) : (p \o q)[i] = IF i <= n THEN p[i] ELSE q[i - n]
  BY ConcatProperties
<1> SUFFICES ASSUME NEW k \in 1 .. n + Len(q), NEW l \in 1 .. n + Len(q), k < l,
                    NEW x \in Range((p \o q)[k]), NEW y \in Range((p \o q)[l]), x[1] = y[1]
             PROVE  x[2] < y[2]
  BY <1>1 DEF Ordered
<1> HIDE DEF n
<1>3. CASE l <= n
  <2>1. k \in DOMAIN p /\ l \in DOMAIN p /\ (p \o q)[k] = p[k] /\ (p \o q)[l] = p[l]
    BY <1>1, <1>2, <1>3
  <2> QED
    BY <2>1 DEF Ordered
<1>4. CASE n < k
  <2>1. /\ k - n \in DOMAIN q /\ l - n \in DOMAIN q /\ k - n < l - n
        /\ (p \o q)[k] = q[k - n] /\ (p \o q)[l] = q[l - n]
    BY <1>1, <1>2, <1>4
  <2> QED
    BY <2>1 DEF Ordered
<1>5. CASE k <= n /\ n < l
  <2>1. /\ k \in DOMAIN p /\ l - n \in DOMAIN q
        /\ (p \o q)[k] = p[k] /\ (p \o q)[l] = q[l - n]
    BY <1>1, <1>2, <1>5
  <2>2. Holds(p, x) /\ Holds(q, y)
    BY <2>1 DEF Holds
  <2> QED
    BY <2>2 DEF Precedes
<1> QED
  BY <1>1, <1>3, <1>4, <1>5

(* In an ordered sequence an event is in one batch only. *)
LEMMA OneBatch ==
  ASSUME NEW R, NEW q \in Seq(Seq(R \X Nat)), Ordered(q), NEW k \in DOMAIN q, NEW l \in DOMAIN q,
         NEW e, e \in Range(q[k]), e \in Range(q[l])
  PROVE  k = l
<1>1. e \in R \X Nat
  BY HeldIsMember
<1>2. ~(e[2] < e[2])
  BY <1>1
<1>3. k \in Nat /\ l \in Nat
  OBVIOUS
<1>4. ~(k < l) /\ ~(l < k)
  BY <1>2 DEF Ordered
<1> QED
  BY <1>3, <1>4

(* The slice k of the events of r goes from the end of the slice before, or  *)
(* short of that, to at most k * BatchSize.                                  *)
LEMMA SliceEvents ==
  ASSUME NEW r \in Request, NEW n \in Nat, NEW k \in DOMAIN Batches(EventsOf(r, n)), NEW e
  PROVE  e \in Range(Batches(EventsOf(r, n))[k]) <=>
           \E i \in 1 .. n : e = <<r, i>> /\ (k - 1) * BatchSize < i /\ i <= k * BatchSize
<1> DEFINE events == EventsOf(r, n)
           m == (n + BatchSize - 1) \div BatchSize
<1>1. events \in Seq({r} \X (1 .. n)) /\ Len(events) = n /\ \A i \in 1 .. n : events[i] = <<r, i>>
  BY DEF EventsOf
<1>2. BatchSize \in Nat /\ BatchSize >= 1
  BY PipelineAssumption
<1>3. k \in 1 .. m /\ Batches(events)[k] =
        SubSeq(events, (k - 1) * BatchSize + 1,
               IF k * BatchSize < n THEN k * BatchSize ELSE n)
  BY <1>1 DEF Batches
<1>4. m \in Int
  BY <1>2
<1>5. k \in Nat /\ k >= 1
  BY <1>3, <1>4
<1>6. PICK a \in Nat : a = (k - 1) * BatchSize
  BY <1>2, <1>5
<1>7. k * BatchSize = a + BatchSize
  BY <1>2, <1>5, <1>6
<1>8. PICK b \in Int : b = IF k * BatchSize < n THEN k * BatchSize ELSE n
  BY <1>2, <1>6, <1>7
<1>9. b \in Nat /\ b <= n /\ b <= a + BatchSize /\ (b < n => b = a + BatchSize)
  BY <1>2, <1>6, <1>7, <1>8
<1>10. Batches(events)[k] = SubSeq(events, a + 1, b)
  BY <1>3, <1>6, <1>8
<1> DEFINE slice == SubSeq(events, a + 1, b)
<1>11. /\ slice \in Seq({r} \X (1 .. n)) /\ Len(slice) = IF a + 1 <= b THEN b - a ELSE 0
       /\ \A i \in 1 .. b - a : slice[i] = <<r, a + i>>
  <2>1. a + 1 \in Int /\ b \in Int
    BY <1>6, <1>9
  <2>2. \A i \in a + 1 .. b : i \in 1 .. n
    BY <1>6, <1>9
  <2>3. \A i \in a + 1 .. b : events[i] \in {r} \X (1 .. n)
    BY <1>1, <2>2
  <2>4. /\ slice \in Seq({r} \X (1 .. n))
        /\ Len(slice) = IF a + 1 <= b THEN b - (a + 1) + 1 ELSE 0
        /\ \A i \in 1 .. b - (a + 1) + 1 : slice[i] = events[(a + 1) + i - 1]
    <3> HIDE DEF events
    <3> QED
      BY <2>1, <2>3, SubSeqProperties
  <2>5. \A i \in 1 .. b - a : events[(a + 1) + i - 1] = <<r, a + i>>
    <3>1. \A i \in 1 .. b - a : (a + 1) + i - 1 = a + i /\ a + i \in 1 .. n
      BY <1>6, <1>9
    <3> QED
      BY <1>1, <3>1
  <2>6. b - (a + 1) + 1 = b - a
    BY <1>6, <1>9
  <2> HIDE DEF events, slice
  <2> QED
    BY <2>4, <2>5, <2>6
<1> HIDE DEF events, slice, m
<1>12. DOMAIN slice = 1 .. b - a
  BY <1>6, <1>9, <1>11
<1>13. ASSUME e \in Range(slice)
       PROVE  \E i \in 1 .. n : e = <<r, i>> /\ a < i /\ i <= a + BatchSize
  <2>1. PICK j \in 1 .. b - a : e = slice[j]
    BY <1>12, <1>13 DEF Range
  <2>2. e = <<r, a + j>>
    BY <1>11, <2>1
  <2>3. a + j \in 1 .. n /\ a < a + j /\ a + j <= a + BatchSize
    BY <1>2, <1>6, <1>9, <2>1
  <2> QED
    BY <2>2, <2>3
<1>14. ASSUME NEW i \in 1 .. n, e = <<r, i>>, a < i, i <= a + BatchSize
       PROVE  e \in Range(slice)
  <2>1. i - a \in 1 .. b - a /\ a + (i - a) = i
    BY <1>2, <1>6, <1>9, <1>14
  <2>2. slice[i - a] = e
    BY <1>11, <1>14, <2>1
  <2> QED
    BY <1>12, <2>1, <2>2 DEF Range
<1>15. Batches(EventsOf(r, n))[k] = slice
  BY <1>10 DEF events, slice
<1> QED
  BY <1>6, <1>7, <1>13, <1>14, <1>15

(* The batches of a request hold each of its events, and keep their order.  *)
LEMMA BatchesHold ==
  ASSUME NEW r \in Request, NEW n \in Nat
  PROVE  \A e : Holds(Batches(EventsOf(r, n)), e) <=> \E i \in 1 .. n : e = <<r, i>>
<1> DEFINE bs == Batches(EventsOf(r, n))
           m == (n + BatchSize - 1) \div BatchSize
<1>1. BatchSize \in Nat /\ BatchSize >= 1
  BY PipelineAssumption
<1>2. DOMAIN bs = 1 .. m
  BY DEF Batches, EventsOf
<1>3. ASSUME NEW e, Holds(bs, e) PROVE \E i \in 1 .. n : e = <<r, i>>
  BY <1>3, SliceEvents DEF Holds
<1>4. ASSUME NEW i \in 1 .. n PROVE Holds(bs, <<r, i>>)
  <2>1. i - 1 \in Nat /\ n + BatchSize - 1 \in Nat
    BY <1>1
  <2>2. PICK q \in Nat : q = (i - 1) \div BatchSize
    BY <1>1, <2>1
  <2>3. q * BatchSize <= i - 1 /\ i - 1 < q * BatchSize + BatchSize
    BY <1>1, <2>1, <2>2
  <2>4. m \in Nat /\ n + BatchSize - 1 < m * BatchSize + BatchSize
    BY <1>1, <2>1
  <2>5. q < m
    <3> SUFFICES ASSUME m <= q PROVE FALSE
      BY <2>2, <2>4
    <3> HIDE DEF m
    <3>1. m * BatchSize <= q * BatchSize
      BY <1>1, <2>2, <2>4
    <3>2. m * BatchSize \in Int /\ q * BatchSize \in Int
      BY <1>1, <2>2, <2>4
    <3> QED
      BY <1>1, <2>3, <2>4, <3>1, <3>2
  <2>6. q + 1 \in DOMAIN bs
    BY <1>2, <2>2, <2>4, <2>5
  <2>7. ((q + 1) - 1) * BatchSize < i /\ i <= (q + 1) * BatchSize
    BY <1>1, <2>2, <2>3
  <2>8. <<r, i>> \in Range(bs[q + 1])
    BY <2>6, <2>7, SliceEvents
  <2> QED
    BY <2>6, <2>8 DEF Holds
<1> QED
  BY <1>3, <1>4

LEMMA BatchesOrdered ==
  ASSUME NEW r \in Request, NEW n \in Nat
  PROVE  Ordered(Batches(EventsOf(r, n)))
<1> DEFINE bs == Batches(EventsOf(r, n))
<1> SUFFICES ASSUME NEW k \in DOMAIN bs, NEW l \in DOMAIN bs, k < l,
                    NEW x \in Range(bs[k]), NEW y \in Range(bs[l])
             PROVE  x[2] < y[2]
  BY DEF Ordered
<1>1. BatchSize \in Nat /\ BatchSize >= 1
  BY PipelineAssumption
<1>2. PICK i \in 1 .. n : x = <<r, i>> /\ (k - 1) * BatchSize < i /\ i <= k * BatchSize
  BY SliceEvents
<1>3. PICK j \in 1 .. n : y = <<r, j>> /\ (l - 1) * BatchSize < j /\ j <= l * BatchSize
  BY SliceEvents
<1>4. k \in Nat /\ l \in Nat
  <2>1. DOMAIN bs = 1 .. (n + BatchSize - 1) \div BatchSize
    BY DEF Batches, EventsOf
  <2>2. (n + BatchSize - 1) \div BatchSize \in Int
    BY <1>1
  <2> QED
    BY <2>1, <2>2
<1>5. k * BatchSize <= (l - 1) * BatchSize
  BY <1>1, <1>4
<1>6. k * BatchSize \in Int /\ (l - 1) * BatchSize \in Int
  BY <1>1, <1>4
<1> HIDE DEF bs
<1> QED
  BY <1>2, <1>3, <1>5, <1>6

-----------------------------------------------------------------------------
(* Where the events are. *)

Somewhere(e) == Holds(blocks, e) \/ Holds(miningQueue, e) \/ e \in failed

(* The events of the answered requests, and no other, are in the chain, in  *)
(* the queue or given up, and none is given up and also in one of the two;   *)
(* chain and queue are ordered, one after the other.                         *)
LineInv ==
  /\ blocks \in Seq(Seq(Request \X Nat))
  /\ Ordered(blocks) /\ Ordered(miningQueue) /\ Precedes(blocks, miningQueue)
  /\ \A e : Somewhere(e) <=> e \in Accepted /\ place[e[1]] = "answered"
  /\ \A e \in failed : ~Holds(blocks, e) /\ ~Holds(miningQueue, e)

LEMMA QueueIsTyped ==
  ASSUME IInv
  PROVE  miningQueue \in Seq(Seq(Request \X Nat))
<1>1. Accepted \subseteq Request \X Nat
  BY DEF Accepted
<1> QED
  BY <1>1, SeqsGrow DEF IInv

LEMMA InitLine == Init => LineInv
<1> SUFFICES ASSUME Init PROVE LineInv
  OBVIOUS
<1>1. blocks = <<>> /\ miningQueue = <<>> /\ failed = {} /\ place = [r \in Request |-> "new"]
  BY DEF Init
<1>2. \A e : ~Holds(<<>>, e)
  BY DEF Holds
<1>3. Ordered(<<>>) /\ Precedes(<<>>, <<>>) /\ <<>> \in Seq(Seq(Request \X Nat))
  BY <1>2 DEF Ordered, Precedes
<1>4. \A e \in Accepted : place[e[1]] # "answered"
  BY <1>1 DEF Accepted
<1> QED
  BY <1>1, <1>2, <1>3, <1>4 DEF LineInv, Somewhere

(* A handler that goes on has given nothing to the miner yet. *)
LEMMA ProceedLine ==
  ASSUME IInv, LineInv, NEW r \in Request, place[r] # "answered", Proceed(r)
  PROVE  LineInv'
<1>1. /\ UNCHANGED <<blocks, failed, miningQueue>>
      /\ place'[r] # "answered" /\ \A q \in Request : q # r => place'[q] = place[q]
      /\ \A q \in Request : q # r => accepted'[q] = accepted[q]
  <2>1. place \in [Request -> {"new", "posting", "closing", "answered"}]
        /\ accepted \in [Request -> Nat]
    BY DEF IInv
  <2> QED
    BY <2>1 DEF Proceed, AcceptNext, Leave, ledger
<1>2. \A e : Somewhere(e)' <=> Somewhere(e)
  BY <1>1 DEF Somewhere
<1>3. \A e : e \in Accepted' /\ place'[e[1]] = "answered"
               <=> e \in Accepted /\ place[e[1]] = "answered"
  <2> TAKE e
  <2>1. CASE e \in Request \X Nat /\ e[1] = r
    BY <1>1, <2>1
  <2>2. CASE e \in Request \X Nat /\ e[1] # r
    BY <1>1, <2>2 DEF Accepted
  <2>3. CASE e \notin Request \X Nat
    BY <2>3 DEF Accepted
  <2> QED
    BY <2>1, <2>2, <2>3
<1> QED
  BY <1>1, <1>2, <1>3 DEF LineInv

(* The batches of an answered request go behind everything, once.           *)
LEMMA AnswerLine ==
  ASSUME IInv, LineInv, NEW r \in Request, Answer(r)
  PROVE  LineInv'
<1> DEFINE bs == Batches(EventsOf(r, accepted[r]))
<1>1. /\ UNCHANGED <<blocks, failed, accepted>> /\ place[r] # "answered"
      /\ miningQueue' = miningQueue \o bs
      /\ place' = [place EXCEPT ![r] = "answered"]
  BY DEF Answer, Enqueue, ledger
<1>2. accepted[r] \in Nat /\ place \in [Request -> {"new", "posting", "closing", "answered"}]
  BY DEF IInv
<1>3. \A e : Holds(bs, e) <=> \E i \in 1 .. accepted[r] : e = <<r, i>>
  BY <1>2, BatchesHold
<1>4. \A e : Holds(bs, e) <=> e \in Accepted /\ e[1] = r
  BY <1>2, <1>3 DEF Accepted
<1>5. Ordered(bs)
  BY <1>2, BatchesOrdered
<1>6. bs \in Seq(Seq(Request \X Nat))
  <2>1. EventsOf(r, accepted[r]) \in Seq(Request \X Nat)
    BY <1>2 DEF EventsOf
  <2> QED
    BY <2>1, BatchesAreSeqs
<1>7. miningQueue \in Seq(Seq(Request \X Nat))
  BY QueueIsTyped
<1>8. \A e : Somewhere(e) => e[1] # r
  BY <1>1 DEF LineInv
<1> HIDE DEF bs
<1>9. \A e : Holds(miningQueue', e) <=> Holds(miningQueue, e) \/ Holds(bs, e)
  BY <1>1, <1>6, <1>7, HoldsConcat
<1>10. Precedes(miningQueue, bs) /\ Precedes(blocks, bs)
  BY <1>4, <1>8 DEF Precedes, Somewhere
<1>11. Ordered(miningQueue')
  <2>1. Ordered(miningQueue)
    BY DEF LineInv
  <2> QED
    BY <1>1, <1>5, <1>6, <1>7, <1>10, <2>1, OrderedConcat
<1>12. Precedes(blocks, miningQueue')
  BY <1>9, <1>10 DEF Precedes, LineInv
<1>13. Accepted' = Accepted /\ blocks' = blocks /\ failed' = failed
  BY <1>1 DEF Accepted
<1>14. \A e : Somewhere(e)' <=> Somewhere(e) \/ (e \in Accepted /\ e[1] = r)
  BY <1>4, <1>9, <1>13 DEF Somewhere
<1>15. \A e \in Accepted : place'[e[1]] = IF e[1] = r THEN "answered" ELSE place[e[1]]
  BY <1>1, <1>2 DEF Accepted
<1>16. \A e : Somewhere(e)' <=> e \in Accepted' /\ place'[e[1]] = "answered"
  <2>1. \A e : Somewhere(e) <=> e \in Accepted /\ place[e[1]] = "answered"
    BY DEF LineInv
  <2> QED
    BY <1>13, <1>14, <1>15, <2>1
<1>17. \A e \in failed' : ~Holds(blocks', e) /\ ~Holds(miningQueue', e)
  <2>1. \A e \in failed : e[1] # r /\ ~Holds(blocks, e) /\ ~Holds(miningQueue, e)
    BY <1>8 DEF LineInv, Somewhere
  <2> QED
    BY <1>4, <1>9, <1>13, <2>1
<1> QED
  BY <1>11, <1>12, <1>13, <1>16, <1>17 DEF LineInv

(* The miner takes the queue in order: what it mines goes behind the chain, *)
(* and what it gives up is in no batch it mines.                             *)
LEMMA MineLine ==
  ASSUME IInv, LineInv, Mine
  PROVE  LineInv'
<1>1. PICK order \in Selections : SettleBatches(order)
  BY DEF Mine
<1>2. PICK n \in 0 .. Len(miningQueue) :
        /\ order \in [1 .. n -> DOMAIN miningQueue]
        /\ \A j, k \in 1 .. n : j < k => order[j] < order[k]
  BY DEF Selections
<1> DEFINE mined == [k \in DOMAIN order |-> miningQueue[order[k]]]
<1>3. /\ blocks' = blocks \o mined /\ miningQueue' = <<>>
      /\ failed' = failed \union
           UNION {Range(miningQueue[k]) : k \in DOMAIN miningQueue \ Range(order)}
      /\ UNCHANGED <<place, accepted>>
  BY <1>1 DEF Mine, SettleBatches
<1>4. miningQueue \in Seq(Seq(Request \X Nat)) /\ blocks \in Seq(Seq(Request \X Nat))
  BY QueueIsTyped DEF LineInv
<1>5. /\ n \in Nat /\ DOMAIN mined = 1 .. n
      /\ \A k \in 1 .. n : order[k] \in DOMAIN miningQueue /\ mined[k] = miningQueue[order[k]]
  BY <1>2, <1>4
<1>6. mined \in Seq(Seq(Request \X Nat))
  <2>1. \A k \in 1 .. n : miningQueue[order[k]] \in Seq(Request \X Nat)
    BY <1>4, <1>5
  <2> QED
    BY <1>2, <1>5, <2>1
<1>7. Range(order) = {order[k] : k \in 1 .. n}
  BY <1>2 DEF Range
<1> HIDE DEF mined
<1>8. \A e : Holds(mined, e) <=> \E k \in Range(order) : e \in Range(miningQueue[k])
  <2> TAKE e
  <2>1. Holds(mined, e) <=> \E j \in 1 .. n : e \in Range(miningQueue[order[j]])
    BY <1>5 DEF Holds
  <2> QED
    BY <1>7, <2>1
<1>9. Range(order) \subseteq DOMAIN miningQueue
  BY <1>5, <1>7
<1>10. \A e : Holds(mined, e) => Holds(miningQueue, e)
  BY <1>8, <1>9 DEF Holds
<1>11. Ordered(mined)
  <2> SUFFICES ASSUME NEW j \in 1 .. n, NEW k \in 1 .. n, j < k,
                      NEW x \in Range(mined[j]), NEW y \in Range(mined[k]), x[1] = y[1]
               PROVE  x[2] < y[2]
    BY <1>5 DEF Ordered
  <2>1. order[j] < order[k] /\ order[j] \in DOMAIN miningQueue /\ order[k] \in DOMAIN miningQueue
    BY <1>2, <1>5
  <2>2. x \in Range(miningQueue[order[j]]) /\ y \in Range(miningQueue[order[k]])
    BY <1>5
  <2>3. Ordered(miningQueue)
    BY DEF LineInv
  <2> QED
    BY <2>1, <2>2, <2>3 DEF Ordered
<1>12. Precedes(blocks, mined)
  BY <1>10 DEF Precedes, LineInv
<1>13. Ordered(blocks')
  <2>1. Ordered(blocks)
    BY DEF LineInv
  <2> QED
    BY <1>3, <1>4, <1>6, <1>11, <1>12, <2>1, OrderedConcat
<1>14. \A e : Holds(blocks', e) <=> Holds(blocks, e) \/ Holds(mined, e)
  BY <1>3, <1>4, <1>6, HoldsConcat
<1>15. \A e : ~Holds(miningQueue', e)
  BY <1>3 DEF Holds
<1>16. Ordered(miningQueue') /\ Precedes(blocks', miningQueue')
  BY <1>3, <1>15 DEF Ordered, Precedes
<1>17. blocks' \in Seq(Seq(Request \X Nat))
  BY <1>3, <1>4, <1>6, ConcatProperties
<1>18. \A e : e \in failed' <=>
         e \in failed \/ \E k \in DOMAIN miningQueue \ Range(order) : e \in Range(miningQueue[k])
  BY <1>3
<1>19. \A e : Somewhere(e)' <=> Somewhere(e)
  <2> TAKE e
  <2>1. Somewhere(e)' <=> Holds(blocks, e) \/ Holds(mined, e) \/ e \in failed'
    BY <1>14, <1>15 DEF Somewhere
  <2>2. Holds(miningQueue, e) <=>
          \/ \E k \in Range(order) : e \in Range(miningQueue[k])
          \/ \E k \in DOMAIN miningQueue \ Range(order) : e \in Range(miningQueue[k])
    BY <1>9 DEF Holds
  <2> QED
    BY <1>8, <1>18, <2>1, <2>2 DEF Somewhere
<1>20. ASSUME NEW e \in failed' PROVE ~Holds(blocks', e)
  <2>1. CASE e \in failed
    BY <1>10, <1>14, <2>1 DEF LineInv
  <2>2. CASE \E k \in DOMAIN miningQueue \ Range(order) : e \in Range(miningQueue[k])
    <3>1. PICK k \in DOMAIN miningQueue \ Range(order) : e \in Range(miningQueue[k])
      BY <2>2
    <3>2. e \in Request \X Nat /\ ~(e[2] < e[2])
      <4>1. e \in Request \X Nat
        BY <1>4, <3>1, HeldIsMember
      <4> QED
        BY <4>1
    <3>3. ~Holds(blocks, e)
      <4>1. Holds(miningQueue, e)
        BY <3>1 DEF Holds
      <4> QED
        BY <3>2, <4>1 DEF LineInv, Precedes
    <3>4. ~Holds(mined, e)
      <4> SUFFICES ASSUME NEW l \in Range(order), e \in Range(miningQueue[l]) PROVE FALSE
        BY <1>8
      <4>1. l \in DOMAIN miningQueue /\ Ordered(miningQueue)
        BY <1>9 DEF LineInv
      <4>2. l = k
        BY <1>4, <3>1, <4>1, OneBatch
      <4> QED
        BY <3>1, <4>2
    <3> QED
      BY <1>14, <3>3, <3>4
  <2> QED
    BY <1>18, <1>20, <2>1, <2>2
<1>21. Accepted' = Accepted
  BY <1>3 DEF Accepted
<1>22. \A e : Somewhere(e)' <=> e \in Accepted' /\ place'[e[1]] = "answered"
  BY <1>3, <1>19, <1>21 DEF LineInv
<1> QED
  BY <1>13, <1>15, <1>16, <1>17, <1>20, <1>22 DEF LineInv

LEMMA NextLine ==
  ASSUME IInv, LineInv, [Next]_vars
  PROVE  LineInv'
<1>1. ASSUME UNCHANGED <<place, accepted, miningQueue, blocks, failed>> PROVE LineInv'
  <2>1. Accepted' = Accepted /\ \A e : Somewhere(e)' <=> Somewhere(e)
    BY <1>1 DEF Accepted, Somewhere
  <2> QED
    BY <1>1, <2>1 DEF LineInv
<1>2. CASE UNCHANGED vars
  BY <1>1, <1>2 DEF vars, queues, ledger
<1>3. ASSUME NEW r \in Request, Ingest(r) \/ Posted(r) PROVE LineInv'
  BY <1>3, ProceedLine DEF Ingest, Posted
<1>4. ASSUME NEW r \in Request, Answer(r) PROVE LineInv'
  BY <1>4, AnswerLine
<1>5. CASE Mine
  BY <1>5, MineLine
<1>6. CASE Write
  BY <1>1, <1>6 DEF Write, ledger
<1>7. CASE Shutdown
  BY <1>1, <1>7 DEF Shutdown, queues, ledger
<1> QED
  BY <1>2, <1>3, <1>4, <1>5, <1>6, <1>7 DEF Next

LEMMA LineHolds == Spec => [](IInv /\ LineInv)
<1>1. IInv /\ LineInv /\ [Next]_vars => IInv' /\ LineInv'
  BY NextIInv, NextLine
<1>2. Init => IInv /\ LineInv
  BY InitIInv, InitLine
<1> QED
  BY <1>1, <1>2, PTL DEF Spec

(* The chain, and behind it the queue, hold the events of a request in the  *)
(* order of its payload (ingest_batch, background_miner), however requests,  *)
(* posts and mining interleave, for any clients, payloads and batch size.    *)
THEOREM ChainKeepsOrderHolds == Spec => []ChainKeepsOrder
<1>1. ASSUME IInv, LineInv PROVE ChainKeepsOrder
  <2>1. miningQueue \in Seq(Seq(Request \X Nat)) /\ blocks \in Seq(Seq(Request \X Nat))
    BY <1>1, QueueIsTyped DEF LineInv
  <2>2. Ordered(blocks) /\ Ordered(miningQueue) /\ Precedes(blocks, miningQueue)
    BY <1>1 DEF LineInv
  <2>3. Ordered(blocks \o miningQueue)
    BY <2>1, <2>2, OrderedConcat
  <2> QED
    BY <2>3 DEF Ordered, ChainKeepsOrder
<1> QED
  BY <1>1, LineHolds, PTL

(* The places of an event in an ordered sequence: one or none. *)
LEMMA CountPlaces ==
  ASSUME NEW R, NEW q \in Seq(Seq(R \X Nat)), Ordered(q), NEW e
  PROVE  Cardinality({k \in DOMAIN q : e \in Range(q[k])}) = IF Holds(q, e) THEN 1 ELSE 0
<1>1. CASE ~Holds(q, e)
  <2>1. {k \in DOMAIN q : e \in Range(q[k])} = {}
    BY <1>1 DEF Holds
  <2> QED
    BY <1>1, <2>1, FS_EmptySet
<1>2. CASE Holds(q, e)
  <2>1. PICK k \in DOMAIN q : e \in Range(q[k])
    BY <1>2 DEF Holds
  <2>2. ASSUME NEW l \in DOMAIN q, e \in Range(q[l]) PROVE l = k
    BY <2>1, <2>2, OneBatch
  <2>3. {l \in DOMAIN q : e \in Range(q[l])} = {k}
    BY <2>1, <2>2
  <2> QED
    BY <1>2, <2>3, FS_Singleton
<1> QED
  BY <1>1, <1>2

(* Once a request is answered, each event it accepted waits in one batch, or *)
(* is in one block, or its mining gave up, and before that it is in none     *)
(* (ingest_batch, background_miner): nothing is lost or doubled between the   *)
(* handlers and the miner, for any clients, payloads and batch size.         *)
THEOREM EventHasOnePlaceHolds == Spec => []EventHasOnePlace
<1>1. ASSUME IInv, LineInv PROVE EventHasOnePlace
  <2> SUFFICES ASSUME NEW r \in Request, NEW i \in 1 .. accepted[r]
               PROVE  LET e == <<r, i>>
                      IN  Cardinality(Batched(e)) + Cardinality(Mined(e)) + Cardinality(GivenUp(e))
                            = (IF place[r] = "answered" THEN 1 ELSE 0)
    BY DEF EventHasOnePlace
  <2> DEFINE e == <<r, i>>
  <2>1. miningQueue \in Seq(Seq(Request \X Nat)) /\ blocks \in Seq(Seq(Request \X Nat))
    BY <1>1, QueueIsTyped DEF LineInv
  <2>2. Ordered(blocks) /\ Ordered(miningQueue)
    BY <1>1 DEF LineInv
  <2>3. Cardinality(Batched(e)) = IF Holds(miningQueue, e) THEN 1 ELSE 0
    BY <2>1, <2>2, CountPlaces DEF Batched
  <2>4. Cardinality(Mined(e)) = IF Holds(blocks, e) THEN 1 ELSE 0
    BY <2>1, <2>2, CountPlaces DEF Mined
  <2>5. Cardinality(GivenUp(e)) = IF e \in failed THEN 1 ELSE 0
    <3>1. CASE e \in failed
      <4>1. GivenUp(e) = {e}
        BY <3>1 DEF GivenUp
      <4> QED
        BY <3>1, <4>1, FS_Singleton
    <3>2. CASE e \notin failed
      <4>1. GivenUp(e) = {}
        BY <3>2 DEF GivenUp
      <4> QED
        BY <3>2, <4>1, FS_EmptySet
    <3> QED
      BY <3>1, <3>2
  <2>6. e \in Accepted /\ e[1] = r
    <3>1. accepted[r] \in Nat
      BY <1>1 DEF IInv
    <3> QED
      BY <3>1 DEF Accepted
  <2>7. Somewhere(e) <=> place[r] = "answered"
    BY <1>1, <2>6 DEF LineInv
  <2>8. e \in failed => ~Holds(blocks, e) /\ ~Holds(miningQueue, e)
    BY <1>1 DEF LineInv
  <2>9. ~(Holds(blocks, e) /\ Holds(miningQueue, e))
    <3>1. ~(e[2] < e[2])
      BY <2>6 DEF Accepted
    <3> QED
      BY <1>1, <3>1 DEF LineInv, Precedes
  <2> HIDE DEF e
  <2>10. Cardinality(Batched(e)) + Cardinality(Mined(e)) + Cardinality(GivenUp(e))
           = (IF Somewhere(e) THEN 1 ELSE 0)
    BY <2>3, <2>4, <2>5, <2>8, <2>9 DEF Somewhere
  <2> QED
    BY <2>7, <2>10 DEF e
<1> QED
  BY <1>1, LineHolds, PTL
=============================================================================
