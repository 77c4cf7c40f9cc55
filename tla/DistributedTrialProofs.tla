----------------------- MODULE DistributedTrialProofs -----------------------
(***************************************************************************)
(* Invariants of DistributedTrial for every set of nodes, trials and       *)
(* proposals, every consensus threshold and either kind of gossip.         *)
(***************************************************************************)
EXTENDS DistributedTrial, SequenceTheorems, FiniteSetTheorems, TLAPS

(* What can happen to the local state of the coordinators in one step: a    *)
(* trial opens, a result is counted in one of the four ways, or nothing.    *)
Opening ==
  \E n \in Node, t \in Trial :
    /\ status[n][t] = "absent"
    /\ proposal'[t] # NoProposal
    /\ Open(n, t)
    /\ UNCHANGED <<history, raised>>

Counting ==
  \E n \in Node, r \in produced : \E t \in Matching(n, r) :
    /\ ~HasVoted(n, t, r.node)
    /\ \/ Collect(n, t, results[n][t] \union {r})
       \/ Evaluate(n, t, results[n][t] \union {r})

LocalStep == Opening \/ Counting \/ UNCHANGED local

(* Every trial a coordinator, a result or a message speaks of has been      *)
(* proposed, and every result on its way was returned by a local run.       *)
Known ==
  /\ \A n \in Node, t \in Trial : status[n][t] # "absent" => proposal[t] # NoProposal
  /\ \A n \in Node : \A rec \in Records(n) : proposal[rec.trial] # NoProposal
  /\ \A r \in produced : proposal[r.trial] # NoProposal
  /\ \A m \in net :
       /\ m.type = "trial_proposal" => proposal[m.trial] # NoProposal
       /\ m.type = "trial_result" => m.result \in produced

-----------------------------------------------------------------------------

LEMMA InitType == Init => TypeOK
  BY DEF Init, TypeOK, Result

(* A record appended to the history of a node joins its records.            *)
LEMMA RecordsOfAppend ==
  ASSUME NEW n \in Node, NEW rec,
         history[n] \in Seq(Record), rec \in Record,
         history'[n] = Append(history[n], rec)
  PROVE  /\ history'[n] \in Seq(Record)
         /\ Records(n)' = Records(n) \union {rec}
  BY AppendProperties DEF Records

LEMMA MatchingIsActive ==
  ASSUME NEW n \in Node, NEW r \in Result, NEW t \in Matching(n, r)
  PROVE  /\ t \in Trial
         /\ status[n][t] # "absent"
         /\ proposal[t] = proposal[r.trial]
  BY DEF Matching, Active, Result

LEMMA CountingType ==
  ASSUME TypeOK, Counting
  PROVE  /\ status' \in [Node -> [Trial -> {"absent", "pending", "voting"}]]
         /\ results' \in [Node -> [Trial -> SUBSET Result]]
         /\ older' \in [Node -> SUBSET (Trial \X Trial)]
         /\ history' \in [Node -> Seq(Record)]
         /\ raised' \in [Node -> SUBSET Trial]
<1>0. PICK n \in Node, r \in produced :
        \E t \in Matching(n, r) :
           \/ Collect(n, t, results[n][t] \union {r})
           \/ Evaluate(n, t, results[n][t] \union {r})
  BY DEF Counting
<1>1. PICK t \in Matching(n, r) :
           \/ Collect(n, t, results[n][t] \union {r})
           \/ Evaluate(n, t, results[n][t] \union {r})
  BY <1>0
<1> DEFINE rs == results[n][t] \union {r}
<1>2. r \in Result /\ t \in Trial /\ rs \in SUBSET Result
  BY MatchingIsActive DEF TypeOK
<1>3. CASE Collect(n, t, rs)
  BY <1>2, <1>3 DEF Collect, TypeOK
<1>4. CASE Accept(n, t, rs)
  <2>1. [trial |-> t, status |-> "accepted", results |-> rs] \in Record
    BY <1>2 DEF Record
  <2>2. history' \in [Node -> Seq(Record)]
    BY <1>4, <2>1 DEF Accept, Archive, TypeOK
  <2> QED
    BY <1>2, <1>4, <2>2 DEF Accept, TypeOK
<1>5. CASE Reject(n, t, rs)
  BY <1>2, <1>5 DEF Reject, TypeOK
<1>6. CASE KeepVoting(n, t, rs)
  <2>1. [trial |-> t, status |-> "voting", results |-> rs] \in Record
    BY <1>2 DEF Record
  <2>2. history' \in [Node -> Seq(Record)]
    BY <1>6, <2>1 DEF KeepVoting, Archive, TypeOK
  <2> QED
    BY <1>2, <1>6, <2>2 DEF KeepVoting, TypeOK
<1> QED
  BY <1>1, <1>3, <1>4, <1>5, <1>6 DEF Evaluate

LEMMA ProcessIsLocalStep ==
  ASSUME NEW n \in Node, NEW r \in produced, ProcessResult(n, r)
  PROVE  Counting \/ UNCHANGED local
  BY DEF ProcessResult, Ignore, Count, Counting

LEMMA OpenType ==
  ASSUME TypeOK, NEW n \in Node, NEW t \in Trial, Open(n, t)
  PROVE  /\ status' \in [Node -> [Trial -> {"absent", "pending", "voting"}]]
         /\ results' \in [Node -> [Trial -> SUBSET Result]]
         /\ older' \in [Node -> SUBSET (Trial \X Trial)]
  BY DEF Open, TypeOK, Active

-----------------------------------------------------------------------------
(* The two disciplines of the shared state: proposals and produced results  *)
(* are only ever added.                                                     *)
Grows ==
  /\ produced \subseteq produced'
  /\ \A t \in Trial : proposal[t] # NoProposal => proposal'[t] = proposal[t]

LEMMA NextShape ==
  ASSUME TypeOK, Known, Next
  PROVE  LocalStep /\ Grows
<1>1. ASSUME NEW n \in Node, NEW t \in Trial, NEW p \in Proposal,
             NEW targets \in Targets, ProposeMutation(n, t, p, targets)
      PROVE  LocalStep /\ Grows
  <2>1. status[n][t] = "absent"
    BY <1>1 DEF ProposeMutation, Known
  <2>2. proposal'[t] # NoProposal
    BY <1>1, TrialAssumption DEF ProposeMutation, TypeOK
  <2>3. Opening
    BY <1>1, <2>1, <2>2 DEF ProposeMutation, Opening
  <2>4. Grows
    BY <1>1 DEF ProposeMutation, Grows, TypeOK
  <2> QED
    BY <2>3, <2>4 DEF LocalStep
<1>2. ASSUME NEW n \in Node, NEW t \in Trial, NEW ok \in Outcomes[t],
             RunLocalTrial(n, t, ok)
      PROVE  LocalStep /\ Grows
  BY <1>2 DEF RunLocalTrial, LocalStep, Grows
<1>3. ASSUME NEW r \in produced, ReportResult(r)
      PROVE  LocalStep /\ Grows
  BY <1>3 DEF ReportResult, LocalStep, Grows
<1>4. ASSUME NEW r \in produced, RecordOwnResult(r)
      PROVE  LocalStep /\ Grows
  <2>1. r.node \in Node
    BY DEF TypeOK, Result
  <2> QED
    BY <1>4, <2>1, ProcessIsLocalStep DEF RecordOwnResult, LocalStep, Grows
<1>5. ASSUME NEW m \in net, ReceiveProposal(m)
      PROVE  LocalStep /\ Grows
  <2>1. m \in ProposalMsg
    BY <1>5 DEF ReceiveProposal, TypeOK, ResultMsg
  <2>2. m.to \in Node /\ m.trial \in Trial /\ proposal[m.trial] # NoProposal
    BY <1>5, <2>1 DEF ProposalMsg, ReceiveProposal, Known
  <2> QED
    BY <1>5, <2>2 DEF ReceiveProposal, LocalStep, Opening, Grows, local
<1>6. ASSUME NEW m \in net, ReceiveResult(m)
      PROVE  LocalStep /\ Grows
  <2>1. m \in ResultMsg
    BY <1>6 DEF ReceiveResult, TypeOK, ProposalMsg
  <2>2. m.to \in Node /\ m.result \in produced
    BY <1>6, <2>1 DEF ResultMsg, ReceiveResult, Known
  <2> QED
    BY <1>6, <2>2, ProcessIsLocalStep DEF ReceiveResult, LocalStep, Grows
<1> QED
  BY <1>1, <1>2, <1>3, <1>4, <1>5, <1>6 DEF Next

(* The shared variables keep their types. *)
LEMMA NextSharedType ==
  ASSUME TypeOK, Next
  PROVE  /\ proposal' \in [Trial -> Proposal \union {NoProposal}]
         /\ produced' \subseteq Result
         /\ net' \subseteq ProposalMsg \union ResultMsg
<1>1. ASSUME NEW n \in Node, NEW t \in Trial, NEW p \in Proposal,
             NEW targets \in Targets, ProposeMutation(n, t, p, targets)
      PROVE  /\ proposal' \in [Trial -> Proposal \union {NoProposal}]
             /\ produced' \subseteq Result
             /\ net' \subseteq ProposalMsg \union ResultMsg
  <2>1. [type : {"trial_proposal"}, to : targets \ {n}, trial : {t}] \subseteq ProposalMsg
    BY TrialAssumption DEF ProposalMsg
  <2> QED
    BY <1>1, <2>1 DEF ProposeMutation, TypeOK
<1>2. ASSUME NEW n \in Node, NEW t \in Trial, NEW ok \in Outcomes[t],
             RunLocalTrial(n, t, ok)
      PROVE  /\ proposal' \in [Trial -> Proposal \union {NoProposal}]
             /\ produced' \subseteq Result
             /\ net' \subseteq ProposalMsg \union ResultMsg
  BY <1>2, TrialAssumption DEF RunLocalTrial, TypeOK, Result
<1>3. ASSUME NEW r \in produced, ReportResult(r)
      PROVE  /\ proposal' \in [Trial -> Proposal \union {NoProposal}]
             /\ produced' \subseteq Result
             /\ net' \subseteq ProposalMsg \union ResultMsg
  <2>1. [type : {"trial_result"}, to : Listeners \ {r.node}, result : {r}] \subseteq ResultMsg
    BY TrialAssumption DEF ResultMsg, TypeOK
  <2> QED
    BY <1>3, <2>1 DEF ReportResult, Reports, TypeOK
<1>4. ASSUME NEW r \in produced, RecordOwnResult(r)
      PROVE  UNCHANGED <<proposal, produced, net>>
  BY <1>4 DEF RecordOwnResult
<1>5. ASSUME NEW m \in net, ReceiveProposal(m) \/ ReceiveResult(m)
      PROVE  UNCHANGED <<proposal, produced>> /\ net' \subseteq net
  BY <1>5 DEF ReceiveProposal, ReceiveResult, Consume
<1> QED
  BY <1>1, <1>2, <1>3, <1>4, <1>5 DEF Next, TypeOK

LEMMA NextType ==
  ASSUME TypeOK, Known, [Next]_vars
  PROVE  TypeOK'
<1>1. CASE UNCHANGED vars
  BY <1>1 DEF vars, local, TypeOK
<1>2. CASE Next
  <2>1. LocalStep
    BY <1>2, NextShape
  <2>2. CASE Opening
    BY <1>2, <2>2, NextSharedType, OpenType DEF Opening, TypeOK
  <2>3. CASE Counting
    BY <1>2, <2>3, NextSharedType, CountingType DEF TypeOK
  <2>4. CASE UNCHANGED local
    BY <1>2, <2>4, NextSharedType DEF local, TypeOK
  <2> QED
    BY <2>1, <2>2, <2>3, <2>4 DEF LocalStep
<1> QED
  BY <1>1, <1>2

-----------------------------------------------------------------------------
(* What counting a result does to the result sets and to the records.       *)

Files(n, t, rs) ==
  \E rec \in Record :
    /\ rec.trial = t
    /\ rec.results = rs
    /\ rec.status = "accepted" => IsAccepted(rs) /\ Cardinality(rs) >= QuorumSize
    /\ Records(n)' = Records(n) \union {rec}

CountedIn(n, t, r) ==
  /\ r \in produced /\ t \in Trial
  /\ status[n][t] # "absent"
  /\ proposal[t] = proposal[r.trial]
  /\ ~HasVoted(n, t, r.node)
  /\ \A k \in Node, u \in Trial :
       results'[k][u] = results[k][u] \/ results'[k][u] = {}
         \/ (k = n /\ u = t /\ results'[k][u] = results[n][t] \union {r})
  /\ \A k \in Node :
       Records(k)' = Records(k) \/ (k = n /\ Files(n, t, results[n][t] \union {r}))
  /\ \A k \in Node, u \in Trial : status'[k][u] # "absent" => status[k][u] # "absent"

LEMMA CountingEffect ==
  ASSUME TypeOK, Counting
  PROVE  \E n \in Node, t \in Trial, r \in produced : CountedIn(n, t, r)
<1>0. PICK n \in Node, r \in produced :
        \E t \in Matching(n, r) :
           /\ ~HasVoted(n, t, r.node)
           /\ \/ Collect(n, t, results[n][t] \union {r})
              \/ Evaluate(n, t, results[n][t] \union {r})
  BY DEF Counting
<1>1. PICK t \in Matching(n, r) :
           /\ ~HasVoted(n, t, r.node)
           /\ \/ Collect(n, t, results[n][t] \union {r})
              \/ Evaluate(n, t, results[n][t] \union {r})
  BY <1>0
<1> DEFINE rs == results[n][t] \union {r}
<1>2. r \in Result /\ t \in Trial /\ rs \in SUBSET Result
      /\ status[n][t] # "absent" /\ proposal[t] = proposal[r.trial]
  BY MatchingIsActive DEF TypeOK
<1>3. \A k \in Node : history'[k] = history[k] => Records(k)' = Records(k)
  BY DEF Records
<1> SUFFICES CountedIn(n, t, r)
  BY <1>2
<1>4. CASE Collect(n, t, rs)
  BY <1>1, <1>2, <1>3, <1>4 DEF Collect, TypeOK, CountedIn
<1>5. CASE Reject(n, t, rs)
  BY <1>1, <1>2, <1>3, <1>5 DEF Reject, TypeOK, CountedIn
<1>6. CASE Accept(n, t, rs) /\ Cardinality(rs) >= QuorumSize
  <2> DEFINE rec == [trial |-> t, status |-> "accepted", results |-> rs]
  <2>1. rec \in Record
    BY <1>2 DEF Record
  <2>2. history'[n] = Append(history[n], rec) /\ history[n] \in Seq(Record)
    BY <1>6 DEF Accept, Archive, TypeOK
  <2>3. Records(n)' = Records(n) \union {rec}
    BY <2>1, <2>2, RecordsOfAppend
  <2>4. Files(n, t, rs)
    BY <1>6, <2>1, <2>3 DEF Files, Accept
  <2>5. \A k \in Node : k # n => history'[k] = history[k]
    BY <1>6 DEF Accept, Archive, TypeOK
  <2>6. \A k \in Node, u \in Trial :
          results'[k][u] = results[k][u] \/ results'[k][u] = {}
    BY <1>2, <1>6 DEF Accept, TypeOK
  <2>7. \A k \in Node, u \in Trial : status'[k][u] # "absent" => status[k][u] # "absent"
    BY <1>2, <1>6 DEF Accept, TypeOK
  <2> QED
    BY <1>1, <1>2, <1>3, <2>4, <2>5, <2>6, <2>7 DEF CountedIn
<1>7. CASE KeepVoting(n, t, rs)
  <2> DEFINE rec == [trial |-> t, status |-> "voting", results |-> rs]
  <2>1. rec \in Record
    BY <1>2 DEF Record
  <2>2. history'[n] = Append(history[n], rec) /\ history[n] \in Seq(Record)
    BY <1>7 DEF KeepVoting, Archive, TypeOK
  <2>3. Records(n)' = Records(n) \union {rec}
    BY <2>1, <2>2, RecordsOfAppend
  <2>4. Files(n, t, rs)
    BY <2>1, <2>3 DEF Files
  <2>5. \A k \in Node : k # n => history'[k] = history[k]
    BY <1>7 DEF KeepVoting, Archive, TypeOK
  <2>6. \A k \in Node, u \in Trial :
          results'[k][u] = results[k][u] \/ (k = n /\ u = t /\ results'[k][u] = rs)
    BY <1>2, <1>7 DEF KeepVoting, TypeOK
  <2>7. \A k \in Node, u \in Trial : status'[k][u] # "absent" => status[k][u] # "absent"
    BY <1>2, <1>7 DEF KeepVoting, TypeOK
  <2> QED
    BY <1>1, <1>2, <1>3, <2>4, <2>5, <2>6, <2>7 DEF CountedIn
<1> QED
  BY <1>1, <1>2, <1>4, <1>5, <1>6, <1>7 DEF Evaluate

LEMMA OpeningEffect ==
  ASSUME TypeOK, Opening
  PROVE  /\ \A k \in Node, u \in Trial :
              results'[k][u] = results[k][u] \/ results'[k][u] = {}
         /\ \A k \in Node : Records(k)' = Records(k)
         /\ \A k \in Node, u \in Trial :
              status'[k][u] # "absent" => status[k][u] # "absent" \/ proposal'[u] # NoProposal
  BY DEF Opening, Open, TypeOK, Records

LEMMA RecordsTyped ==
  ASSUME TypeOK, NEW n \in Node, NEW rec \in Records(n)
  PROVE  rec \in Record
  BY DEF TypeOK, Records

-----------------------------------------------------------------------------
(* The inductive invariant.                                                 *)

FilesAreSound ==
  \A n \in Node :
    /\ \A t \in Trial : IsFiniteSet(results[n][t])
    /\ \A rec \in Records(n) :
         /\ IsFiniteSet(rec.results)
         /\ rec.status = "accepted" =>
              IsAccepted(rec.results) /\ Cardinality(rec.results) >= QuorumSize

TrialInv == TypeOK /\ Known /\ OneBallotPerNode /\ EvidenceIsReal /\ FilesAreSound

LEMMA InitInv == Init => TrialInv
<1> SUFFICES ASSUME Init PROVE TrialInv
  OBVIOUS
<1>1. TypeOK
  BY InitType
<1>2. \A n \in Node : Records(n) = {}
  BY DEF Init, Records
<1>3. IsFiniteSet({})
  BY FS_EmptySet
<1> QED
  BY <1>1, <1>2, <1>3
  DEF Init, TrialInv, Known, OneBallotPerNode, OneBallot, EvidenceIsReal, FilesAreSound

(* Only Propose draws a trial identifier, and what a message, a result or a *)
(* record speaks of was active where it came from.                          *)
LEMMA KnownStep ==
  ASSUME TypeOK, Known, Next
  PROVE  Known'
<1>1. LocalStep /\ Grows
  BY NextShape
<1>2. \A n \in Node, t \in Trial :
        status'[n][t] # "absent" => status[n][t] # "absent" \/ proposal'[t] # NoProposal
  <2>1. CASE Opening
    BY <2>1, OpeningEffect
  <2>2. CASE Counting
    BY <2>2, CountingEffect DEF CountedIn
  <2>3. CASE UNCHANGED local
    BY <2>3 DEF local
  <2> QED
    BY <1>1, <2>1, <2>2, <2>3 DEF LocalStep
<1>3. \A n \in Node, t \in Trial : status'[n][t] # "absent" => proposal'[t] # NoProposal
  BY <1>1, <1>2 DEF Known, Grows
<1>4. \A n \in Node : \A rec \in Records(n)' : proposal'[rec.trial] # NoProposal
  <2>1. \A n \in Node : \A rec \in Records(n) : proposal'[rec.trial] # NoProposal
    <3>1. \A n \in Node : \A rec \in Records(n) : rec.trial \in Trial
      BY RecordsTyped DEF Record
    <3> QED
      BY <1>1, <3>1 DEF Known, Grows
  <2>2. CASE Opening
    BY <2>1, <2>2, OpeningEffect
  <2>3. CASE Counting
    <3>1. PICK n \in Node, t \in Trial, r \in produced : CountedIn(n, t, r)
      BY <2>3, CountingEffect
    <3>2. proposal'[t] # NoProposal
      BY <1>1, <3>1 DEF CountedIn, Known, Grows
    <3> QED
      BY <2>1, <3>1, <3>2 DEF CountedIn, Files
  <2>4. CASE UNCHANGED local
    BY <2>1, <2>4 DEF local, Records
  <2> QED
    BY <1>1, <2>2, <2>3, <2>4 DEF LocalStep
<1>5. /\ \A r \in produced' : proposal'[r.trial] # NoProposal
      /\ \A m \in net' :
           /\ m.type = "trial_proposal" => proposal'[m.trial] # NoProposal
           /\ m.type = "trial_result" => m.result \in produced'
  <2>1. \A r \in produced : proposal'[r.trial] # NoProposal
    BY <1>1 DEF Known, Grows, TypeOK, Result
  <2>2. \A m \in net :
           /\ m.type = "trial_proposal" => proposal'[m.trial] # NoProposal
           /\ m.type = "trial_result" => m.result \in produced'
    <3>1. \A m \in net : m.type = "trial_proposal" => m.trial \in Trial
      BY DEF TypeOK, ProposalMsg, ResultMsg
    <3> QED
      BY <1>1, <3>1 DEF Known, Grows
  <2>3. ASSUME NEW n \in Node, NEW t \in Trial, NEW p \in Proposal,
               NEW targets \in Targets, ProposeMutation(n, t, p, targets)
        PROVE  /\ produced' = produced /\ proposal'[t] # NoProposal
               /\ \A m \in net' : \/ m \in net
                                  \/ m.type = "trial_proposal" /\ m.trial = t
    BY <2>3, TrialAssumption DEF ProposeMutation, TypeOK
  <2>4. ASSUME NEW n \in Node, NEW t \in Trial, NEW ok \in Outcomes[t],
               RunLocalTrial(n, t, ok)
        PROVE  /\ net' = net
               /\ \A r \in produced' : r \in produced \/ proposal'[r.trial] # NoProposal
    BY <2>4 DEF RunLocalTrial, Known
  <2>5. ASSUME NEW r \in produced, ReportResult(r)
        PROVE  /\ produced' = produced
               /\ \A m \in net' : \/ m \in net
                                  \/ m.type = "trial_result" /\ m.result = r
    BY <2>5 DEF ReportResult, Reports
  <2>6. ASSUME NEW r \in produced, RecordOwnResult(r)
        PROVE  UNCHANGED <<produced, net>>
    BY <2>6 DEF RecordOwnResult
  <2>7. ASSUME NEW m \in net, ReceiveProposal(m) \/ ReceiveResult(m)
        PROVE  produced' = produced /\ net' \subseteq net
    BY <2>7 DEF ReceiveProposal, ReceiveResult, Consume
  <2>8. CASE \E n \in Node, t \in Trial, p \in Proposal, targets \in Targets :
               ProposeMutation(n, t, p, targets)
    BY <2>1, <2>2, <2>3, <2>8
  <2>9. CASE \E n \in Node, t \in Trial : \E ok \in Outcomes[t] : RunLocalTrial(n, t, ok)
    BY <2>1, <2>2, <2>4, <2>9
  <2>10. CASE \E r \in produced : ReportResult(r)
    BY <2>1, <2>2, <2>5, <2>10
  <2> QED
    BY <2>1, <2>2, <2>6, <2>7, <2>8, <2>9, <2>10 DEF Next
<1> QED
  BY <1>3, <1>4, <1>5 DEF Known

(* A duplicate of a node that has voted is turned away, so a counted result *)
(* is the first one of its node.                                            *)
LEMMA OneBallotStep ==
  ASSUME TypeOK, OneBallotPerNode, LocalStep
  PROVE  OneBallotPerNode'
<1>1. OneBallot({})
  BY DEF OneBallot
<1>2. CASE Opening
  BY <1>1, <1>2, OpeningEffect DEF OneBallotPerNode
<1>3. CASE Counting
  <2>1. PICK n \in Node, t \in Trial, r \in produced : CountedIn(n, t, r)
    BY <1>3, CountingEffect
  <2>2. OneBallot(results[n][t] \union {r})
    BY <2>1 DEF CountedIn, HasVoted, OneBallotPerNode, OneBallot
  <2>3. \A k \in Node, u \in Trial : OneBallot(results'[k][u])
    BY <1>1, <2>1, <2>2 DEF CountedIn, OneBallotPerNode
  <2>4. ASSUME NEW k \in Node, NEW rec \in Records(k)'
        PROVE  OneBallot(rec.results)
    <3>1. CASE rec \in Records(k)
      BY <3>1 DEF OneBallotPerNode
    <3>2. CASE rec \notin Records(k)
      BY <2>1, <2>2, <2>4, <3>2 DEF CountedIn, Files
    <3> QED
      BY <3>1, <3>2
  <2> QED
    BY <2>3, <2>4 DEF OneBallotPerNode
<1>4. CASE UNCHANGED local
  BY <1>4 DEF local, OneBallotPerNode, Records
<1> QED
  BY <1>2, <1>3, <1>4 DEF LocalStep

LEMMA FilesStep ==
  ASSUME TypeOK, FilesAreSound, LocalStep
  PROVE  FilesAreSound'
<1>1. IsFiniteSet({})
  BY FS_EmptySet
<1>2. CASE Opening
  BY <1>1, <1>2, OpeningEffect DEF FilesAreSound
<1>3. CASE Counting
  <2>1. PICK n \in Node, t \in Trial, r \in produced : CountedIn(n, t, r)
    BY <1>3, CountingEffect
  <2>2. IsFiniteSet(results[n][t] \union {r})
    BY FS_AddElement DEF FilesAreSound
  <2>3. \A k \in Node, u \in Trial : IsFiniteSet(results'[k][u])
    BY <1>1, <2>1, <2>2 DEF CountedIn, FilesAreSound
  <2>4. ASSUME NEW k \in Node, NEW rec \in Records(k)'
        PROVE  /\ IsFiniteSet(rec.results)
               /\ rec.status = "accepted" =>
                    IsAccepted(rec.results) /\ Cardinality(rec.results) >= QuorumSize
    <3>1. CASE rec \in Records(k)
      BY <3>1 DEF FilesAreSound
    <3>2. CASE rec \notin Records(k)
      BY <2>1, <2>2, <2>4, <3>2 DEF CountedIn, Files
    <3> QED
      BY <3>1, <3>2
  <2> QED
    BY <2>3, <2>4 DEF FilesAreSound
<1>4. CASE UNCHANGED local
  BY <1>4 DEF local, FilesAreSound, Records
<1> QED
  BY <1>2, <1>3, <1>4 DEF LocalStep

(* A result is counted where the coordinator found its trial or one of the  *)
(* same proposal, and drawing a new identifier changes no proposal in use.  *)
LEMMA EvidenceStep ==
  ASSUME TypeOK, Known, EvidenceIsReal, LocalStep, Grows
  PROVE  EvidenceIsReal'
<1>1. ASSUME NEW t \in Trial, NEW r \in produced, proposal[r.trial] = proposal[t]
      PROVE  r \in produced' /\ proposal'[r.trial] = proposal'[t]
  <2>1. r.trial \in Trial /\ proposal[r.trial] # NoProposal
    BY DEF TypeOK, Result, Known
  <2> QED
    BY <1>1, <2>1 DEF Grows
<1>2. \A n \in Node, t \in Trial : \A r \in results[n][t] :
        r \in produced' /\ proposal'[r.trial] = proposal'[t]
  BY <1>1 DEF EvidenceIsReal
<1>3. \A n \in Node : \A rec \in Records(n) : \A r \in rec.results :
        r \in produced' /\ proposal'[r.trial] = proposal'[rec.trial]
  <2>1. \A n \in Node : \A rec \in Records(n) : rec.trial \in Trial
    BY RecordsTyped DEF Record
  <2> QED
    BY <1>1, <2>1 DEF EvidenceIsReal
<1>4. CASE Opening
  BY <1>2, <1>3, <1>4, OpeningEffect DEF EvidenceIsReal
<1>5. CASE Counting
  <2>1. PICK n \in Node, t \in Trial, r \in produced : CountedIn(n, t, r)
    BY <1>5, CountingEffect
  <2>2. r \in produced' /\ proposal'[r.trial] = proposal'[t]
    BY <1>1, <2>1 DEF CountedIn
  <2>3. \A k \in Node, u \in Trial : \A q \in results'[k][u] :
          q \in produced' /\ proposal'[q.trial] = proposal'[u]
    BY <1>2, <2>1, <2>2 DEF CountedIn
  <2>4. ASSUME NEW k \in Node, NEW rec \in Records(k)', NEW q \in rec.results
        PROVE  q \in produced' /\ proposal'[q.trial] = proposal'[rec.trial]
    <3>1. CASE rec \in Records(k)
      BY <1>3, <3>1
    <3>2. CASE rec \notin Records(k)
      <4>1. k = n /\ rec.trial = t /\ rec.results = results[n][t] \union {r}
        BY <2>1, <3>2 DEF CountedIn, Files
      <4> QED
        BY <1>2, <2>2, <4>1
    <3> QED
      BY <3>1, <3>2
  <2> QED
    BY <2>3, <2>4 DEF EvidenceIsReal
<1>6. CASE UNCHANGED local
  BY <1>2, <1>3, <1>6 DEF local, EvidenceIsReal, Records
<1> QED
  BY <1>4, <1>5, <1>6 DEF LocalStep

LEMMA InvStep == TrialInv /\ [Next]_vars => TrialInv'
<1> SUFFICES ASSUME TrialInv, [Next]_vars PROVE TrialInv'
  OBVIOUS
<1>1. TypeOK'
  BY NextType DEF TrialInv
<1>2. CASE Next
  <2>1. LocalStep /\ Grows
    BY <1>2, NextShape DEF TrialInv
  <2> QED
    BY <1>1, <1>2, <2>1, KnownStep, OneBallotStep, EvidenceStep, FilesStep DEF TrialInv
<1>3. CASE UNCHANGED vars
  BY <1>1, <1>3
  DEF vars, local, TrialInv, Known, OneBallotPerNode, EvidenceIsReal, FilesAreSound, Records
<1> QED
  BY <1>2, <1>3

LEMMA SpecInv == Spec => []TrialInv
  BY InitInv, InvStep, PTL DEF Spec

-----------------------------------------------------------------------------
(* On a set with one ballot per node, counting results is counting voters.  *)
LEMMA VotersCardinality ==
  ASSUME NEW rs, IsFiniteSet(rs), OneBallot(rs)
  PROVE  Cardinality(Voters(rs)) = Cardinality(rs)
<1> DEFINE voter == [r \in rs |-> r.node]
<1>1. voter \in Bijection(rs, Voters(rs))
  BY DEF Bijection, Injection, IsInjective, Surjection, Voters, OneBallot
<1>2. ExistsBijection(rs, Voters(rs))
  BY <1>1 DEF ExistsBijection
<1> QED
  BY <1>2, FS_Bijection

LEMMA InvBacked == TrialInv => AcceptanceIsBacked
<1> SUFFICES ASSUME TrialInv, NEW n \in Node, NEW rec \in Records(n),
                    rec.status = "accepted"
             PROVE  /\ Cardinality(Voters(rec.results)) >= QuorumSize
                    /\ 100 * Cardinality(Voters(Accepting(rec.results)))
                         >= MinConsensus * Cardinality(Voters(rec.results))
  BY DEF AcceptanceIsBacked
<1> DEFINE rs == rec.results
<1>1. /\ IsFiniteSet(rs) /\ OneBallot(rs)
      /\ IsAccepted(rs) /\ Cardinality(rs) >= QuorumSize
  BY DEF TrialInv, FilesAreSound, OneBallotPerNode
<1>2. IsFiniteSet(Accepting(rs)) /\ OneBallot(Accepting(rs))
  <2>1. Accepting(rs) \in SUBSET rs
    BY DEF Accepting
  <2> QED
    BY <1>1, <2>1, FS_Subset DEF OneBallot
<1>3. /\ Cardinality(Voters(rs)) = Cardinality(rs)
      /\ Cardinality(Voters(Accepting(rs))) = Cardinality(Accepting(rs))
  BY <1>1, <1>2, VotersCardinality
<1> QED
  BY <1>1, <1>3 DEF IsAccepted

(* Type correctness of the coordinators and of the gossip layer. *)
THEOREM TypeCorrect == Spec => []TypeOK
  BY SpecInv, PTL DEF TrialInv

(* No node is counted twice in a trial or in a record of the history,       *)
(* however often it runs and reports (_process_result's duplicate check).   *)
THEOREM OneBallotPerNodeHolds == Spec => []OneBallotPerNode
  BY SpecInv, PTL DEF TrialInv

(* Every counted result comes from a local run of the trial's own proposal, *)
(* whichever branch of _process_result's search found the trial.            *)
THEOREM EvidenceIsRealHolds == Spec => []EvidenceIsReal
  BY SpecInv, PTL DEF TrialInv

(* A record of the history is "accepted" only with a quorum of different    *)
(* nodes of which min_consensus percent accepted (_evaluate_trial).         *)
THEOREM AcceptanceIsBackedHolds == Spec => []AcceptanceIsBacked
  BY SpecInv, InvBacked, PTL

-----------------------------------------------------------------------------
(* A trial evaluated to "voting" is left alone by every step.               *)
LEMMA VotingStep ==
  ASSUME TypeOK, Known, Next,
         NEW n \in Node, NEW t \in Trial, status[n][t] = "voting"
  PROVE  /\ status'[n][t] = "voting"
         /\ results[n][t] \subseteq results'[n][t]
         /\ \A i \in (Len(history[n]) + 1) .. Len(history'[n]) :
              history'[n][i].trial # t
<1>1. LocalStep
  BY NextShape
<1>2. history[n] \in Seq(Record) /\ Len(history[n]) \in Nat
  BY DEF TypeOK
<1>3. ASSUME history'[n] = history[n]
      PROVE  \A i \in (Len(history[n]) + 1) .. Len(history'[n]) :
               history'[n][i].trial # t
  BY <1>2, <1>3
<1>4. ASSUME NEW rec \in Record, history'[n] = Append(history[n], rec), rec.trial # t
      PROVE  \A i \in (Len(history[n]) + 1) .. Len(history'[n]) :
               history'[n][i].trial # t
  BY <1>2, <1>4
<1>5. CASE Opening
  BY <1>3, <1>5 DEF Opening, Open, TypeOK
<1>6. CASE Counting
  <2>1. PICK m \in Node, r \in produced :
          \E u \in Matching(m, r) :
             \/ Collect(m, u, results[m][u] \union {r})
             \/ Evaluate(m, u, results[m][u] \union {r})
    BY <1>6 DEF Counting
  <2>2. PICK u \in Matching(m, r) :
             \/ Collect(m, u, results[m][u] \union {r})
             \/ Evaluate(m, u, results[m][u] \union {r})
    BY <2>1
  <2> DEFINE rs == results[m][u] \union {r}
  <2>3. r \in Result /\ u \in Trial /\ rs \in SUBSET Result
    BY MatchingIsActive DEF TypeOK
  <2>4. CASE Collect(m, u, rs)
    BY <1>3, <2>3, <2>4 DEF Collect, TypeOK
  <2>5. CASE Reject(m, u, rs) /\ status[m][u] = "pending"
    BY <1>3, <2>3, <2>5 DEF Reject, TypeOK
  <2>6. CASE Accept(m, u, rs) /\ status[m][u] = "pending"
    <3>1. [trial |-> u, status |-> "accepted", results |-> rs] \in Record
      BY <2>3 DEF Record
    <3>2. m # n \/ u # t
      BY <2>6
    <3>3. m # n => history'[n] = history[n]
      BY <2>6 DEF Accept, Archive, TypeOK
    <3>4. m = n => history'[n] = Append(history[n],
                     [trial |-> u, status |-> "accepted", results |-> rs])
      BY <2>6 DEF Accept, Archive, TypeOK
    <3>5. status'[n][t] = "voting" /\ results'[n][t] = results[n][t]
      BY <2>3, <2>6, <3>2 DEF Accept, TypeOK
    <3> QED
      BY <1>3, <1>4, <3>1, <3>2, <3>3, <3>4, <3>5
  <2>7. CASE KeepVoting(m, u, rs) /\ status[m][u] = "pending"
    <3>1. [trial |-> u, status |-> "voting", results |-> rs] \in Record
      BY <2>3 DEF Record
    <3>2. m # n \/ u # t
      BY <2>7
    <3>3. m # n => history'[n] = history[n]
      BY <2>7 DEF KeepVoting, Archive, TypeOK
    <3>4. m = n => history'[n] = Append(history[n],
                     [trial |-> u, status |-> "voting", results |-> rs])
      BY <2>7 DEF KeepVoting, Archive, TypeOK
    <3>5. status'[n][t] = "voting" /\ results'[n][t] = results[n][t]
      BY <2>3, <2>7, <3>2 DEF KeepVoting, TypeOK
    <3> QED
      BY <1>3, <1>4, <3>1, <3>2, <3>3, <3>4, <3>5
  <2> QED
    BY <2>2, <2>4, <2>5, <2>6, <2>7 DEF Evaluate
<1>7. CASE UNCHANGED local
  BY <1>3, <1>7 DEF local
<1> QED
  BY <1>1, <1>5, <1>6, <1>7 DEF LocalStep

(* Once _evaluate_trial has left a trial "voting", no later result has it   *)
(* evaluated again: its early return for a trial that is not pending.       *)
THEOREM VotingIsTerminalHolds == Spec => VotingIsTerminal
<1>1. TrialInv /\ [Next]_vars =>
        [\A n \in Node, t \in Trial :
           status[n][t] = "voting" =>
             /\ status'[n][t] = "voting"
             /\ results[n][t] \subseteq results'[n][t]
             /\ ~\E i \in (Len(history[n]) + 1) .. Len(history'[n]) :
                   history'[n][i].trial = t]_vars
  BY VotingStep DEF TrialInv
<1> QED
  BY <1>1, SpecInv, PTL DEF Spec, VotingIsTerminal

-----------------------------------------------------------------------------
(* The refinement.  When gossip delivers a proposal at most once, a trial   *)
(* that is on its way to a node, or filed as accepted there, is not in the  *)
(* node's table: what a coordinator has accepted it never opens again.      *)
DeliveredOnce ==
  /\ \A m \in net : m.type = "trial_proposal" =>
       status[m.to][m.trial] = "absent" /\ Filed(m.to, m.trial) = {}
  /\ \A n \in Node, t \in Trial : Filed(n, t) # {} => status[n][t] = "absent"

LedgerInv == TrialInv /\ DeliveredOnce

LEMMA AcceptedIsFiled ==
  ASSUME NEW n, NEW t
  PROVE  AcceptedAt(n, t) <=> Filed(n, t) # {}
  BY DEF AcceptedAt, Filed

(* A step leaves every cell of the tables but one as it was. *)
SameBox(k, u) ==
  /\ status'[k][u] = status[k][u]
  /\ results'[k][u] = results[k][u]
  /\ Filed(k, u)' = Filed(k, u)

OthersSame(n, t) == \A k \in Node, u \in Trial : ~(k = n /\ u = t) => SameBox(k, u)

(* The three ways a counted result changes the cell it is counted in.       *)
Tallied(n, t, rs) ==
  /\ status'[n][t] = status[n][t]
  /\ results'[n][t] = rs
  /\ Filed(n, t)' = Filed(n, t)
  /\ \/ Cardinality(rs) < QuorumSize
     \/ status[n][t] = "voting"
     \/ status[n][t] = "pending" /\ Cardinality(rs) >= QuorumSize /\ ~IsAccepted(rs)

Suspended(n, t, rs) ==
  /\ status[n][t] = "pending" /\ status'[n][t] = "voting"
  /\ results'[n][t] = rs
  /\ Filed(n, t)' = Filed(n, t)
  /\ Cardinality(rs) >= QuorumSize /\ ~IsAccepted(rs)

Settled(n, t, rs) ==
  /\ status[n][t] = "pending" /\ status'[n][t] = "absent"
  /\ \E rec \in Record : rec.results = rs /\ Filed(n, t)' = Filed(n, t) \union {rec}
  /\ Cardinality(rs) >= QuorumSize /\ IsAccepted(rs)

CastIn(n, t, r) ==
  LET rs == results[n][t] \union {r}
  IN  /\ r \in produced
      /\ status[n][t] # "absent"
      /\ ~HasVoted(n, t, r.node)
      /\ OthersSame(n, t)
      /\ Tallied(n, t, rs) \/ Suspended(n, t, rs) \/ Settled(n, t, rs)

(* Filing a record changes what is filed about its own trial only, and only *)
(* when the record says "accepted".                                         *)
LEMMA FiledOfAppend ==
  ASSUME TypeOK, NEW n \in Node, NEW t \in Trial, NEW rs, NEW verdict,
         [trial |-> t, status |-> verdict, results |-> rs] \in Record,
         Archive(n, t, verdict, rs)
  PROVE  /\ \A k \in Node, u \in Trial : ~(k = n /\ u = t) => Filed(k, u)' = Filed(k, u)
         /\ verdict # "accepted" => Filed(n, t)' = Filed(n, t)
         /\ verdict = "accepted" =>
              Filed(n, t)' = Filed(n, t)
                \union {[trial |-> t, status |-> verdict, results |-> rs]}
<1> DEFINE rec == [trial |-> t, status |-> verdict, results |-> rs]
<1>1. history'[n] = Append(history[n], rec) /\ history[n] \in Seq(Record)
  BY DEF Archive, TypeOK
<1>2. Records(n)' = Records(n) \union {rec}
  BY <1>1, RecordsOfAppend
<1>3. \A k \in Node : k # n => Records(k)' = Records(k)
  BY DEF Archive, TypeOK, Records
<1>4. rec.trial = t /\ rec.status = verdict
  OBVIOUS
<1>5. \A k \in Node, u \in Trial : k # n => Filed(k, u)' = Filed(k, u)
  BY <1>3 DEF Filed
<1>6. \A u \in Trial : u # t => Filed(n, u)' = Filed(n, u)
  BY <1>2, <1>4 DEF Filed
<1>7. verdict # "accepted" => Filed(n, t)' = Filed(n, t)
  BY <1>2, <1>4 DEF Filed
<1>8. verdict = "accepted" => Filed(n, t)' = Filed(n, t) \union {rec}
  BY <1>2, <1>4 DEF Filed
<1> QED
  BY <1>5, <1>6, <1>7, <1>8

LEMMA CountingCasts ==
  ASSUME TypeOK, Counting
  PROVE  \E n \in Node, t \in Trial, r \in Result : CastIn(n, t, r)
<1>0. PICK n \in Node, r \in produced :
        \E t \in Matching(n, r) :
           /\ ~HasVoted(n, t, r.node)
           /\ \/ Collect(n, t, results[n][t] \union {r})
              \/ Evaluate(n, t, results[n][t] \union {r})
  BY DEF Counting
<1>1. PICK t \in Matching(n, r) :
           /\ ~HasVoted(n, t, r.node)
           /\ \/ Collect(n, t, results[n][t] \union {r})
              \/ Evaluate(n, t, results[n][t] \union {r})
  BY <1>0
<1> DEFINE rs == results[n][t] \union {r}
<1>2. r \in Result /\ t \in Trial /\ rs \in SUBSET Result /\ status[n][t] # "absent"
  BY MatchingIsActive DEF TypeOK
<1>3. history' = history => \A k \in Node, u \in Trial : Filed(k, u)' = Filed(k, u)
  BY DEF Filed, Records
<1> SUFFICES OthersSame(n, t)
             /\ (Tallied(n, t, rs) \/ Suspended(n, t, rs) \/ Settled(n, t, rs))
  BY <1>1, <1>2 DEF CastIn
<1>4. status[n][t] \in {"pending", "voting"}
  BY <1>2 DEF TypeOK
<1>5. CASE Collect(n, t, rs)
  BY <1>2, <1>3, <1>4, <1>5 DEF Collect, TypeOK, OthersSame, SameBox, Tallied
<1>6. CASE Reject(n, t, rs) /\ Cardinality(rs) >= QuorumSize /\ status[n][t] = "pending"
  BY <1>2, <1>3, <1>6 DEF Reject, IsRejected, TypeOK, OthersSame, SameBox, Tallied
<1>7. CASE KeepVoting(n, t, rs) /\ Cardinality(rs) >= QuorumSize /\ status[n][t] = "pending"
  <2>1. [trial |-> t, status |-> "voting", results |-> rs] \in Record
    BY <1>2 DEF Record
  <2>2. /\ \A k \in Node, u \in Trial : ~(k = n /\ u = t) => Filed(k, u)' = Filed(k, u)
        /\ Filed(n, t)' = Filed(n, t)
    BY <1>2, <1>7, <2>1, FiledOfAppend DEF KeepVoting
  <2> QED
    BY <1>2, <1>7, <2>2 DEF KeepVoting, TypeOK, OthersSame, SameBox, Suspended
<1>8. CASE Accept(n, t, rs) /\ Cardinality(rs) >= QuorumSize /\ status[n][t] = "pending"
  <2> DEFINE rec == [trial |-> t, status |-> "accepted", results |-> rs]
  <2>1. rec \in Record
    BY <1>2 DEF Record
  <2>a. Archive(n, t, "accepted", rs)
    BY <1>8 DEF Accept
  <2> HIDE DEF rs
  <2>2. /\ \A k \in Node, u \in Trial : ~(k = n /\ u = t) => Filed(k, u)' = Filed(k, u)
        /\ Filed(n, t)' = Filed(n, t) \union {rec}
    BY <1>2, <2>1, <2>a, FiledOfAppend
  <2>3. OthersSame(n, t) /\ status'[n][t] = "absent"
    BY <1>2, <1>8, <2>2 DEF Accept, TypeOK, OthersSame, SameBox
  <2>4. rec.results = rs
    OBVIOUS
  <2>5. Settled(n, t, rs)
    BY <1>8, <2>1, <2>2, <2>3, <2>4 DEF Accept, Settled
  <2> QED
    BY <2>3, <2>5
<1> QED
  BY <1>1, <1>5, <1>6, <1>7, <1>8 DEF Evaluate

(* Opening leaves every other cell and all that is filed as it was.         *)
OpenedAt(n, t) ==
  /\ status[n][t] = "absent" /\ Filed(n, t) = {}
  /\ status'[n][t] = "pending" /\ results'[n][t] = {} /\ Filed(n, t)' = {}
  /\ OthersSame(n, t)

LEMMA OpenIsOpened ==
  ASSUME TypeOK, NEW n \in Node, NEW t \in Trial,
         status[n][t] = "absent", Filed(n, t) = {}, Open(n, t), UNCHANGED history
  PROVE  OpenedAt(n, t)
<1>1. \A k \in Node, u \in Trial : Filed(k, u)' = Filed(k, u)
  BY DEF Filed, Records
<1> QED
  BY <1>1 DEF Open, OpenedAt, OthersSame, SameBox, TypeOK

LEMMA NothingFiled ==
  ASSUME Known, NEW n \in Node, NEW t \in Trial, proposal[t] = NoProposal
  PROVE  status[n][t] = "absent" /\ Filed(n, t) = {}
  BY DEF Known, Filed

(* Counting a result opens nothing. *)
LEMMA NotOpened ==
  ASSUME TypeOK, Counting \/ UNCHANGED local, NEW n \in Node, NEW t \in Trial
  PROVE  ~OpenedAt(n, t)
<1>1. CASE Counting
  <2>1. PICK k \in Node, u \in Trial, r \in Result : CastIn(k, u, r)
    BY <1>1, CountingCasts
  <2>2. status[k][u] # "absent" /\ OthersSame(k, u)
    BY <2>1 DEF CastIn
  <2>3. SUFFICES ASSUME OpenedAt(n, t)
                 PROVE  FALSE
    OBVIOUS
  <2>4. status[n][t] = "absent" /\ status'[n][t] = "pending"
    BY <2>3 DEF OpenedAt
  <2>5. SameBox(n, t)
    BY <2>2, <2>4 DEF OthersSame
  <2> QED
    BY <2>4, <2>5 DEF SameBox
<1>2. CASE UNCHANGED local
  BY <1>2 DEF local, OpenedAt
<1> QED
  BY <1>1, <1>2

(* What a step does to the tables, without Duplicates. *)
BoxStep ==
  \/ \E n \in Node, t \in Trial : OpenedAt(n, t)
  \/ \E n \in Node, t \in Trial, r \in Result : CastIn(n, t, r)
  \/ UNCHANGED local

LEMMA NextBoxStep ==
  ASSUME LedgerInv, Next
  PROVE  BoxStep
<1>0. TypeOK /\ Known
  BY DEF LedgerInv, TrialInv
<1>1. Counting => BoxStep
  BY <1>0, CountingCasts DEF BoxStep
<1>2. ASSUME NEW n \in Node, NEW t \in Trial, NEW p \in Proposal,
             NEW targets \in Targets, ProposeMutation(n, t, p, targets)
      PROVE  BoxStep
  BY <1>0, <1>2, NothingFiled, OpenIsOpened DEF ProposeMutation, BoxStep
<1>3. ASSUME NEW m \in net, ReceiveProposal(m)
      PROVE  BoxStep
  <2>1. m.to \in Node /\ m.trial \in Trial
    BY <1>0, <1>3 DEF TypeOK, ReceiveProposal, ProposalMsg, ResultMsg
  <2>2. Filed(m.to, m.trial) = {}
    BY <1>3 DEF LedgerInv, DeliveredOnce, ReceiveProposal
  <2> QED
    BY <1>0, <1>3, <2>1, <2>2, OpenIsOpened DEF ReceiveProposal, BoxStep, local
<1>4. ASSUME NEW m \in net, ReceiveResult(m)
      PROVE  BoxStep
  <2>1. m.to \in Node /\ m.result \in produced
    BY <1>0, <1>4 DEF TypeOK, ReceiveResult, ProposalMsg, ResultMsg, Known
  <2> QED
    BY <1>1, <1>4, <2>1, ProcessIsLocalStep DEF ReceiveResult, BoxStep
<1>5. ASSUME NEW r \in produced, RecordOwnResult(r)
      PROVE  BoxStep
  <2>1. r.node \in Node
    BY <1>0 DEF TypeOK, Result
  <2> QED
    BY <1>1, <1>5, <2>1, ProcessIsLocalStep DEF RecordOwnResult, BoxStep
<1>6. ASSUME NEW n \in Node, NEW t \in Trial, NEW ok \in Outcomes[t],
             RunLocalTrial(n, t, ok)
      PROVE  BoxStep
  BY <1>6 DEF RunLocalTrial, BoxStep
<1>7. ASSUME NEW r \in produced, ReportResult(r)
      PROVE  BoxStep
  BY <1>7 DEF ReportResult, BoxStep
<1> QED
  BY <1>2, <1>3, <1>4, <1>5, <1>6, <1>7 DEF Next

(* A step never files what it opens, nor opens what is filed. *)
LEMMA FiledStaysClosed ==
  ASSUME LedgerInv, BoxStep,
         NEW n \in Node, NEW t \in Trial, Filed(n, t)' # {}
  PROVE  status'[n][t] = "absent"
<1>1. Filed(n, t) # {} => status[n][t] = "absent"
  BY DEF LedgerInv, DeliveredOnce
<1>2. SameBox(n, t) => status'[n][t] = "absent"
  BY <1>1 DEF SameBox
<1>3. CASE \E k \in Node, u \in Trial : OpenedAt(k, u)
  BY <1>2, <1>3 DEF OpenedAt, OthersSame
<1>4. CASE \E k \in Node, u \in Trial, r \in Result : CastIn(k, u, r)
  BY <1>1, <1>2, <1>4 DEF CastIn, OthersSame, Tallied, Suspended, Settled
<1>5. CASE UNCHANGED local
  BY <1>1, <1>5 DEF local, Filed, Records
<1> QED
  BY <1>3, <1>4, <1>5 DEF BoxStep

(* A proposal still on its way finds its cell as empty as before, unless    *)
(* the step opened that very cell.                                          *)
LEMMA OnItsWay ==
  ASSUME TypeOK, BoxStep, NEW n \in Node, NEW t \in Trial,
         status[n][t] = "absent", Filed(n, t) = {}
  PROVE  OpenedAt(n, t) \/ (status'[n][t] = "absent" /\ Filed(n, t)' = {})
<1>1. SameBox(n, t) => status'[n][t] = "absent" /\ Filed(n, t)' = {}
  BY DEF SameBox
<1>2. CASE \E k \in Node, u \in Trial : OpenedAt(k, u)
  BY <1>1, <1>2 DEF OpenedAt, OthersSame
<1>3. CASE \E k \in Node, u \in Trial, r \in Result : CastIn(k, u, r)
  BY <1>1, <1>3 DEF CastIn, OthersSame
<1>4. CASE UNCHANGED local
  BY <1>4 DEF local, Filed, Records
<1> QED
  BY <1>2, <1>3, <1>4 DEF BoxStep

LEMMA DeliveredStep ==
  ASSUME ~Duplicates, LedgerInv, Next
  PROVE  DeliveredOnce'
<1>0. TypeOK /\ Known /\ DeliveredOnce /\ BoxStep
  BY NextBoxStep DEF LedgerInv, TrialInv
<1>1. \A n \in Node, t \in Trial : Filed(n, t)' # {} => status'[n][t] = "absent"
  BY <1>0, FiledStaysClosed
<1>2. \A m \in net : m.type = "trial_proposal" =>
        /\ m.to \in Node /\ m.trial \in Trial /\ m \in ProposalMsg
        /\ status[m.to][m.trial] = "absent" /\ Filed(m.to, m.trial) = {}
  BY <1>0 DEF TypeOK, ProposalMsg, ResultMsg, DeliveredOnce
<1>3. \A m \in net : m.type = "trial_proposal" =>
        \/ OpenedAt(m.to, m.trial)
        \/ status'[m.to][m.trial] = "absent" /\ Filed(m.to, m.trial)' = {}
  BY <1>0, <1>2, OnItsWay
<1> SUFFICES ASSUME NEW m \in net', m.type = "trial_proposal"
             PROVE  status'[m.to][m.trial] = "absent" /\ Filed(m.to, m.trial)' = {}
  BY <1>1 DEF DeliveredOnce
<1>4. ASSUME NEW n \in Node, NEW t \in Trial, NEW p \in Proposal,
             NEW targets \in Targets, ProposeMutation(n, t, p, targets)
      PROVE  status'[m.to][m.trial] = "absent" /\ Filed(m.to, m.trial)' = {}
  <2>1. status[n][t] = "absent" /\ Filed(n, t) = {}
    BY <1>0, <1>4, NothingFiled DEF ProposeMutation
  <2>2. OpenedAt(n, t)
    BY <1>0, <1>4, <2>1, OpenIsOpened DEF ProposeMutation
  <2>3. \A k \in Node, u \in Trial : ~(k = n /\ u = t) => ~OpenedAt(k, u)
    BY <2>2 DEF OpenedAt, OthersSame, SameBox
  <2>4. CASE m \in net
    <3>1. proposal[m.trial] # NoProposal
      BY <1>0, <2>4 DEF Known
    <3>2. m.trial # t
      BY <1>4, <3>1 DEF ProposeMutation
    <3> QED
      BY <1>2, <1>3, <2>3, <2>4, <3>2
  <2>5. CASE m \notin net
    <3>1. m.to \in targets \ {n} /\ m.trial = t
      BY <1>4, <2>5 DEF ProposeMutation
    <3>2. m.to \in Node /\ m.to # n
      BY <3>1, TrialAssumption
    <3>3. status[m.to][t] = "absent" /\ Filed(m.to, t) = {}
      BY <1>0, <1>4, <3>2, NothingFiled DEF ProposeMutation
    <3> QED
      BY <2>2, <3>1, <3>2, <3>3 DEF OpenedAt, OthersSame, SameBox
  <2> QED
    BY <2>4, <2>5
<1>5. ASSUME NEW q \in net, ReceiveProposal(q)
      PROVE  status'[m.to][m.trial] = "absent" /\ Filed(m.to, m.trial)' = {}
  <2>1. m \in net /\ m # q
    BY <1>5 DEF ReceiveProposal, Consume
  <2>2. q.to \in Node /\ q.trial \in Trial /\ q \in ProposalMsg
        /\ status[q.to][q.trial] = "absent" /\ Filed(q.to, q.trial) = {}
    BY <1>2, <1>5 DEF ReceiveProposal
  <2>3. OpenedAt(q.to, q.trial)
    BY <1>0, <1>5, <2>2, OpenIsOpened DEF ReceiveProposal
  <2>4. ~(m.to = q.to /\ m.trial = q.trial)
    BY <1>2, <2>1, <2>2 DEF ProposalMsg
  <2> QED
    BY <1>2, <2>1, <2>3, <2>4 DEF OpenedAt, OthersSame, SameBox
<1>6. ASSUME NEW q \in net, ReceiveResult(q)
      PROVE  m \in net /\ ~OpenedAt(m.to, m.trial)
  <2>1. q.to \in Node /\ q.result \in produced
    BY <1>0, <1>6 DEF TypeOK, ReceiveResult, ProposalMsg, ResultMsg, Known
  <2>2. Counting \/ UNCHANGED local
    BY <1>6, <2>1, ProcessIsLocalStep DEF ReceiveResult
  <2> QED
    BY <1>0, <1>2, <1>6, <2>2, NotOpened DEF ReceiveResult, Consume
<1>7. ASSUME NEW r \in produced, RecordOwnResult(r)
      PROVE  m \in net /\ ~OpenedAt(m.to, m.trial)
  <2>1. r.node \in Node
    BY <1>0 DEF TypeOK, Result
  <2>2. Counting \/ UNCHANGED local
    BY <1>7, <2>1, ProcessIsLocalStep DEF RecordOwnResult
  <2> QED
    BY <1>0, <1>2, <1>7, <2>2, NotOpened DEF RecordOwnResult
<1>8. ASSUME UNCHANGED local
      PROVE  \A n \in Node, t \in Trial : ~OpenedAt(n, t)
  BY <1>0, <1>8, NotOpened
<1>9. ASSUME NEW r \in produced, ReportResult(r)
      PROVE  m \in net /\ ~OpenedAt(m.to, m.trial)
  <2>1. m \in net
    BY <1>9 DEF ReportResult, Reports
  <2> QED
    BY <1>2, <1>8, <1>9, <2>1 DEF ReportResult
<1>10. ASSUME NEW n \in Node, NEW t \in Trial, NEW ok \in Outcomes[t],
              RunLocalTrial(n, t, ok)
       PROVE  m \in net /\ ~OpenedAt(m.to, m.trial)
  BY <1>2, <1>8, <1>10 DEF RunLocalTrial
<1> QED
  BY <1>3, <1>4, <1>5, <1>6, <1>7, <1>9, <1>10 DEF Next

LEMMA LedgerInvHolds == ~Duplicates /\ Spec => []LedgerInv
<1> SUFFICES ASSUME ~Duplicates PROVE Spec => []LedgerInv
  OBVIOUS
<1>1. Init => LedgerInv
  <2> SUFFICES ASSUME Init PROVE LedgerInv
    OBVIOUS
  <2>1. net = {} /\ \A n \in Node : Records(n) = {}
    BY DEF Init, Records
  <2> QED
    BY <2>1, InitInv DEF LedgerInv, DeliveredOnce, Filed
<1>2. LedgerInv /\ [Next]_vars => LedgerInv'
  <2> SUFFICES ASSUME LedgerInv, [Next]_vars PROVE LedgerInv'
    OBVIOUS
  <2>1. CASE Next
    BY <2>1, DeliveredStep, InvStep DEF LedgerInv
  <2>2. CASE UNCHANGED vars
    BY <2>2, InvStep DEF LedgerInv, DeliveredOnce, vars, local, Filed, Records
  <2> QED
    BY <2>1, <2>2
<1> QED
  BY <1>1, <1>2, PTL DEF Spec

-----------------------------------------------------------------------------
(* The step simulation: an opened cell opens a box, a counted result casts  *)
(* the ballot of its node, and nothing else changes a box.                  *)

YesOf(n, t) == Voters(Accepting(Ballots(n, t)))
NoOf(n, t) == Voters(Refusing(Ballots(n, t)))

LEMMA SameBoxSameLedger ==
  ASSUME NEW k, NEW u, SameBox(k, u)
  PROVE  /\ Verdict(k, u)' = Verdict(k, u)
         /\ YesOf(k, u)' = YesOf(k, u)
         /\ NoOf(k, u)' = NoOf(k, u)
<1>1. Ballots(k, u)' = Ballots(k, u)
  BY DEF SameBox, Ballots
<1>2. AcceptedAt(k, u)' <=> AcceptedAt(k, u)
  BY DEF SameBox, AcceptedAt, Filed
<1>3. Verdict(k, u)' = Verdict(k, u)
  BY <1>2 DEF SameBox, Verdict
<1> QED
  BY <1>1, <1>3 DEF YesOf, NoOf

(* Adding the result of a node that has not voted adds it to one side.      *)
LEMMA AddingABallot ==
  ASSUME NEW rs, IsFiniteSet(rs), OneBallot(rs), NEW r \in Result,
         rs \subseteq Result, \A q \in rs : q.node # r.node
  PROVE  LET ts == rs \union {r}
         IN  /\ IsFiniteSet(ts) /\ OneBallot(ts)
             /\ r.node \notin Voters(Accepting(rs)) \union Voters(Refusing(rs))
             /\ r.accepted =>
                  /\ Voters(Accepting(ts)) = Voters(Accepting(rs)) \union {r.node}
                  /\ Voters(Refusing(ts)) = Voters(Refusing(rs))
             /\ ~r.accepted =>
                  /\ Voters(Accepting(ts)) = Voters(Accepting(rs))
                  /\ Voters(Refusing(ts)) = Voters(Refusing(rs)) \union {r.node}
<1>1. IsFiniteSet(rs \union {r})
  BY FS_AddElement
<1>2. OneBallot(rs \union {r})
  BY DEF OneBallot
<1>3. r.node \notin Voters(Accepting(rs)) \union Voters(Refusing(rs))
  BY DEF Voters, Accepting, Refusing
<1>4. r.accepted => /\ Accepting(rs \union {r}) = Accepting(rs) \union {r}
                    /\ Refusing(rs \union {r}) = Refusing(rs)
  BY DEF Accepting, Refusing
<1>5. ~r.accepted => /\ Accepting(rs \union {r}) = Accepting(rs)
                     /\ Refusing(rs \union {r}) = Refusing(rs) \union {r}
  BY DEF Accepting, Refusing
<1>6. \A qs : Voters(qs \union {r}) = Voters(qs) \union {r.node}
  BY DEF Voters
<1> QED
  BY <1>1, <1>2, <1>3, <1>4, <1>5, <1>6

(* The ledger counts with its own instance of FiniteSets. *)
LEMMA SameCardinality == \A S : Ledger!Cardinality(S) = Cardinality(S)
  BY DEF Ledger!Cardinality, Cardinality, Ledger!IsFiniteSet, IsFiniteSet

(* Counting results is counting both sides of the ballot box. *)
LEMMA VerdictOnVoters ==
  ASSUME NEW rs, IsFiniteSet(rs), OneBallot(rs)
  PROVE  LET y == Voters(Accepting(rs))  x == Voters(Refusing(rs))
         IN  /\ Ledger!HasQuorum(y, x) <=> Cardinality(rs) >= QuorumSize
             /\ Ledger!Carries(y, x) <=> IsAccepted(rs)
<1> DEFINE y == Voters(Accepting(rs))
           x == Voters(Refusing(rs))
<1>1. /\ Accepting(rs) \subseteq rs /\ Refusing(rs) \subseteq rs
      /\ Accepting(rs) \cap Refusing(rs) = {}
      /\ Accepting(rs) \union Refusing(rs) = rs
  BY DEF Accepting, Refusing
<1>2. IsFiniteSet(Accepting(rs)) /\ IsFiniteSet(Refusing(rs))
  BY <1>1, FS_Subset
<1>3. OneBallot(Accepting(rs)) /\ OneBallot(Refusing(rs))
  BY <1>1 DEF OneBallot
<1>4. Cardinality(y) = Cardinality(Accepting(rs)) /\ Cardinality(x) = Cardinality(Refusing(rs))
  BY <1>2, <1>3, VotersCardinality
<1>5. Cardinality(rs) = Cardinality(Accepting(rs)) + Cardinality(Refusing(rs))
  <2>1. Cardinality(Accepting(rs) \cap Refusing(rs)) = 0
    BY <1>1, FS_EmptySet
  <2>2. Cardinality(Accepting(rs)) \in Nat /\ Cardinality(Refusing(rs)) \in Nat
    BY <1>2, FS_CardinalityType
  <2>3. Cardinality(Accepting(rs) \union Refusing(rs)) =
          Cardinality(Accepting(rs)) + Cardinality(Refusing(rs))
            - Cardinality(Accepting(rs) \cap Refusing(rs))
    BY <1>2, FS_Union
  <2>4. Cardinality(rs) = Cardinality(Accepting(rs) \union Refusing(rs))
    BY <1>1
  <2> QED
    BY <2>1, <2>2, <2>3, <2>4
<1>6. y # {} <=> Accepting(rs) # {}
  BY DEF Voters
<1> HIDE DEF x, y
<1>7. Ledger!HasQuorum(y, x) <=> Cardinality(rs) >= QuorumSize
  BY <1>4, <1>5, SameCardinality DEF Ledger!HasQuorum
<1>8. Ledger!Carries(y, x) <=> IsAccepted(rs)
  BY <1>4, <1>5, <1>6, SameCardinality DEF Ledger!Carries, IsAccepted
<1> QED
  BY <1>7, <1>8 DEF x, y

(* The two sides of the boxes under the refinement mapping. *)
YesBox == [n \in Node |-> [t \in Trial |-> YesOf(n, t)]]
NoBox == [n \in Node |-> [t \in Trial |-> NoOf(n, t)]]

(* Writing into a cell what it holds changes nothing. *)
LEMMA ExceptSame ==
  ASSUME NEW f, f = [n \in Node |-> [t \in Trial |-> f[n][t]]],
         NEW n \in Node, NEW t \in Trial
  PROVE  [f EXCEPT ![n][t] = f[n][t]] = f
<1>1. [f[n] EXCEPT ![t] = f[n][t]] = f[n]
  <2>1. f[n] = [u \in Trial |-> f[n][u]]
    OBVIOUS
  <2> QED
    BY <2>1
<1>2. [f EXCEPT ![n][t] = f[n][t]] = [f EXCEPT ![n] = f[n]]
  BY <1>1
<1> QED
  BY <1>2

LEMMA RewritingABox ==
  ASSUME NEW n \in Node, NEW t \in Trial
  PROVE  /\ [YesBox EXCEPT ![n][t] = YesBox[n][t]] = YesBox
         /\ [NoBox EXCEPT ![n][t] = NoBox[n][t]] = NoBox
<1>1. YesBox = [k \in Node |-> [u \in Trial |-> YesBox[k][u]]]
  BY DEF YesBox
<1>2. NoBox = [k \in Node |-> [u \in Trial |-> NoBox[k][u]]]
  BY DEF NoBox
<1>3. [YesBox EXCEPT ![n][t] = YesBox[n][t]] = YesBox
  BY <1>1, ExceptSame
<1>4. [NoBox EXCEPT ![n][t] = NoBox[n][t]] = NoBox
  BY <1>2, ExceptSame
<1> QED
  BY <1>3, <1>4

(* A cell that changes in one way, the others staying, is one EXCEPT.       *)
LEMMA BoxesChange ==
  ASSUME NEW n \in Node, NEW t \in Trial, OthersSame(n, t)
  PROVE  /\ LedgerVerdict' = [LedgerVerdict EXCEPT ![n][t] = Verdict(n, t)']
         /\ YesBox' = [YesBox EXCEPT ![n][t] = YesOf(n, t)']
         /\ NoBox' = [NoBox EXCEPT ![n][t] = NoOf(n, t)']
<1>1. \A k \in Node, u \in Trial : ~(k = n /\ u = t) =>
        /\ Verdict(k, u)' = Verdict(k, u)
        /\ YesOf(k, u)' = YesOf(k, u)
        /\ NoOf(k, u)' = NoOf(k, u)
  BY SameBoxSameLedger DEF OthersSame
<1>2. LedgerVerdict' = [LedgerVerdict EXCEPT ![n][t] = Verdict(n, t)']
  BY <1>1 DEF LedgerVerdict
<1>3. YesBox' = [YesBox EXCEPT ![n][t] = YesOf(n, t)']
  BY <1>1 DEF YesBox
<1>4. NoBox' = [NoBox EXCEPT ![n][t] = NoOf(n, t)']
  BY <1>1 DEF NoBox
<1> QED
  BY <1>2, <1>3, <1>4

LEMMA OpeningSimulates ==
  ASSUME NEW n \in Node, NEW t \in Trial, OpenedAt(n, t)
  PROVE  Ledger!OpenBox(n, t)
<1>1. ~AcceptedAt(n, t)
  BY DEF OpenedAt, AcceptedAt, Filed
<1>2. Verdict(n, t) = "none" /\ Verdict(n, t)' = "open"
  BY <1>1 DEF OpenedAt, Verdict
<1>3. Ballots(n, t) = {} /\ Ballots(n, t)' = {}
  BY DEF OpenedAt, Ballots
<1>4. YesOf(n, t)' = YesOf(n, t) /\ NoOf(n, t)' = NoOf(n, t)
  BY <1>3 DEF YesOf, NoOf
<1>5. /\ LedgerVerdict' = [LedgerVerdict EXCEPT ![n][t] = "open"]
      /\ YesBox' = [YesBox EXCEPT ![n][t] = YesOf(n, t)]
      /\ NoBox' = [NoBox EXCEPT ![n][t] = NoOf(n, t)]
  BY <1>2, <1>4, BoxesChange DEF OpenedAt
<1>6. LedgerVerdict[n][t] = "none" /\ YesBox[n][t] = YesOf(n, t) /\ NoBox[n][t] = NoOf(n, t)
  BY <1>2 DEF LedgerVerdict, YesBox, NoBox
<1>7. YesBox' = YesBox /\ NoBox' = NoBox
  BY <1>5, <1>6, RewritingABox
<1> QED
  BY <1>5, <1>6, <1>7 DEF Ledger!OpenBox, YesBox, NoBox, YesOf, NoOf

LEMMA CastingSimulates ==
  ASSUME LedgerInv, NEW n \in Node, NEW t \in Trial, NEW r \in Result, CastIn(n, t, r)
  PROVE  Ledger!CastBallot(n, t, r.node)
<1> DEFINE os == results[n][t]
           rs == os \union {r}
           y == YesOf(n, t)'
           x == NoOf(n, t)'
<1>1. Ballots(n, t) = os
  BY DEF CastIn, Ballots
<1>2. Ballots(n, t)' = rs
  <2>1. CASE Tallied(n, t, rs)
    BY <2>1 DEF CastIn, Tallied, Ballots
  <2>2. CASE Suspended(n, t, rs)
    BY <2>2 DEF Suspended, Ballots
  <2>3. CASE Settled(n, t, rs)
    <3>1. Filed(n, t) = {}
      BY <2>3 DEF Settled, LedgerInv, DeliveredOnce
    <3>2. PICK rec : rec.results = rs /\ Filed(n, t)' = {rec}
      BY <2>3, <3>1 DEF Settled
    <3> QED
      BY <2>3, <3>2 DEF Settled, Ballots
  <2> QED
    BY <2>1, <2>2, <2>3 DEF CastIn
<1>3. /\ IsFiniteSet(os) /\ OneBallot(os) /\ os \subseteq Result
      /\ \A q \in os : q.node # r.node
  BY DEF LedgerInv, TrialInv, FilesAreSound, OneBallotPerNode, TypeOK, CastIn, HasVoted
<1>4. /\ IsFiniteSet(rs) /\ OneBallot(rs)
      /\ r.node \notin YesOf(n, t) \union NoOf(n, t)
      /\ r.accepted => y = YesOf(n, t) \union {r.node} /\ x = NoOf(n, t)
      /\ ~r.accepted => y = YesOf(n, t) /\ x = NoOf(n, t) \union {r.node}
  <2>1. /\ YesOf(n, t) = Voters(Accepting(os)) /\ NoOf(n, t) = Voters(Refusing(os))
        /\ y = Voters(Accepting(rs)) /\ x = Voters(Refusing(rs))
    BY <1>1, <1>2 DEF YesOf, NoOf
  <2> HIDE DEF os, y, x
  <2> QED
    BY <1>3, <2>1, AddingABallot
<1>5. /\ Ledger!HasQuorum(y, x) <=> Cardinality(rs) >= QuorumSize
      /\ Ledger!Carries(y, x) <=> IsAccepted(rs)
  BY <1>2, <1>4, VerdictOnVoters DEF YesOf, NoOf
<1>6. /\ LedgerVerdict' = [LedgerVerdict EXCEPT ![n][t] = Verdict(n, t)']
      /\ YesBox' = [YesBox EXCEPT ![n][t] = y]
      /\ NoBox' = [NoBox EXCEPT ![n][t] = x]
  BY BoxesChange DEF CastIn
<1>7. /\ LedgerVerdict[n][t] = Verdict(n, t)
      /\ YesBox[n][t] = YesOf(n, t) /\ NoBox[n][t] = NoOf(n, t)
      /\ YesBox'[n][t] = y /\ NoBox'[n][t] = x
      /\ LedgerVerdict \in [Node -> [Trial -> {"open", "voting", "accepted", "none"}]]
  BY DEF LedgerVerdict, YesBox, NoBox, Verdict
<1>8. r.node \in Node /\ (r.accepted \/ ~r.accepted)
  BY DEF Result
<1>a. /\ YesBox[n][t] = y => YesBox' = YesBox
      /\ NoBox[n][t] = x => NoBox' = NoBox
  <2> HIDE DEF y, x
  <2> QED
    BY <1>6, RewritingABox
<1>9. \/ YesBox' = [YesBox EXCEPT ![n][t] = @ \union {r.node}] /\ NoBox' = NoBox
      \/ NoBox' = [NoBox EXCEPT ![n][t] = @ \union {r.node}] /\ YesBox' = YesBox
  <2> HIDE DEF y, x
  <2>1. CASE r.accepted
    BY <1>4, <1>6, <1>7, <1>a, <2>1
  <2>2. CASE ~r.accepted
    BY <1>4, <1>6, <1>7, <1>a, <2>2
  <2> QED
    BY <2>1, <2>2
<1>10. Verdict(n, t) \in {"open", "voting"}
  <2>1. status[n][t] \in {"pending", "voting"}
    BY DEF CastIn, LedgerInv, TrialInv, TypeOK
  <2> QED
    BY <2>1 DEF Verdict
<1>11. Tallied(n, t, rs) =>
         /\ Verdict(n, t)' = Verdict(n, t)
         /\ \/ Verdict(n, t) = "voting"
            \/ ~(Cardinality(rs) >= QuorumSize)
            \/ Verdict(n, t) = "open" /\ Cardinality(rs) >= QuorumSize /\ ~IsAccepted(rs)
  <2>1. status[n][t] \in {"pending", "voting"}
    BY DEF CastIn, LedgerInv, TrialInv, TypeOK
  <2>2. Cardinality(rs) \in Nat
    BY <1>4, FS_CardinalityType
  <2> HIDE DEF rs
  <2> QED
    BY <2>1, <2>2 DEF Tallied, Verdict, QuorumSize
<1>12. Suspended(n, t, rs) =>
         /\ Verdict(n, t) = "open" /\ Verdict(n, t)' = "voting"
         /\ Cardinality(rs) >= QuorumSize /\ ~IsAccepted(rs)
  BY DEF Suspended, Verdict
<1>13. Settled(n, t, rs) =>
         /\ Verdict(n, t) = "open" /\ Verdict(n, t)' = "accepted"
         /\ Cardinality(rs) >= QuorumSize /\ IsAccepted(rs)
  BY DEF Settled, Verdict, AcceptedAt, Filed
<1>14. \/ /\ Verdict(n, t) = "voting" \/ ~Ledger!HasQuorum(y, x)
          /\ LedgerVerdict' = LedgerVerdict
       \/ /\ Verdict(n, t) = "open"
          /\ Ledger!HasQuorum(y, x)
          /\ \E v \in IF Ledger!Carries(y, x) THEN {"accepted"} ELSE {"open", "voting"} :
               LedgerVerdict' = [LedgerVerdict EXCEPT ![n][t] = v]
  <2> HIDE DEF y, x, rs
  <2>1. Verdict(n, t)' = Verdict(n, t) => LedgerVerdict' = LedgerVerdict
    BY <1>6, <1>7
  <2>2. CASE Tallied(n, t, rs)
    BY <1>5, <1>6, <1>11, <2>1, <2>2
  <2>3. CASE Suspended(n, t, rs)
    BY <1>5, <1>6, <1>12, <2>3
  <2>4. CASE Settled(n, t, rs)
    BY <1>5, <1>6, <1>13, <2>4
  <2> QED
    BY <2>2, <2>3, <2>4 DEF CastIn, rs
<1> QED
  <2> HIDE DEF y, x, rs
  <2>1. /\ LedgerVerdict[n][t] \in {"open", "voting"}
        /\ r.node \notin YesBox[n][t] \union NoBox[n][t]
    BY <1>4, <1>7, <1>10
  <2>2. \/ /\ LedgerVerdict[n][t] = "voting" \/ ~Ledger!HasQuorum(YesBox'[n][t], NoBox'[n][t])
           /\ LedgerVerdict' = LedgerVerdict
        \/ /\ LedgerVerdict[n][t] = "open"
           /\ Ledger!HasQuorum(YesBox'[n][t], NoBox'[n][t])
           /\ \E v \in IF Ledger!Carries(YesBox'[n][t], NoBox'[n][t])
                         THEN {"accepted"} ELSE {"open", "voting"} :
                LedgerVerdict' = [LedgerVerdict EXCEPT ![n][t] = v]
    BY <1>7, <1>14
  <2> QED
    BY <1>9, <2>1, <2>2 DEF Ledger!CastBallot, YesBox, NoBox, YesOf, NoOf

(* Without duplicated delivery every coordinator is a ballot box: one       *)
(* ballot per node, accepted on the ballot that gives a quorum with         *)
(* consensus, and never opened again (_process_result, _evaluate_trial).    *)
THEOREM LedgerRefinement == ~Duplicates /\ Spec => ImplementsLedger
<1> SUFFICES ASSUME ~Duplicates PROVE Spec => ImplementsLedger
  OBVIOUS
<1>1. Init => Ledger!LedgerInit
  <2> SUFFICES ASSUME Init PROVE Ledger!LedgerInit
    OBVIOUS
  <2>1. \A n \in Node, t \in Trial : Verdict(n, t) = "none" /\ Ballots(n, t) = {}
    BY DEF Init, Verdict, Ballots, AcceptedAt, Filed, Records
  <2>2. Voters(Accepting({})) = {} /\ Voters(Refusing({})) = {}
    BY DEF Voters, Accepting, Refusing
  <2> QED
    BY <2>1, <2>2 DEF Ledger!LedgerInit, LedgerVerdict
<1>2. LedgerInv /\ [Next]_vars => [Ledger!LedgerNext]_(Ledger!ledger)
  <2> SUFFICES ASSUME LedgerInv, [Next]_vars
               PROVE  Ledger!LedgerNext \/ UNCHANGED Ledger!ledger
    OBVIOUS
  <2>1. UNCHANGED local \/ UNCHANGED vars => UNCHANGED Ledger!ledger
    <3> SUFFICES ASSUME UNCHANGED local PROVE UNCHANGED Ledger!ledger
      BY DEF vars
    <3>1. \A n \in Node, t \in Trial : SameBox(n, t)
      BY DEF local, SameBox, Filed, Records
    <3>2. \A n \in Node, t \in Trial :
            /\ Verdict(n, t)' = Verdict(n, t)
            /\ YesOf(n, t)' = YesOf(n, t)
            /\ NoOf(n, t)' = NoOf(n, t)
      BY <3>1, SameBoxSameLedger
    <3>3. LedgerVerdict' = LedgerVerdict
      BY <3>2 DEF LedgerVerdict
    <3>4. YesBox' = YesBox /\ NoBox' = NoBox
      BY <3>2 DEF YesBox, NoBox
    <3> QED
      BY <3>3, <3>4 DEF Ledger!ledger, YesBox, NoBox, YesOf, NoOf
  <2>2. CASE \E n \in Node, t \in Trial : OpenedAt(n, t)
    BY <2>2, OpeningSimulates DEF Ledger!LedgerNext
  <2>3. CASE \E n \in Node, t \in Trial, r \in Result : CastIn(n, t, r)
    BY <2>3, CastingSimulates DEF Ledger!LedgerNext, Result
  <2> QED
    BY <2>1, <2>2, <2>3, NextBoxStep DEF BoxStep
<1> QED
  BY <1>1, <1>2, LedgerInvHolds, PTL DEF Spec, ImplementsLedger, Ledger!Spec

=============================================================================
