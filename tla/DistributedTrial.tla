-------------------------- MODULE DistributedTrial --------------------------
(***************************************************************************)
(* Coordinators that try a mutation on several nodes and vote on it        *)
(* (mother_evolution/distributed_trial.py).  Every node has a              *)
(* DistributedTrialCoordinator.  A caller proposes a mutation at one node, *)
(* the nodes that hear of it run it in their own sandbox and report the    *)
(* result to the others, and each coordinator counts the results it hears  *)
(* and evaluates the trial as soon as it holds QuorumSize of them.         *)
(*                                                                         *)
(* The gossip layer is external.  It delivers messages in any order, and   *)
(* when Duplicates holds any number of times: the one transport of the     *)
(* repository, mother_relay/wave_gossip.py, sends UDP datagrams.  In Spec  *)
(* it owes no message a delivery: one that is lost is never delivered.     *)
(***************************************************************************)
EXTENDS Integers, Sequences, FiniteSets

CONSTANTS
  Node,          \* the nodes, each with one coordinator
  Trial,         \* trial identifiers, in the code fresh uuids
  Proposal,      \* identifiers of mutation proposals
  NoProposal,    \* the proposal of a trial identifier not yet drawn
  MinConsensus,  \* min_consensus, in percent
  Targets,       \* bound: the sets of target nodes a caller passes
  Listeners,     \* bound: the nodes that result broadcasts can reach
  Outcomes,      \* bound: the verdicts a sandbox run of a trial can end in
  MaxRuns,       \* bound: local runs of one trial on one node
  MaxHistory,    \* bound: history length past which no trial is opened
  Duplicates     \* whether gossip may deliver a message more than once

ASSUME TrialAssumption ==
  /\ NoProposal \notin Proposal
  /\ MinConsensus \in 1..100
  /\ Targets \subseteq SUBSET Node
  /\ Listeners \subseteq Node
  /\ Outcomes \in [Trial -> SUBSET BOOLEAN]
  /\ MaxRuns \in Nat
  /\ MaxHistory \in Nat
  /\ Duplicates \in BOOLEAN

VARIABLES
  proposal,  \* the proposal each trial identifier was drawn for
  status,    \* status of each trial in _active_trials, "absent" if not there
  results,   \* the results each active trial has collected
  older,     \* insertion order of _active_trials: pairs (earlier, later)
  history,   \* _trial_history
  raised,    \* trials whose evaluation raised at that coordinator
  produced,  \* results that run_local_trial has returned to its callers
  net        \* messages the gossip layer holds

local == <<status, results, older, history, raised>>
vars  == <<proposal, local, produced, net>>

QuorumSize == 3

(* What run_local_trial returns has fitness > 0 exactly when it accepts, so *)
(* the fitness of a result is abstracted to its verdict.                    *)
Result == [trial : Trial, node : Node, accepted : BOOLEAN]

ProposalMsg == [type : {"trial_proposal"}, to : Node, trial : Trial]
ResultMsg   == [type : {"trial_result"}, to : Node, result : Result]

Record == [trial : Trial, status : {"accepted", "voting"}, results : SUBSET Result]

-----------------------------------------------------------------------------
(* The verdict on a set of results. *)

Accepting(rs) == {r \in rs : r.accepted}

(* Mutant of IsAccepted: one acceptance is enough. *)
IsAcceptedByAny(rs) == Accepting(rs) # {}

(* acceptance_rate >= min_consensus and avg_fitness > 0 *)
IsAccepted(rs) ==
  /\ 100 * Cardinality(Accepting(rs)) >= MinConsensus * Cardinality(rs)
  /\ Accepting(rs) # {}

(* otherwise, acceptance_rate < 0.3 or avg_fitness <= 0 *)
IsRejected(rs) ==
  /\ ~IsAccepted(rs)
  /\ \/ 10 * Cardinality(Accepting(rs)) < 3 * Cardinality(rs)
     \/ Accepting(rs) = {}

-----------------------------------------------------------------------------
(* The table of active trials of one coordinator. *)

Active(n) == {t \in Trial : status[n][t] # "absent"}

Open(n, t) ==
  /\ status' = [status EXCEPT ![n][t] = "pending"]
  /\ results' = [results EXCEPT ![n][t] = {}]
  /\ older' = [older EXCEPT ![n] = @ \union (Active(n) \X {t})]

(* Mutant of Matching: the fallback search takes the first active trial.    *)
MatchingAnyTrial(n, r) ==
  IF status[n][r.trial] # "absent"
    THEN {r.trial}
    ELSE {t \in Active(n) : \A u \in Active(n) : <<u, t>> \notin older[n]}

(* The trial a result is counted in: the one with its trial_id if that is   *)
(* active, else the first active one, in insertion order, of its proposal.  *)
Matching(n, r) ==
  IF status[n][r.trial] # "absent"
    THEN {r.trial}
    ELSE {t \in Active(n) :
            /\ proposal[t] = proposal[r.trial]
            /\ \A u \in Active(n) :
                 proposal[u] = proposal[r.trial] => <<u, t>> \notin older[n]}

(* Mutant of HasVoted: no check for a second result of a node. *)
HasNeverVoted(n, t, m) == FALSE

HasVoted(n, t, m) == \E r \in results[n][t] : r.node = m

-----------------------------------------------------------------------------
(* _process_result and the _evaluate_trial it calls. *)

Ignore(n, r) ==
  /\ \A t \in Matching(n, r) : HasVoted(n, t, r.node)
  /\ UNCHANGED local

(* Mutant of Collect: results beyond the third are needed to evaluate. *)
CollectOneMore(n, t, rs) ==
  /\ \/ Cardinality(rs) <= QuorumSize
     \/ status[n][t] # "pending"
  /\ results' = [results EXCEPT ![n][t] = rs]
  /\ UNCHANGED <<status, older, history, raised>>

(* Below the quorum, or the trial has been evaluated to "voting" before. *)
Collect(n, t, rs) ==
  /\ \/ Cardinality(rs) < QuorumSize
     \/ status[n][t] # "pending"
  /\ results' = [results EXCEPT ![n][t] = rs]
  /\ UNCHANGED <<status, older, history, raised>>

Archive(n, t, verdict, rs) ==
  history' = [history EXCEPT ![n] =
                Append(@, [trial |-> t, status |-> verdict, results |-> rs])]

(* Mutant of Accept: the trial is filed but not deleted from the table. *)
AcceptUndeleted(n, t, rs) ==
  /\ IsAccepted(rs)
  /\ Archive(n, t, "accepted", rs)
  /\ status' = [status EXCEPT ![n][t] = "accepted"]
  /\ results' = [results EXCEPT ![n][t] = rs]
  /\ UNCHANGED <<older, raised>>

Accept(n, t, rs) ==
  /\ IsAccepted(rs)
  /\ Archive(n, t, "accepted", rs)
  /\ status' = [status EXCEPT ![n][t] = "absent"]
  /\ results' = [results EXCEPT ![n][t] = {}]
  /\ older' = [older EXCEPT ![n] = {p \in @ : p[1] # t /\ p[2] # t}]
  /\ UNCHANGED raised

(* The rejecting branch assigns to trial.status.status, status being a str: *)
(* the AttributeError leaves the result appended and the trial pending.     *)
Reject(n, t, rs) ==
  /\ IsRejected(rs)
  /\ results' = [results EXCEPT ![n][t] = rs]
  /\ raised' = [raised EXCEPT ![n] = @ \union {t}]
  /\ UNCHANGED <<status, older, history>>

KeepVoting(n, t, rs) ==
  /\ ~IsAccepted(rs)
  /\ ~IsRejected(rs)
  /\ Archive(n, t, "voting", rs)
  /\ status' = [status EXCEPT ![n][t] = "voting"]
  /\ results' = [results EXCEPT ![n][t] = rs]
  /\ UNCHANGED <<older, raised>>

(* Mutant of Evaluate: no early return for a trial evaluated before. *)
EvaluateAgain(n, t, rs) ==
  /\ Cardinality(rs) >= QuorumSize
  /\ Accept(n, t, rs) \/ Reject(n, t, rs) \/ KeepVoting(n, t, rs)

(* Mutant of Evaluate: two results make a quorum. *)
EvaluateEarly(n, t, rs) ==
  /\ Cardinality(rs) >= QuorumSize - 1
  /\ status[n][t] = "pending"
  /\ Accept(n, t, rs) \/ Reject(n, t, rs) \/ KeepVoting(n, t, rs)

Evaluate(n, t, rs) ==
  /\ Cardinality(rs) >= QuorumSize
  /\ status[n][t] = "pending"
  /\ Accept(n, t, rs) \/ Reject(n, t, rs) \/ KeepVoting(n, t, rs)

Count(n, r) ==
  \E t \in Matching(n, r) :
    /\ ~HasVoted(n, t, r.node)
    /\ LET rs == results[n][t] \union {r}
       IN  Collect(n, t, rs) \/ Evaluate(n, t, rs)

ProcessResult(n, r) == Ignore(n, r) \/ Count(n, r)

-----------------------------------------------------------------------------
(* The actions. *)

Init ==
  /\ proposal = [t \in Trial |-> NoProposal]
  /\ status = [n \in Node |-> [t \in Trial |-> "absent"]]
  /\ results = [n \in Node |-> [t \in Trial |-> {}]]
  /\ older = [n \in Node |-> {}]
  /\ history = [n \in Node |-> <<>>]
  /\ raised = [n \in Node |-> {}]
  /\ produced = {}
  /\ net = {}

ProposeMutation(n, t, p, targets) ==
  /\ proposal[t] = NoProposal
  /\ proposal' = [proposal EXCEPT ![t] = p]
  /\ Open(n, t)
  /\ net' = net \union [type : {"trial_proposal"}, to : targets \ {n}, trial : {t}]
  /\ UNCHANGED <<history, raised, produced>>

Consume(m) == net' = IF Duplicates THEN net ELSE net \ {m}

ReceiveProposal(m) ==
  /\ m.type = "trial_proposal"
  /\ \/ /\ status[m.to][m.trial] = "absent"
        /\ Len(history[m.to]) < MaxHistory
        /\ Open(m.to, m.trial)
     \/ /\ status[m.to][m.trial] # "absent"
        /\ UNCHANGED <<status, results, older>>
  /\ Consume(m)
  /\ UNCHANGED <<proposal, history, raised, produced>>

RunLocalTrial(n, t, ok) ==
  /\ status[n][t] # "absent"
  /\ Cardinality({r \in produced : r.node = n /\ r.trial = t}) < MaxRuns
  /\ produced' = produced \union {[trial |-> t, node |-> n, accepted |-> ok]}
  /\ UNCHANGED <<proposal, local, net>>

Reports(r) == [type : {"trial_result"}, to : Listeners \ {r.node}, result : {r}]

ReportResult(r) ==
  /\ net' = net \union Reports(r)
  /\ UNCHANGED <<proposal, local, produced>>

ReceiveResult(m) ==
  /\ m.type = "trial_result"
  /\ ProcessResult(m.to, m.result)
  /\ Consume(m)
  /\ UNCHANGED <<proposal, produced>>

(* A node's own result never comes back over gossip: its caller hands it to *)
(* _process_result directly, as the test of the module does.                *)
RecordOwnResult(r) ==
  /\ ProcessResult(r.node, r)
  /\ UNCHANGED <<proposal, produced, net>>

Next ==
  \/ \E n \in Node, t \in Trial, p \in Proposal, targets \in Targets :
       ProposeMutation(n, t, p, targets)
  \/ \E n \in Node, t \in Trial : \E ok \in Outcomes[t] : RunLocalTrial(n, t, ok)
  \/ \E r \in produced : ReportResult(r)
  \/ \E r \in produced : RecordOwnResult(r)
  \/ \E m \in net : ReceiveProposal(m)
  \/ \E m \in net : ReceiveResult(m)

Spec == Init /\ [][Next]_vars

-----------------------------------------------------------------------------
(* The callers of the module's test: each runs a trial its node knows once,  *)
(* and hands over the result once.  There the proposer gives it to its own   *)
(* coordinator and the others report theirs; here every node does both.      *)
HasRun(n, t) == \E r \in produced : r.node = n /\ r.trial = t

RunAndReport(n, t, ok) ==
  LET r == [trial |-> t, node |-> n, accepted |-> ok]
  IN  /\ status[n][t] # "absent"
      /\ ~HasRun(n, t)
      /\ produced' = produced \union {r}
      /\ net' = net \union Reports(r)
      /\ ProcessResult(n, r)
      /\ UNCHANGED proposal

Deliver(m) == ReceiveProposal(m) \/ ReceiveResult(m)

RunOrDeliver ==
  \/ \E n \in Node, t \in Trial : \E ok \in Outcomes[t] : RunAndReport(n, t, ok)
  \/ \E m \in net : Deliver(m)

ReliableNext ==
  \/ \E n \in Node, t \in Trial, p \in Proposal, targets \in Targets :
       ProposeMutation(n, t, p, targets)
  \/ RunOrDeliver

(* Gossip that delivers each message, once and in any order: as trials are    *)
(* finitely many, and nothing is sent twice, it is enough that something goes *)
(* on.  What a coordinator drops on its arrival is lost to it.                *)
ReliableSpec == Init /\ [][ReliableNext]_vars /\ WF_vars(RunOrDeliver)

-----------------------------------------------------------------------------
(* Invariants. *)

Records(n) == {history[n][i] : i \in DOMAIN history[n]}

AcceptedAt(n, t) == \E rec \in Records(n) : rec.trial = t /\ rec.status = "accepted"

TypeOK ==
  /\ proposal \in [Trial -> Proposal \union {NoProposal}]
  /\ status \in [Node -> [Trial -> {"absent", "pending", "voting"}]]
  /\ results \in [Node -> [Trial -> SUBSET Result]]
  /\ older \in [Node -> SUBSET (Trial \X Trial)]
  /\ history \in [Node -> Seq(Record)]
  /\ raised \in [Node -> SUBSET Trial]
  /\ produced \subseteq Result
  /\ net \subseteq ProposalMsg \union ResultMsg

OneBallot(rs) == \A r, s \in rs : r.node = s.node => r = s

(* However often a node runs a trial again and with whatever verdicts, and   *)
(* however gossip repeats its reports, no trial counts two results of one    *)
(* node, in the table or in the history (the duplicate check of              *)
(* _process_result).                                                         *)
OneBallotPerNode ==
  \A n \in Node :
    /\ \A t \in Trial : OneBallot(results[n][t])
    /\ \A rec \in Records(n) : OneBallot(rec.results)

(* Every result a coordinator counts was returned by a local run of the very *)
(* mutation the trial is about, though the fallback search of                *)
(* _process_result may count it in another trial than it was reported for.   *)
EvidenceIsReal ==
  \A n \in Node :
    /\ \A t \in Trial : \A r \in results[n][t] :
         r \in produced /\ proposal[r.trial] = proposal[t]
    /\ \A rec \in Records(n) : \A r \in rec.results :
         r \in produced /\ proposal[r.trial] = proposal[rec.trial]

Voters(rs) == {r.node : r \in rs}

Refusing(rs) == rs \ Accepting(rs)

(* A mutation enters the history as accepted only on the word of QuorumSize  *)
(* different nodes, min_consensus of which accepted it.                      *)
AcceptanceIsBacked ==
  \A n \in Node : \A rec \in Records(n) :
    rec.status = "accepted" =>
      /\ Cardinality(Voters(rec.results)) >= QuorumSize
      /\ 100 * Cardinality(Voters(Accepting(rec.results)))
           >= MinConsensus * Cardinality(Voters(rec.results))

-----------------------------------------------------------------------------
(* Action and temporal properties. *)

(* "voting" is a trap: no later result, whatever it says, has the trial      *)
(* evaluated again, so it neither ends nor changes its verdict.              *)
VotingIsTerminal ==
  [][\A n \in Node, t \in Trial :
       status[n][t] = "voting" =>
         /\ status'[n][t] = "voting"
         /\ results[n][t] \subseteq results'[n][t]
         /\ ~\E i \in (Len(history[n]) + 1) .. Len(history'[n]) :
               history'[n][i].trial = t]_vars

(* Just proposed by n, everyone else being asked. *)
Proposed(n, t) ==
  /\ status[n][t] # "absent"
  /\ \A m \in Node \ {n} : [type |-> "trial_proposal", to |-> m, trial |-> t] \in net

(* Where gossip delivers each message once, a mutation that every node is     *)
(* asked to try is filed as accepted by the node that proposed it, unless a   *)
(* sandbox rejects one.  Nothing of the kind holds of the other nodes: a      *)
(* report that overtakes the proposal is dropped by _process_result, no one   *)
(* sends it again, and the trial waits there for a quorum for ever.           *)
UnanimityIsAccepted ==
  \A n \in Listeners, t \in Trial :
    Proposed(n, t) ~> AcceptedAt(n, t) \/ \E r \in produced : ~r.accepted

(* _evaluate_trial has a branch that rejects a trial and retires it.         *)
RejectionRetires ==
  \A n \in Node, t \in Trial :
    ~ /\ status[n][t] # "absent"
      /\ Cardinality(results[n][t]) >= QuorumSize
      /\ IsRejected(results[n][t])

-----------------------------------------------------------------------------
(* The ballot box every coordinator implements when gossip does not          *)
(* duplicate: see TrialLedger.                                               *)

Filed(n, t) == {rec \in Records(n) : rec.trial = t /\ rec.status = "accepted"}

Ballots(n, t) ==
  IF status[n][t] # "absent"
    THEN results[n][t]
    ELSE UNION {rec.results : rec \in Filed(n, t)}

Verdict(n, t) ==
  IF status[n][t] = "pending" THEN "open"
  ELSE IF status[n][t] = "voting" THEN "voting"
  ELSE IF AcceptedAt(n, t) THEN "accepted" ELSE "none"

LedgerVerdict ==
  [n \in Node |-> [t \in Trial |-> Verdict(n, t)]]

Ledger == INSTANCE TrialLedger WITH
  verdict <- LedgerVerdict,
  yes <- [n \in Node |-> [t \in Trial |-> Voters(Accepting(Ballots(n, t)))]],
  no  <- [n \in Node |-> [t \in Trial |-> Voters(Refusing(Ballots(n, t)))]]

(* Each coordinator is a ballot box: one ballot per node, a trial accepted   *)
(* exactly at the ballot that gives a quorum with consensus, and final.      *)
ImplementsLedger == Ledger!Spec

=============================================================================
