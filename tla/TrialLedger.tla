---------------------------- MODULE TrialLedger ----------------------------
(***************************************************************************)
(* What a trial coordinator promises, without messages, proposals or the   *)
(* order results arrive in: every node owns a ballot box per trial, which  *)
(* takes at most one ballot from each node and accepts the trial on the    *)
(* ballot that makes a quorum with consensus, once and for good.           *)
(***************************************************************************)
EXTENDS Integers, FiniteSets

CONSTANTS Node, Trial, MinConsensus, QuorumSize

VARIABLES verdict, yes, no

ledger == <<verdict, yes, no>>

LedgerInit ==
  /\ verdict = [n \in Node |-> [t \in Trial |-> "none"]]
  /\ yes = [n \in Node |-> [t \in Trial |-> {}]]
  /\ no = [n \in Node |-> [t \in Trial |-> {}]]

OpenBox(n, t) ==
  /\ verdict[n][t] = "none"
  /\ verdict' = [verdict EXCEPT ![n][t] = "open"]
  /\ UNCHANGED <<yes, no>>

HasQuorum(y, x) == Cardinality(y) + Cardinality(x) >= QuorumSize

Carries(y, x) ==
  y # {} /\ 100 * Cardinality(y) >= MinConsensus * (Cardinality(y) + Cardinality(x))

CastBallot(n, t, m) ==
  /\ verdict[n][t] \in {"open", "voting"}
  /\ m \notin yes[n][t] \union no[n][t]
  /\ \/ /\ yes' = [yes EXCEPT ![n][t] = @ \union {m}]
        /\ UNCHANGED no
     \/ /\ no' = [no EXCEPT ![n][t] = @ \union {m}]
        /\ UNCHANGED yes
  /\ \/ /\ verdict[n][t] = "voting" \/ ~HasQuorum(yes'[n][t], no'[n][t])
        /\ UNCHANGED verdict
     \/ /\ verdict[n][t] = "open"
        /\ HasQuorum(yes'[n][t], no'[n][t])
        /\ \E v \in IF Carries(yes'[n][t], no'[n][t])
                      THEN {"accepted"} ELSE {"open", "voting"} :
             verdict' = [verdict EXCEPT ![n][t] = v]

LedgerNext == \E n, m \in Node, t \in Trial : OpenBox(n, t) \/ CastBallot(n, t, m)

Spec == LedgerInit /\ [][LedgerNext]_ledger

=============================================================================
