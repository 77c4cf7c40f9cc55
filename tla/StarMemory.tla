----------------------------- MODULE StarMemory -----------------------------
(***************************************************************************)
(* The memory that guides mutations by the stars of past ones:             *)
(* StarEvolutionMemory (mother_relay/evolution/star_memory.py).  Records   *)
(* of tried mutations are kept up to a limit; from the successful ones a   *)
(* greedy clustering builds the attractors, which are cached until a       *)
(* record is added.                                                        *)
(*                                                                         *)
(* A star is a place on a line, in hundredths, or NoStar for the empty     *)
(* list, which is at no distance of anything; a caller asks for clusters of *)
(* two records or more, so that it is the center of none.  Phases are left  *)
(* out: an attractor's phase range is that of its members.                 *)
(***************************************************************************)
EXTENDS Integers, Sequences, FiniteSets, FiniteSetsExt, Functions

CONSTANTS
  Star,        \* bound: the stars of records, NoStar not among them
  NoStar,      \* the empty star
  Fitness,     \* bound: values of fitness, in thousandths
  MaxHistory,  \* max_history
  Clusterings, \* bound: max_clusters and min_points that callers ask for
  MaxCalls     \* bound: calls of the memory

StarMemoryAssumption ==
  /\ Star \subseteq Nat /\ NoStar \notin Star
  /\ Fitness \subseteq Int
  /\ Clusterings \subseteq Nat \X (Nat \ {0, 1})
  /\ MaxHistory \in Nat /\ MaxCalls \in Nat

VARIABLES
  records,    \* history, oldest first
  attractors, \* _attractors
  dirty,      \* _needs_rebuild
  calls       \* calls made, to bound them

vars == <<records, attractors, dirty, calls>>

Record == [star : Star \union {NoStar}, fitness : Fitness, accepted : BOOLEAN]

Init ==
  /\ records = <<>>
  /\ attractors = <<>>
  /\ dirty = TRUE
  /\ calls = 0

-----------------------------------------------------------------------------
(* Attractors of a history. *)

(* get_successful_patterns, by their places. *)
Successes(rs) == {i \in DOMAIN rs : rs[i].accepted /\ rs[i].fitness >= 700}

Away(x, y) == IF x < y THEN y - x ELSE x - y

(* _euclidean_dist < 0.3, an empty star being infinitely far from any. *)
Near(x, y) == x # NoStar /\ y # NoStar /\ Away(x, y) < 30

(* The cluster of the records S. *)
Attractor(rs, S) ==
  LET mean(value) == SumFunctionOnSet(value, S) \div Cardinality(S)
      center == mean([i \in S |-> rs[i].star])
  IN  [center |-> center,
       radius |-> Max({Away(center, rs[i].star) : i \in S}),
       count |-> Cardinality(S),
       fitness |-> mean([i \in S |-> rs[i].fitness])]

(* The first star of those left takes all others near it. *)
Group(rs, left) == {i \in left : i = Min(left) \/ Near(rs[Min(left)].star, rs[i].star)}

(* The greedy clustering of rebuild_attractors: one group after the other,   *)
(* of which those of less than least are dropped, while there is room for    *)
(* more, up to most of them.                                                *)
Clusters(rs, most, least) ==
  LET grow[left \in SUBSET DOMAIN rs] ==
        [room \in 0 .. most |->
           IF left = {} \/ room = 0 THEN <<>>
           ELSE IF Cardinality(Group(rs, left)) >= least
             THEN <<Attractor(rs, Group(rs, left))>> \o grow[left \ Group(rs, left)][room - 1]
             ELSE grow[left \ Group(rs, left)][room]]
  IN  grow[Successes(rs)][most]

-----------------------------------------------------------------------------
(* The calls. *)

Kept(rs) == IF Len(rs) > MaxHistory THEN Tail(rs) ELSE rs

(* Mutant of AddRecord: only a history that grows makes the cache stale. *)
AddRecordOverOldest(r) ==
  /\ records' = Kept(Append(records, r))
  /\ dirty' = (dirty \/ Len(records) < MaxHistory)
  /\ UNCHANGED attractors

AddRecord(r) ==
  /\ records' = Kept(Append(records, r))
  /\ dirty' = TRUE
  /\ UNCHANGED attractors

(* add_from_proposal reads the star under a name the signature of            *)
(* authorize_mutation does not have: proposals leave records of no star.     *)
AddFromProposal(signed, fitness, accepted) ==
  IF signed
    THEN AddRecord([star |-> NoStar, fitness |-> fitness, accepted |-> accepted])
    ELSE UNCHANGED <<records, attractors, dirty>>

(* With too few successes there is no attractor and the flag stays up; while *)
(* it is down nothing is rebuilt, whatever numbers are asked for.            *)
RebuildAttractors(most, least) ==
  /\ IF ~dirty THEN UNCHANGED <<attractors, dirty>>
     ELSE IF Cardinality(Successes(records)) < least
       THEN attractors' = <<>> /\ UNCHANGED dirty
       ELSE attractors' = Clusters(records, most, least) /\ dirty' = FALSE
  /\ UNCHANGED records

Reset ==
  /\ records' = <<>>
  /\ attractors' = <<>>
  /\ dirty' = TRUE

Call ==
  \/ \E r \in Record : r.star # NoStar /\ AddRecord(r)
  \/ \E signed, accepted \in BOOLEAN, f \in Fitness : AddFromProposal(signed, f, accepted)
  \/ \E c \in Clusterings : RebuildAttractors(c[1], c[2])
  \/ Reset

Next == calls < MaxCalls /\ Call /\ calls' = calls + 1

Spec == Init /\ [][Next]_vars

-----------------------------------------------------------------------------
(* The successes that attractors as claim to have behind them. *)
Backing(as) == SumFunctionOnSet([i \in DOMAIN as |-> as[i].count], DOMAIN as)

(* While the flag is down the cached attractors are those of the records as  *)
(* they are now, with the oldest ones gone, for some numbers that a caller   *)
(* asked for, and no two of them count the same success; stale ones, which   *)
(* the queries read too, count no more than a history holds (add_record,    *)
(* rebuild_attractors, reset).                                              *)
AttractorsAreFresh ==
  /\ ~dirty => /\ \E c \in Clusterings : attractors = Clusters(records, c[1], c[2])
               /\ Backing(attractors) <= Cardinality(Successes(records))
  /\ Backing(attractors) <= MaxHistory
=============================================================================
