-------------------------- MODULE FragmentPoolProofs --------------------------
(***************************************************************************)
(* For pools, logs, requests and blocks of any size: the pool keeps its    *)
(* limit, holds nothing that the log has decided, and every decided entry  *)
(* of the log has a date.                                                  *)
(*                                                                         *)
(* The order of the list and of the log is left untyped: both are made by  *)
(* filtering, and nothing below depends on them.                           *)
(***************************************************************************)
EXTENDS FragmentPool, FiniteSetTheorems, TLAPS

(* What the sequences of a job hold. *)

LEMMA SeqFacts ==
  ASSUME NEW s \in Seq(Fragments)
  PROVE  /\ Range(s) \subseteq Fragments
         /\ Range(<<>>) = {}
         /\ s # <<>> => /\ Head(s) \in Range(s) /\ Head(s) \in Fragments
                        /\ Tail(s) \in Seq(Fragments) /\ Range(Tail(s)) \subseteq Range(s)
  BY DEF Range

LEMMA AppendFacts ==
  ASSUME NEW s \in Seq(Fragments), NEW f \in Fragments
  PROVE  /\ Append(s, f) \in Seq(Fragments)
         /\ Range(Append(s, f)) = Range(s) \cup {f}
<1>1. Append(s, f) \in Seq(Fragments) /\ Len(Append(s, f)) = Len(s) + 1
  OBVIOUS
<1>2. DOMAIN Append(s, f) = DOMAIN s \cup {Len(s) + 1}
  OBVIOUS
<1>3. /\ \A i \in DOMAIN s : Append(s, f)[i] = s[i]
      /\ Append(s, f)[Len(s) + 1] = f
  OBVIOUS
<1> QED
  BY <1>1, <1>2, <1>3 DEF Range

-----------------------------------------------------------------------------
(* The inductive invariant. *)

Jobs == {Idle} \cup FilterJob \cup InsertJob \cup ReplyJob \cup RemoveJob
        \cup ExpireJob \cup SelectJob

Statuses == {"none", "pending", "rejected"} \cup Blocks

(* The types of all but the two orders and the size. *)
Types ==
    /\ index \in SUBSET Fragments
    /\ timeoutQueue \in SUBSET Fragments
    /\ status \in [Fragments -> Statuses]
    /\ date \in [Fragments -> Nat \cup {NoDate}]
    /\ job \in Jobs
    /\ now \in Nat

(* What a message in progress knows: the filter and the insertion carry no *)
(* decided fragment and the insertion has counted its room; what is being  *)
(* logged as in a block or as expired has left the pool; what a selection  *)
(* has in hand is not in the pool, and the current one is there once.      *)
JobInv ==
    /\ job.op = "filter" => \A f \in Range(job.ok) : ~Decided(f)
    /\ job.op = "insert" => /\ \A f \in Range(job.rest) : ~Decided(f)
                            /\ Cardinality(index) + job.room <= PoolMaxEntries
    /\ job.op = "remove" => Range(job.rest) \cap index = {}
    /\ job.op = "expire" => job.todo \cap index = {}
    /\ job.op = "select" => /\ InHand \cap index = {}
                            /\ job.current \notin Range(job.returned)

Finite == IsFiniteSet(index \cup InHand)

IInv == Types /\ JobInv /\ Finite /\ PoolBounded /\ DatePresent /\ PooledIsUndecided

LEMMA JobFields ==
  ASSUME job \in Jobs
  PROVE  /\ job.op = "filter" => job \in FilterJob
         /\ job.op = "insert" => job \in InsertJob
         /\ job.op = "reply" => job \in ReplyJob
         /\ job.op = "remove" => job \in RemoveJob
         /\ job.op = "expire" => job \in ExpireJob
         /\ job.op = "select" => job \in SelectJob
  BY DEF Jobs, Idle, FilterJob, InsertJob, ReplyJob, RemoveJob, ExpireJob, SelectJob

(* The bound under steps that add nothing. *)
LEMMA Shrinks ==
  ASSUME Finite, PoolBounded, (index \cup InHand)' \subseteq index \cup InHand,
         PoolMaxEntries \in Nat
  PROVE  Finite' /\ PoolBounded'
<1>1. IsFiniteSet((index \cup InHand)')
  BY FS_Subset DEF Finite
<1>2. Cardinality((index \cup InHand)') <= Cardinality(index \cup InHand)
  BY FS_Subset DEF Finite
<1>3. /\ Cardinality((index \cup InHand)') \in Nat
      /\ Cardinality(index \cup InHand) \in Nat
  BY <1>1, FS_CardinalityType DEF Finite
<1> QED
  BY <1>1, <1>2, <1>3 DEF Finite, PoolBounded

-----------------------------------------------------------------------------
(* The log. *)

(* A step of the log decides at most the one fragment it is called for,    *)
(* and gives it a date.                                                    *)
LEMMA PutLogDecides ==
  ASSUME Types, DatePresent, NEW f \in Fragments,
         NEW st \in Statuses, NEW d \in Nat \cup {NoDate},
         st \notin {"none", "pending"} => d \in Nat,
         PutLog(f, st, d)
  PROVE  /\ status' \in [Fragments -> Statuses]
         /\ date' \in [Fragments -> Nat \cup {NoDate}]
         /\ DatePresent'
         /\ \A g \in Fragments \ {f} : Decided(g)' => Decided(g)
         /\ status'[f] = st
<1> DEFINE victim == IF Len(lru) >= LogCapacity THEN {lru[Len(lru)]} ELSE {}
<1>1. /\ status' = [g \in Fragments |-> IF g = f THEN st
                                        ELSE IF g \in victim THEN "none" ELSE status[g]]
      /\ date' = [g \in Fragments |-> IF g = f THEN d
                                      ELSE IF g \in victim THEN NoDate ELSE date[g]]
  BY DEF PutLog
<1> HIDE DEF victim
<1>2. "none" \in Statuses
  BY DEF Statuses
<1>3. /\ status' \in [Fragments -> Statuses]
      /\ date' \in [Fragments -> Nat \cup {NoDate}]
  BY <1>1, <1>2 DEF Types
<1>4. NoDate \notin Nat
  BY FragmentAssumption
<1>5. DatePresent'
  BY <1>1, <1>4 DEF DatePresent, Decided
<1>6. \A g \in Fragments \ {f} : Decided(g)' => Decided(g)
  BY <1>1 DEF Decided
<1> QED
  BY <1>1, <1>3, <1>5, <1>6

LEMMA ModifyDecides ==
  ASSUME Types, DatePresent, NEW f \in Fragments,
         NEW st \in {"rejected"} \cup Blocks, NEW d \in Nat,
         Modify(f, st, d)
  PROVE  /\ status' \in [Fragments -> Statuses]
         /\ date' \in [Fragments -> Nat \cup {NoDate}]
         /\ DatePresent'
         /\ \A g \in Fragments \ {f} : Decided(g)' => Decided(g)
<1>1. st \in Statuses
  BY DEF Statuses
<1>2. NoDate \notin Nat
  BY FragmentAssumption
<1>3. CASE ~Logged(f)
  <2>1. PutLog(f, st, d)
    BY <1>3 DEF Modify
  <2> QED
    BY <1>1, <2>1, PutLogDecides
<1>4. CASE Logged(f) /\ InABlock(f) /\ st \notin Blocks
  <2>1. status' = status /\ date' = date
    BY <1>4 DEF Modify
  <2> QED
    BY <2>1 DEF Types, DatePresent, Decided
<1>5. CASE Logged(f) /\ ~(InABlock(f) /\ st \notin Blocks)
  <2>1. status' = [status EXCEPT ![f] = st] /\ date' = [date EXCEPT ![f] = d]
    BY <1>5 DEF Modify
  <2> QED
    BY <1>1, <1>2, <2>1 DEF Types, DatePresent, Decided
<1> QED
  BY <1>3, <1>4, <1>5

(* Facts common to the steps that leave the log alone. *)
LEMMA SameLogs ==
  ASSUME IInv, UNCHANGED <<status, date>>
  PROVE  /\ DatePresent' /\ \A f : Decided(f)' <=> Decided(f)
         /\ status' \in [Fragments -> Statuses]
         /\ date' \in [Fragments -> Nat \cup {NoDate}]
  BY DEF IInv, Types, DatePresent, Decided

(* Outside of a selection nothing is in hand. *)
LEMMA NothingInHand ==
  /\ job.op # "select" => InHand = {}
  /\ job'.op # "select" => InHand' = {}
  BY DEF InHand

-----------------------------------------------------------------------------
(* SendTransactions *)

LEMMA RequestStep ==
  ASSUME IInv, NEW r \in Requests, StartRequest(r)
  PROVE  IInv'
<1>1. /\ job.op = "idle"
      /\ job' = [op |-> "filter", rest |-> r.fragments, ok |-> <<>>, rejected |-> {},
                 failFast |-> r.failFast, date |-> now + 1]
      /\ UNCHANGED <<index, timeoutQueue, status, date, now>>
  BY DEF StartRequest, Idle, pool, logs, CurrentBlockDate
<1>2. job' \in FilterJob
  BY <1>1, FragmentAssumption DEF FilterJob, IInv, Types
<1>3. job'.op = "filter" /\ job'.ok = <<>>
  BY <1>1
<1>4. Types'
  BY <1>1, <1>2 DEF IInv, Types, Jobs
<1>5. Range(job'.ok) = {}
  BY <1>3 DEF Range
<1>6. JobInv'
  BY <1>3, <1>5 DEF JobInv
<1>7. (index \cup InHand)' = index \cup InHand
  BY <1>1, <1>3, NothingInHand
<1>8. Finite' /\ PoolBounded'
  BY <1>7, Shrinks, LimitAssumption DEF IInv
<1>9. DatePresent' /\ PooledIsUndecided'
  BY <1>1, <1>7, SameLogs DEF IInv, PooledIsUndecided
<1> QED
  BY <1>4, <1>6, <1>8, <1>9 DEF IInv

LEMMA FilterStep ==
  ASSUME IInv, FilterFragment
  PROVE  IInv'
<1> DEFINE f == Head(job.rest)
           rest == Tail(job.rest)
<1>1. /\ job.op = "filter" /\ job.rest # <<>> /\ job \in FilterJob
      /\ UNCHANGED <<index, timeoutQueue, status, date, now>>
  BY JobFields DEF FilterFragment, pool, logs, IInv, Types
<1>2. /\ job.rest \in Seq(Fragments) /\ job.ok \in Seq(Fragments)
      /\ job.rejected \in SUBSET Fragments /\ job.failFast \in BOOLEAN /\ job.date \in Nat
  BY <1>1 DEF FilterJob
<1>3. /\ f \in Fragments /\ rest \in Seq(Fragments) /\ Range(rest) \subseteq Fragments
      /\ <<>> \in Seq(Fragments)
  BY <1>1, <1>2, SeqFacts
<1>12. \A g \in Range(job.ok) : ~Decided(g)
  BY <1>1 DEF IInv, JobInv
<1>4. \E newRest \in Seq(Fragments), ok \in Seq(Fragments), rejected \in SUBSET Fragments :
        /\ job' = [job EXCEPT !.rest = newRest, !.ok = ok, !.rejected = rejected]
        /\ \A g \in Range(ok) : ~Decided(g)
  <2>1. CASE Acceptable(f) /\ IsFragmentValid(f)
             /\ job' = [job EXCEPT !.rest = rest, !.ok = Append(@, f)]
    <3>1. /\ Append(job.ok, f) \in Seq(Fragments)
          /\ Range(Append(job.ok, f)) = Range(job.ok) \cup {f}
      BY <1>2, <1>3, AppendFacts
    <3>2. \A g \in Range(Append(job.ok, f)) : ~Decided(g)
      BY <1>1, <2>1, <3>1 DEF IInv, JobInv, Acceptable, Logged, Decided
    <3>3. job' = [job EXCEPT !.rest = rest, !.ok = Append(job.ok, f), !.rejected = job.rejected]
      BY <1>1, <2>1 DEF FilterJob
    <3> QED
      BY <1>2, <1>3, <3>1, <3>2, <3>3
  <2>2. CASE job' = [job EXCEPT !.rest = <<>>, !.rejected = @ \cup {f} \cup Range(rest)]
    <3>1. job' = [job EXCEPT !.rest = <<>>, !.ok = job.ok,
                             !.rejected = job.rejected \cup {f} \cup Range(rest)]
      BY <1>1, <2>2 DEF FilterJob
    <3>2. job.rejected \cup {f} \cup Range(rest) \in SUBSET Fragments
      BY <1>2, <1>3
    <3> QED
      BY <1>2, <1>3, <1>12, <3>1, <3>2
  <2>3. CASE job' = [job EXCEPT !.rest = rest, !.rejected = @ \cup {f}]
    <3>1. job' = [job EXCEPT !.rest = rest, !.ok = job.ok, !.rejected = job.rejected \cup {f}]
      BY <1>1, <2>3 DEF FilterJob
    <3>2. job.rejected \cup {f} \in SUBSET Fragments
      BY <1>2, <1>3
    <3> QED
      BY <1>2, <1>3, <1>12, <3>1, <3>2
  <2> QED
    BY <2>1, <2>2, <2>3 DEF FilterFragment
<1>5. PICK newRest \in Seq(Fragments), ok \in Seq(Fragments), rejected \in SUBSET Fragments :
        /\ job' = [job EXCEPT !.rest = newRest, !.ok = ok, !.rejected = rejected]
        /\ \A g \in Range(ok) : ~Decided(g)
  BY <1>4
<1>6. job' \in FilterJob /\ job'.op = "filter" /\ job'.ok = ok
  BY <1>1, <1>5 DEF FilterJob
<1>7. Types'
  BY <1>1, <1>6 DEF IInv, Types, Jobs
<1>8. JobInv'
  BY <1>1, <1>5, <1>6, SameLogs DEF JobInv
<1>9. (index \cup InHand)' = index \cup InHand
  BY <1>1, <1>6, NothingInHand
<1>10. Finite' /\ PoolBounded'
  BY <1>9, Shrinks, LimitAssumption DEF IInv
<1>11. DatePresent' /\ PooledIsUndecided'
  BY <1>1, <1>9, SameLogs DEF IInv, PooledIsUndecided
<1> QED
  BY <1>7, <1>8, <1>10, <1>11 DEF IInv

LEMMA StartInsertStep ==
  ASSUME IInv, StartInsert
  PROVE  IInv'
<1>1. /\ job.op = "filter" /\ job \in FilterJob
      /\ job' = [op |-> "insert", rest |-> job.ok,
                 room |-> PoolMaxEntries - Cardinality(index),
                 accepted |-> <<>>, rejected |-> job.rejected]
      /\ UNCHANGED <<index, timeoutQueue, status, date, now>>
  BY JobFields DEF StartInsert, pool, logs, IInv, Types
<1>2. job.ok \in Seq(Fragments) /\ job.rejected \in SUBSET Fragments
  BY <1>1 DEF FilterJob
<1>3. /\ Cardinality(index) \in Nat /\ Cardinality(index) <= PoolMaxEntries
  <2>1. index \cup InHand = index
    BY <1>1, NothingInHand
  <2> QED
    BY <2>1, FS_CardinalityType DEF IInv, Finite, PoolBounded
<1>4. PoolMaxEntries - Cardinality(index) \in Nat
  BY <1>3, LimitAssumption
<1>5. job' \in InsertJob /\ job'.op = "insert" /\ job'.rest = job.ok
      /\ job'.room = PoolMaxEntries - Cardinality(index)
  BY <1>1, <1>2, <1>4 DEF InsertJob
<1>6. Types'
  BY <1>1, <1>5 DEF IInv, Types, Jobs
<1>7. JobInv'
  BY <1>1, <1>3, <1>5, SameLogs, LimitAssumption DEF IInv, JobInv
<1>8. (index \cup InHand)' = index \cup InHand
  BY <1>1, <1>5, NothingInHand
<1>9. Finite' /\ PoolBounded'
  BY <1>8, Shrinks, LimitAssumption DEF IInv
<1>10. DatePresent' /\ PooledIsUndecided'
  BY <1>1, <1>8, SameLogs DEF IInv, PooledIsUndecided
<1> QED
  BY <1>6, <1>7, <1>9, <1>10 DEF IInv

LEMMA InsertStep ==
  ASSUME IInv, InsertFragment
  PROVE  IInv'
<1> DEFINE f == Head(job.rest)
<1>1. /\ job.op = "insert" /\ job.rest # <<>> /\ job.room > 0 /\ job \in InsertJob
      /\ now' = now
  BY JobFields DEF InsertFragment, IInv, Types
<1>2. /\ job.rest \in Seq(Fragments) /\ job.room \in Nat
      /\ job.accepted \in Seq(Fragments) /\ job.rejected \in SUBSET Fragments
  BY <1>1 DEF InsertJob
<1>3. /\ f \in Fragments /\ f \in Range(job.rest) /\ Tail(job.rest) \in Seq(Fragments)
      /\ Range(Tail(job.rest)) \subseteq Range(job.rest) /\ Range(job.rest) \subseteq Fragments
  BY <1>1, <1>2, SeqFacts
<1>4. /\ IsFiniteSet(index) /\ Cardinality(index) \in Nat
      /\ Cardinality(index) + job.room <= PoolMaxEntries
      /\ \A g \in Range(job.rest) : ~Decided(g)
  <2>1. index \cup InHand = index
    BY <1>1, NothingInHand
  <2> QED
    BY <1>1, <2>1, FS_CardinalityType DEF IInv, Finite, JobInv
<1>5. CASE f \in index /\ job' = [job EXCEPT !.rest = Tail(@)]
           /\ UNCHANGED <<index, timeoutQueue, status, date>>
  <2>1. /\ job' \in InsertJob /\ job'.op = "insert" /\ job'.rest = Tail(job.rest)
        /\ job'.room = job.room
    BY <1>1, <1>3, <1>5 DEF InsertJob
  <2>2. Types'
    BY <1>1, <1>5, <2>1 DEF IInv, Types, Jobs
  <2>3. JobInv'
    BY <1>3, <1>4, <1>5, <2>1, SameLogs DEF JobInv
  <2>4. (index \cup InHand)' = index \cup InHand
    BY <1>1, <1>5, <2>1, NothingInHand
  <2>5. Finite' /\ PoolBounded'
    BY <2>4, Shrinks, LimitAssumption DEF IInv
  <2>6. DatePresent' /\ PooledIsUndecided'
    BY <1>5, <2>4, SameLogs DEF IInv, PooledIsUndecided
  <2> QED
    BY <2>2, <2>3, <2>5, <2>6 DEF IInv
<1>6. CASE /\ f \notin index /\ Push({f}, Append(list, f)) /\ InsertPending(f)
           /\ job' = [job EXCEPT !.rest = Tail(@), !.room = @ - 1, !.accepted = Append(@, f)]
  <2>1. /\ index' = index \cup {f} /\ timeoutQueue' = timeoutQueue \cup ({f} \cap Expiring)
    BY <1>6 DEF Push
  <2>2. /\ job' \in InsertJob /\ job'.op = "insert" /\ job'.rest = Tail(job.rest)
        /\ job'.room = job.room - 1
    <3>1. Append(job.accepted, f) \in Seq(Fragments)
      BY <1>2, <1>3, AppendFacts
    <3>2. job.room - 1 \in Nat
      BY <1>1, <1>2
    <3> QED
      BY <1>1, <1>3, <1>6, <3>1, <3>2 DEF InsertJob
  <2>3. /\ status' \in [Fragments -> Statuses]
        /\ date' \in [Fragments -> Nat \cup {NoDate}]
        /\ DatePresent'
        /\ \A g \in Fragments : Decided(g)' => Decided(g)
    <3>1. CASE Logged(f)
      <4>1. UNCHANGED <<status, date>>
        BY <1>6, <3>1 DEF InsertPending, logs
      <4> QED
        BY <4>1, SameLogs
    <3>2. CASE ~Logged(f)
      <4>1. PutLog(f, "pending", NoDate)
        BY <1>6, <3>2 DEF InsertPending
      <4>2. "pending" \in Statuses
        BY DEF Statuses
      <4>3. /\ status' \in [Fragments -> Statuses]
            /\ date' \in [Fragments -> Nat \cup {NoDate}]
            /\ DatePresent'
            /\ \A g \in Fragments \ {f} : Decided(g)' => Decided(g)
            /\ status'[f] = "pending"
        BY <1>3, <4>1, <4>2, PutLogDecides DEF IInv
      <4> QED
        BY <4>3 DEF Decided
    <3> QED
      BY <3>1, <3>2
  <2>4. Types'
    BY <1>1, <1>3, <2>1, <2>2, <2>3 DEF IInv, Types, Jobs
  <2>5. IsFiniteSet(index') /\ Cardinality(index') = Cardinality(index) + 1
    BY <1>4, <1>6, <2>1, FS_AddElement
  <2>6. (index \cup InHand)' = index' /\ index \cup InHand = index
    BY <1>1, <2>2, NothingInHand
  <2>7. JobInv'
    BY <1>2, <1>3, <1>4, <2>2, <2>3, <2>5, LimitAssumption DEF JobInv
  <2>8. Finite' /\ PoolBounded'
    <3>1. Cardinality(index') <= PoolMaxEntries
      BY <1>1, <1>2, <1>4, <2>5, LimitAssumption
    <3> QED
      BY <2>5, <2>6, <3>1 DEF Finite, PoolBounded
  <2>9. PooledIsUndecided'
    BY <1>3, <1>4, <2>1, <2>3, <2>6 DEF IInv, Types, PooledIsUndecided
  <2> QED
    BY <2>3, <2>4, <2>7, <2>8, <2>9 DEF IInv
<1> QED
  BY <1>5, <1>6 DEF InsertFragment, pool, logs

(* A step that ends a job and touches nothing else. *)
LEMMA QuietStep ==
  ASSUME IInv, UNCHANGED <<index, timeoutQueue, status, date, now>>,
         job.op # "select", job' \in Jobs, job'.op \in {"idle", "reply"}
  PROVE  IInv'
<1>1. Types'
  BY DEF IInv, Types
<1>2. JobInv'
  BY DEF JobInv
<1>3. (index \cup InHand)' = index \cup InHand
  BY NothingInHand
<1>4. Finite' /\ PoolBounded'
  BY <1>3, Shrinks, LimitAssumption DEF IInv
<1>5. DatePresent' /\ PooledIsUndecided'
  BY <1>3, SameLogs DEF IInv, PooledIsUndecided
<1> QED
  BY <1>1, <1>2, <1>4, <1>5 DEF IInv

LEMMA EndSteps ==
  ASSUME IInv, EndInsert \/ Reply \/ EndExpire
  PROVE  IInv'
<1>1. UNCHANGED <<index, timeoutQueue, status, date, now>>
  BY DEF EndInsert, Reply, EndExpire, pool, logs
<1>2. CASE EndInsert
  <2>1. job.op = "insert" /\ job \in InsertJob
    BY <1>2, JobFields DEF EndInsert, IInv, Types
  <2>2. job.accepted \in Seq(Fragments) /\ job.rejected \in SUBSET Fragments
        /\ job.rest \in Seq(Fragments)
    BY <2>1 DEF InsertJob
  <2>3. job.rejected \cup Range(job.rest) \in SUBSET Fragments
    BY <2>2, SeqFacts
  <2>4. job' = [op |-> "reply", accepted |-> job.accepted,
                rejected |-> job.rejected \cup Range(job.rest)]
    BY <1>2 DEF EndInsert
  <2>5. job' \in ReplyJob /\ job'.op = "reply"
    BY <2>2, <2>3, <2>4 DEF ReplyJob
  <2> QED
    BY <1>1, <2>1, <2>5, QuietStep DEF Jobs
<1>3. CASE Reply \/ EndExpire
  <2>1. job.op # "select" /\ job' = Idle
    BY <1>3 DEF Reply, EndExpire
  <2>2. job' \in Jobs /\ job'.op = "idle"
    BY <2>1 DEF Jobs, Idle
  <2> QED
    BY <1>1, <2>1, <2>2, QuietStep
<1> QED
  BY <1>2, <1>3

-----------------------------------------------------------------------------
(* RemoveTransactions and BranchSwitch *)

LEMMA RemoveStep ==
  ASSUME IInv, NEW b \in Blocks, RemoveTransactions(BlockFragments[b], b)
  PROVE  IInv'
<1> DEFINE ids == BlockFragments[b]
<1>1. /\ job.op = "idle"
      /\ job' = [op |-> "remove", rest |-> ids, block |-> b]
      /\ index' = index \ Range(ids) /\ timeoutQueue' \subseteq timeoutQueue
      /\ UNCHANGED <<status, date, now>>
  BY DEF RemoveTransactions, RemoveAll, Idle, logs
<1>2. ids \in Seq(Fragments)
  BY FragmentAssumption
<1> HIDE DEF ids
<1>3. job' \in RemoveJob /\ job'.op = "remove" /\ job'.rest = ids
  BY <1>1, <1>2 DEF RemoveJob
<1>4. Types'
  BY <1>1, <1>3 DEF IInv, Types, Jobs
<1>5. JobInv'
  BY <1>1, <1>3 DEF JobInv
<1>6. (index \cup InHand)' \subseteq index \cup InHand
  BY <1>1, <1>3, NothingInHand
<1>7. Finite' /\ PoolBounded'
  BY <1>6, Shrinks, LimitAssumption DEF IInv
<1>8. DatePresent' /\ PooledIsUndecided'
  BY <1>1, <1>6, SameLogs DEF IInv, PooledIsUndecided
<1> QED
  BY <1>4, <1>5, <1>7, <1>8 DEF IInv

(* Deciding a fragment that is neither in the pool nor in hand. *)
LEMMA DecideOutside ==
  ASSUME IInv, NEW f \in Fragments, f \notin (index \cup InHand)',
         (index \cup InHand)' \subseteq index \cup InHand,
         NEW st \in {"rejected"} \cup Blocks, NEW d \in Nat, Modify(f, st, d)
  PROVE  /\ status' \in [Fragments -> Statuses]
         /\ date' \in [Fragments -> Nat \cup {NoDate}]
         /\ Finite' /\ PoolBounded' /\ DatePresent' /\ PooledIsUndecided'
<1>1. index \cup InHand \subseteq Fragments
  <2>1. CASE job.op = "select"
    <3>1. job \in SelectJob
      BY <2>1, JobFields DEF IInv, Types
    <3>2. Range(job.returned) \subseteq Fragments /\ {job.current} \ {None} \subseteq Fragments
      BY <3>1, SeqFacts DEF SelectJob
    <3> QED
      BY <2>1, <3>2 DEF IInv, Types, InHand
  <2> QED
    BY <2>1, NothingInHand DEF IInv, Types
<1>2. /\ status' \in [Fragments -> Statuses]
      /\ date' \in [Fragments -> Nat \cup {NoDate}]
      /\ DatePresent'
      /\ \A g \in Fragments \ {f} : Decided(g)' => Decided(g)
  BY ModifyDecides DEF IInv
<1>3. Finite' /\ PoolBounded'
  BY Shrinks, LimitAssumption DEF IInv
<1>4. PooledIsUndecided'
  BY <1>1, <1>2 DEF IInv, PooledIsUndecided
<1> QED
  BY <1>2, <1>3, <1>4

LEMMA LogRemovedStep ==
  ASSUME IInv, LogRemoved
  PROVE  IInv'
<1> DEFINE f == Head(job.rest)
<1>1. /\ job.op = "remove" /\ job.rest # <<>> /\ job \in RemoveJob
      /\ Modify(f, job.block, BlockDate[job.block])
      /\ job' = [job EXCEPT !.rest = Tail(@)]
      /\ UNCHANGED <<index, timeoutQueue, now>>
  BY JobFields DEF LogRemoved, pool, IInv, Types
<1>2. job.rest \in Seq(Fragments) /\ job.block \in Blocks
  BY <1>1 DEF RemoveJob
<1>3. BlockDate[job.block] \in Nat
  BY <1>2, BlockTreeAssumption
<1>4. /\ f \in Range(job.rest) /\ f \in Fragments /\ Tail(job.rest) \in Seq(Fragments)
      /\ Range(Tail(job.rest)) \subseteq Range(job.rest)
  BY <1>1, <1>2, SeqFacts
<1>5. job' \in RemoveJob /\ job'.op = "remove" /\ job'.rest = Tail(job.rest)
  BY <1>1, <1>4 DEF RemoveJob
<1>6. (index \cup InHand)' = index /\ index \cup InHand = index
  BY <1>1, <1>5, NothingInHand
<1>7. f \notin index
  BY <1>1, <1>4 DEF IInv, JobInv
<1> HIDE DEF f
<1>8. /\ status' \in [Fragments -> Statuses]
      /\ date' \in [Fragments -> Nat \cup {NoDate}]
      /\ Finite' /\ PoolBounded' /\ DatePresent' /\ PooledIsUndecided'
  BY <1>1, <1>2, <1>3, <1>4, <1>6, <1>7, DecideOutside
<1>9. Types'
  BY <1>1, <1>5, <1>8 DEF IInv, Types, Jobs
<1>10. JobInv'
  BY <1>1, <1>4, <1>5 DEF IInv, JobInv
<1> QED
  BY <1>8, <1>9, <1>10 DEF IInv

LEMMA RemoveExpiredStep ==
  ASSUME IInv, RemoveExpired
  PROVE  IInv'
<1> DEFINE expired == {f \in timeoutQueue : ValidUntil[f] < CurrentBlockDate}
<1>1. /\ job.op = "remove"
      /\ index' = index \ expired /\ timeoutQueue' = timeoutQueue \ expired
      /\ job' = [op |-> "expire", todo |-> expired, date |-> now + 1]
      /\ UNCHANGED <<status, date, now>>
  BY DEF RemoveExpired, logs, CurrentBlockDate
<1>2. expired \in SUBSET Fragments
  BY DEF IInv, Types
<1> HIDE DEF expired
<1>3. job' \in ExpireJob /\ job'.op = "expire" /\ job'.todo = expired
  BY <1>1, <1>2 DEF ExpireJob, IInv, Types
<1>4. Types'
  BY <1>1, <1>3 DEF IInv, Types, Jobs
<1>5. JobInv'
  BY <1>1, <1>3 DEF JobInv
<1>6. (index \cup InHand)' \subseteq index \cup InHand
  BY <1>1, <1>3, NothingInHand
<1>7. Finite' /\ PoolBounded'
  BY <1>6, Shrinks, LimitAssumption DEF IInv
<1>8. DatePresent' /\ PooledIsUndecided'
  BY <1>1, <1>6, SameLogs DEF IInv, PooledIsUndecided
<1> QED
  BY <1>4, <1>5, <1>7, <1>8 DEF IInv

LEMMA LogExpiredStep ==
  ASSUME IInv, LogExpired
  PROVE  IInv'
<1>1. job.op = "expire" /\ job \in ExpireJob /\ UNCHANGED <<index, timeoutQueue, now>>
  BY JobFields DEF LogExpired, pool, IInv, Types
<1>2. PICK f \in job.todo : /\ Modify(f, "rejected", job.date)
                           /\ job' = [job EXCEPT !.todo = @ \ {f}]
  BY DEF LogExpired
<1>3. job.todo \in SUBSET Fragments /\ job.date \in Nat
  BY <1>1 DEF ExpireJob
<1>4. job' \in ExpireJob /\ job'.op = "expire" /\ job'.todo = job.todo \ {f}
  BY <1>1, <1>2, <1>3 DEF ExpireJob
<1>5. (index \cup InHand)' = index /\ index \cup InHand = index
  BY <1>1, <1>4, NothingInHand
<1>6. f \notin index /\ f \in Fragments
  BY <1>1, <1>2, <1>3 DEF IInv, JobInv
<1>7. /\ status' \in [Fragments -> Statuses]
      /\ date' \in [Fragments -> Nat \cup {NoDate}]
      /\ Finite' /\ PoolBounded' /\ DatePresent' /\ PooledIsUndecided'
  BY <1>2, <1>3, <1>5, <1>6, DecideOutside
<1>8. Types'
  BY <1>1, <1>4, <1>7 DEF IInv, Types, Jobs
<1>9. JobInv'
  BY <1>1, <1>4 DEF IInv, JobInv
<1> QED
  BY <1>7, <1>8, <1>9 DEF IInv

LEMMA BranchSwitchStep ==
  ASSUME IInv, NEW d, BranchSwitch(d)
  PROVE  IInv'
<1> DEFINE gone == DecidedAfter(d)
<1>1. /\ status' = [f \in Fragments |-> IF f \in gone THEN "none" ELSE status[f]]
      /\ date' = [f \in Fragments |-> IF f \in gone THEN NoDate ELSE date[f]]
      /\ job.op = "idle" /\ UNCHANGED <<index, timeoutQueue, job, now>>
  BY DEF BranchSwitch, pool, Idle
<1> HIDE DEF gone
<1>2. /\ status' \in [Fragments -> Statuses]
      /\ date' \in [Fragments -> Nat \cup {NoDate}]
      /\ DatePresent' /\ \A f \in Fragments : Decided(f)' => Decided(f)
  BY <1>1 DEF IInv, Types, Statuses, DatePresent, Decided
<1>3. Types'
  BY <1>1, <1>2 DEF IInv, Types
<1>4. JobInv'
  BY <1>1 DEF JobInv
<1>5. (index \cup InHand)' = index /\ index \cup InHand = index
  BY <1>1, NothingInHand
<1>6. Finite' /\ PoolBounded'
  BY <1>5, Shrinks, LimitAssumption DEF IInv
<1>7. PooledIsUndecided'
  BY <1>2, <1>5 DEF IInv, Types, PooledIsUndecided
<1> QED
  BY <1>2, <1>3, <1>4, <1>6, <1>7 DEF IInv

-----------------------------------------------------------------------------
(* SelectTransactions *)

(* What the steps of a selection have in common: they stay in a selection  *)
(* and nothing enters the pool or the hand.                                *)
LEMMA SelectionStep ==
  ASSUME IInv, job' \in SelectJob, job'.op = "select",
         index' \in SUBSET index, timeoutQueue' \in SUBSET timeoutQueue, now' = now,
         InHand' \cap index' = {}, job'.current \notin Range(job'.returned),
         (index \cup InHand)' \subseteq index \cup InHand,
         UNCHANGED <<status, date>>
  PROVE  IInv'
<1>1. Types'
  BY DEF IInv, Types, Jobs
<1>2. JobInv'
  BY DEF JobInv
<1>3. Finite' /\ PoolBounded'
  BY Shrinks, LimitAssumption DEF IInv
<1>4. DatePresent' /\ PooledIsUndecided'
  BY SameLogs DEF IInv, PooledIsUndecided
<1> QED
  BY <1>1, <1>2, <1>3, <1>4 DEF IInv

LEMMA StartSelectStep ==
  ASSUME IInv, NEW d \in Nat, StartSelect(d)
  PROVE  IInv'
<1>1. /\ job' = [op |-> "select", current |-> None, space |-> BlockContentMaxSize,
                 contents |-> <<>>, returned |-> <<>>, soft |-> FALSE, date |-> d]
      /\ UNCHANGED <<index, timeoutQueue, status, date, now>>
  BY DEF StartSelect, pool, logs
<1>2. /\ job' \in SelectJob /\ job'.op = "select"
      /\ job'.current = None /\ job'.returned = <<>>
  BY <1>1, LimitAssumption DEF SelectJob
<1>3. Range(job'.returned) = {}
  BY <1>2 DEF Range
<1>4. InHand' = {}
  BY <1>2, <1>3 DEF InHand
<1> QED
  BY <1>1, <1>2, <1>3, <1>4, SelectionStep

LEMMA SelectFields ==
  ASSUME IInv, job.op = "select"
  PROVE  /\ job \in SelectJob
         /\ job.current \in Fragments \cup {None}
         /\ job.returned \in Seq(Fragments) /\ Range(job.returned) \subseteq Fragments
         /\ job.contents \in Seq(Fragments)
         /\ job.space \in 0..BlockContentMaxSize /\ job.date \in Nat
         /\ job.soft \in BOOLEAN
         /\ InHand \cap index = {} /\ job.current \notin Range(job.returned)
         /\ InHand = Range(job.returned) \cup ({job.current} \ {None})
<1>1. job \in SelectJob
  BY JobFields DEF IInv, Types
<1>2. job.returned \in Seq(Fragments)
  BY <1>1 DEF SelectJob
<1>3. Range(job.returned) \subseteq Fragments
  BY <1>2, SeqFacts
<1> QED
  BY <1>1, <1>2, <1>3 DEF SelectJob, IInv, JobInv, InHand

LEMMA SoftDeadlineStep ==
  ASSUME IInv, SoftDeadline
  PROVE  IInv'
<1>1. /\ job.op = "select" /\ job' = [job EXCEPT !.soft = TRUE]
      /\ UNCHANGED <<index, timeoutQueue, status, date, now>>
  BY DEF SoftDeadline, pool, logs
<1>2. /\ job' \in SelectJob /\ job'.op = "select"
      /\ job'.current = job.current /\ job'.returned = job.returned
  BY <1>1, SelectFields DEF SelectJob
<1>3. InHand' = InHand
  BY <1>1, <1>2 DEF InHand
<1> QED
  BY <1>1, <1>2, <1>3, SelectFields, SelectionStep

LEMMA TakeOldestStep ==
  ASSUME IInv, TakeOldest
  PROVE  IInv'
<1> DEFINE f == Head(list)
<1>1. /\ job.op = "select" /\ job.current = None /\ f \in index
      /\ job' = [job EXCEPT !.current = f]
      /\ index' = index \ {f} /\ timeoutQueue' \in SUBSET timeoutQueue
      /\ UNCHANGED <<status, date, now>>
  BY DEF TakeOldest, RemoveAll, logs
<1> HIDE DEF f
<1>2. f \in Fragments
  BY <1>1 DEF IInv, Types
<1>3. /\ job' \in SelectJob /\ job'.op = "select"
      /\ job'.current = f /\ job'.returned = job.returned
  BY <1>1, <1>2, SelectFields DEF SelectJob
<1>4. InHand = Range(job.returned) /\ InHand' = Range(job.returned) \cup {f}
  BY <1>1, <1>2, <1>3, FragmentAssumption DEF InHand
<1>5. /\ InHand' \cap index' = {} /\ job'.current \notin Range(job'.returned)
      /\ (index \cup InHand)' \subseteq index \cup InHand
  BY <1>1, <1>3, <1>4, SelectFields
<1> QED
  BY <1>1, <1>3, <1>5, SelectionStep

LEMMA ApplySucceedsStep ==
  ASSUME IInv, ApplySucceeds
  PROVE  IInv'
<1>1. /\ job.op = "select" /\ job.current # None /\ Size[job.current] <= job.space
      /\ job' = [job EXCEPT !.current = None, !.contents = Append(@, job.current),
                            !.space = @ - Size[job.current]]
      /\ UNCHANGED <<index, timeoutQueue, status, date, now>>
  BY DEF ApplySucceeds, Fits, pool, logs
<1>2. job.current \in Fragments /\ job.contents \in Seq(Fragments)
  BY <1>1, SelectFields
<1>3. Append(job.contents, job.current) \in Seq(Fragments)
  BY <1>2, AppendFacts
<1>4. job.space - Size[job.current] \in 0..BlockContentMaxSize
  <2>1. Size[job.current] \in Nat \ {0}
    BY <1>2, FragmentAssumption
  <2>2. job.space \in 0..BlockContentMaxSize
    BY <1>1, SelectFields
  <2> QED
    BY <1>1, <2>1, <2>2, LimitAssumption
<1>5. /\ job' \in SelectJob /\ job'.op = "select"
      /\ job'.current = None /\ job'.returned = job.returned
  BY <1>1, <1>3, <1>4, SelectFields DEF SelectJob
<1>6. InHand' = Range(job.returned)
  BY <1>5 DEF InHand
<1>7. job'.current \notin Range(job'.returned)
  BY <1>1, <1>5, SelectFields, FragmentAssumption
<1> QED
  BY <1>1, <1>5, <1>6, <1>7, SelectFields, SelectionStep

LEMMA ReturnFragmentStep ==
  ASSUME IInv, ReturnFragment
  PROVE  IInv'
<1>1. /\ job.op = "select" /\ job.current # None
      /\ job' = [job EXCEPT !.current = None, !.returned = Append(@, job.current)]
      /\ UNCHANGED <<index, timeoutQueue, status, date, now>>
  BY DEF ReturnFragment, pool, logs
<1>2. job.current \in Fragments /\ job.returned \in Seq(Fragments)
  BY <1>1, SelectFields
<1>3. /\ Append(job.returned, job.current) \in Seq(Fragments)
      /\ Range(Append(job.returned, job.current)) = Range(job.returned) \cup {job.current}
  BY <1>2, AppendFacts
<1>4. /\ job' \in SelectJob /\ job'.op = "select"
      /\ job'.current = None /\ job'.returned = Append(job.returned, job.current)
  BY <1>1, <1>3, SelectFields DEF SelectJob
<1>5. InHand' = InHand
  BY <1>1, <1>3, <1>4, SelectFields DEF InHand
<1>6. job'.current \notin Range(job'.returned)
  BY <1>1, <1>2, <1>3, <1>4, SelectFields, FragmentAssumption
<1> QED
  BY <1>1, <1>4, <1>5, <1>6, SelectFields, SelectionStep

LEMMA RejectFragmentStep ==
  ASSUME IInv, RejectFragment
  PROVE  IInv'
<1>1. /\ job.op = "select" /\ job.current # None
      /\ Modify(job.current, "rejected", job.date)
      /\ job' = [job EXCEPT !.current = None]
      /\ UNCHANGED <<index, timeoutQueue, now>>
  BY DEF RejectFragment, pool
<1>2. job.current \in Fragments /\ job.date \in Nat
  BY <1>1, SelectFields
<1>3. /\ job' \in SelectJob /\ job'.op = "select"
      /\ job'.current = None /\ job'.returned = job.returned
  BY <1>1, SelectFields DEF SelectJob
<1>4. InHand' = Range(job.returned)
  BY <1>3 DEF InHand
<1>5. /\ (index \cup InHand)' \subseteq index \cup InHand
      /\ job.current \notin (index \cup InHand)'
  BY <1>1, <1>4, SelectFields
<1>6. /\ status' \in [Fragments -> Statuses]
      /\ date' \in [Fragments -> Nat \cup {NoDate}]
      /\ Finite' /\ PoolBounded' /\ DatePresent' /\ PooledIsUndecided'
  BY <1>1, <1>2, <1>5, DecideOutside
<1>7. Types'
  BY <1>1, <1>3, <1>6 DEF IInv, Types, Jobs
<1>8. InHand' \cap index' = {} /\ job'.current \notin Range(job'.returned)
  BY <1>1, <1>3, <1>4, SelectFields, FragmentAssumption
<1>9. JobInv'
  BY <1>3, <1>8 DEF JobInv
<1> QED
  BY <1>6, <1>7, <1>9 DEF IInv

LEMMA EndSelectStep ==
  ASSUME IInv, EndSelect
  PROVE  IInv'
<1>1. /\ job.op = "select" /\ job.current = None /\ job' = Idle
      /\ index' = index \cup Range(job.returned)
      /\ timeoutQueue' = timeoutQueue \cup (Range(job.returned) \cap Expiring)
      /\ UNCHANGED <<status, date, now>>
  BY DEF EndSelect, Push, logs
<1>2. job'.op = "idle" /\ job' \in Jobs
  BY <1>1 DEF Idle, Jobs
<1>3. Types'
  BY <1>1, <1>2, SelectFields DEF IInv, Types
<1>4. JobInv'
  BY <1>2 DEF JobInv
<1>5. (index \cup InHand)' = index \cup InHand
  BY <1>1, <1>2, SelectFields, NothingInHand
<1>6. Finite' /\ PoolBounded'
  BY <1>5, Shrinks, LimitAssumption DEF IInv
<1>7. DatePresent' /\ PooledIsUndecided'
  BY <1>1, <1>5, SameLogs DEF IInv, PooledIsUndecided
<1> QED
  BY <1>3, <1>4, <1>6, <1>7 DEF IInv

-----------------------------------------------------------------------------
LEMMA InitIInv ==
  ASSUME Init
  PROVE  IInv
<1>1. index = {} /\ job.op = "idle" /\ job \in Jobs
  BY DEF Init, Idle, Jobs
<1>2. index \cup InHand = {}
  BY <1>1, NothingInHand
<1>3. Types
  BY <1>1 DEF Init, Types, Statuses
<1>4. JobInv
  BY <1>1 DEF JobInv
<1>5. Finite /\ PoolBounded
  BY <1>2, FS_EmptySet, LimitAssumption DEF Finite, PoolBounded
<1>6. DatePresent /\ PooledIsUndecided
  BY <1>2 DEF Init, DatePresent, Decided, PooledIsUndecided
<1> QED
  BY <1>3, <1>4, <1>5, <1>6 DEF IInv

(* Time passes, or nothing changes. *)
LEMMA Stutter ==
  ASSUME IInv, UNCHANGED poolVars, now' \in Nat
  PROVE  IInv'
<1>1. UNCHANGED <<index, timeoutQueue, status, date, job>>
  BY DEF poolVars, pool, logs
<1>2. InHand' = InHand
  BY <1>1 DEF InHand
<1>3. Types'
  BY <1>1 DEF IInv, Types
<1>4. JobInv'
  BY <1>1, <1>2, SameLogs DEF IInv, JobInv
<1>5. Finite' /\ PoolBounded'
  BY <1>1, <1>2, Shrinks, LimitAssumption DEF IInv
<1>6. DatePresent' /\ PooledIsUndecided'
  BY <1>1, <1>2, SameLogs DEF IInv, PooledIsUndecided
<1> QED
  BY <1>3, <1>4, <1>5, <1>6 DEF IInv

LEMMA NextIInv ==
  ASSUME IInv, [Next]_vars
  PROVE  IInv'
<1>1. CASE \E r \in Requests : StartRequest(r)
  BY <1>1, RequestStep
<1>2. CASE \E b \in Blocks : RemoveTransactions(BlockFragments[b], b)
  BY <1>2, RemoveStep
<1>3. CASE \E b \in Blocks : BranchSwitch(BlockDate[b])
  BY <1>3, BranchSwitchStep
<1>4. CASE StartSelect(CurrentBlockDate)
  <2>1. CurrentBlockDate \in Nat
    BY DEF CurrentBlockDate, IInv, Types
  <2> QED
    BY <1>4, <2>1, StartSelectStep
<1>5. CASE SoftDeadline
  BY <1>5, SoftDeadlineStep
<1>6. CASE PoolStep
  BY <1>6, FilterStep, StartInsertStep, InsertStep, EndSteps, LogRemovedStep,
     RemoveExpiredStep, LogExpiredStep, TakeOldestStep, ApplySucceedsStep,
     RejectFragmentStep, ReturnFragmentStep, EndSelectStep DEF PoolStep
<1>7. CASE Tick
  BY <1>7, Stutter DEF Tick, IInv, Types
<1>8. CASE UNCHANGED vars
  BY <1>8, Stutter DEF vars, IInv, Types
<1> QED
  BY <1>1, <1>2, <1>3, <1>4, <1>5, <1>6, <1>7, <1>8 DEF Next

LEMMA Invariance == Spec => []IInv
  BY InitIInv, NextIInv, PTL DEF Spec

(* pool_max_entries is never exceeded, not even when a selection returns   *)
(* fragments after others were admitted: insert_all's unchecked            *)
(* subtraction does not wrap.                                              *)
THEOREM PoolLimit == Spec => []PoolBounded
<1>1. IInv => PoolBounded
  BY DEF IInv
<1> QED
  BY <1>1, Invariance, PTL

(* Every decided entry of the log has a date, so the unwrap of             *)
(* remove_logs_after_date is safe.                                         *)
THEOREM DecidedHasDate == Spec => []DatePresent
<1>1. IInv => DatePresent
  BY DEF IInv
<1> QED
  BY <1>1, Invariance, PTL

(* A fragment that the log gives as rejected or as part of a block is      *)
(* neither in the pool nor in the hands of a selection.                    *)
THEOREM NothingDecidedIsPooled == Spec => []PooledIsUndecided
<1>1. IInv => PooledIsUndecided
  BY DEF IInv
<1> QED
  BY <1>1, Invariance, PTL
=============================================================================
