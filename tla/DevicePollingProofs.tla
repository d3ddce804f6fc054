------------------------- MODULE DevicePollingProofs ------------------------
(***************************************************************************)
(* Proofs about DevicePolling, for any groups, intervals and durations.    *)
(***************************************************************************)
EXTENDS DevicePolling, SetLemmas, FiniteSetTheorems, TLAPS

-----------------------------------------------------------------------------
(***************************************************************************)
(* The invariant.  A late answer can only meet the first identity request, *)
(* because whatever leaves one behind closes the port.  A poll request is  *)
(* for a group that nothing is due before.  And of the n groups fewer than *)
(* n - k are late by more than k exchanges: each exchange makes every      *)
(* group but one later, and that one was the latest.                       *)
(***************************************************************************)

Exchanging == pc \in {"request", "response"}

GroupInTurn ==
    /\ Exchanging /\ todo # <<>> => group = Head(todo)
    /\ Exchanging /\ todo = <<>> =>
           group \in Polled /\ \A g \in Polled : due[group] <= due[g]
    /\ pc = "choose" => todo = <<>>

LateMeetsFirst ==
    late # None =>
        \/ pc \in {"closed", "ended"}
        \/ Exchanging /\ todo = IdentityGroups

Others == Len(PollGroups) - 1

\* the positions of the groups that are more than k exchanges late when d is due
Overdue(d, k) == {i \in DOMAIN PollGroups : d[PollGroups[i]] < -(k * MaxExchange)}

FewOverdue(d) == \A k \in 0..Others : Cardinality(Overdue(d, k)) <= Others - k

DInv == TypeOK /\ GroupInTurn /\ LateMeetsFirst /\ FewOverdue(due) /\ PublishedGenuine
-----------------------------------------------------------------------------
(***************************************************************************)
(* Sequences, sizes and minima.                                            *)
(***************************************************************************)

\* The positions in PollGroups: each has a group, each group one.
LEMMA PollOrder ==
    /\ Others \in Nat
    /\ DOMAIN PollGroups = 1..(Others + 1)
    /\ Polled # {}
    /\ \A i \in DOMAIN PollGroups : PollGroups[i] \in Polled
    /\ \A g \in Polled : \E i \in DOMAIN PollGroups : PollGroups[i] = g
<1>1. PollGroups \in Seq(Range(PollGroups)) /\ PollGroups # <<>>
  BY PollingAssumption
<1>2. Len(PollGroups) \in Nat \ {0} /\ DOMAIN PollGroups = 1..Len(PollGroups)
  BY <1>1
<1> QED BY <1>1, <1>2 DEF Polled, Range, Others

\* The groups of the identity read, and what is left of them.
LEMMA IdentityOrder ==
    /\ Head(IdentityGroups) \in Range(IdentityGroups)
    /\ \A s \in Seq(Range(IdentityGroups)) :
          s # <<>> => /\ Head(s) \in Range(IdentityGroups)
                      /\ Tail(s) \in Seq(Range(IdentityGroups))
BY PollingAssumption

\* There are as many positions as groups that may be overdue at once.
LEMMA Positions == IsFiniteSet(1..(Others + 1)) /\ Cardinality(1..(Others + 1)) = Others + 1
BY PollOrder, FS_Interval

\* However long overdue, the groups are no more than there are.
LEMMA OverdueSize ==
    ASSUME NEW d, NEW k
    PROVE  /\ IsFiniteSet(Overdue(d, k))
           /\ Cardinality(Overdue(d, k)) \in Nat
           /\ Cardinality(Overdue(d, k)) <= Others + 1
<1>1. Overdue(d, k) \in SUBSET (1..(Others + 1))
  BY PollOrder DEF Overdue
<1> QED BY <1>1, Positions, FS_Subset, FS_CardinalityType

\* One exchange more takes that much longer.
LEMMA Exchanges ==
    ASSUME NEW k \in Nat
    PROVE  /\ k * MaxExchange \in Nat
           /\ k > 0 => k * MaxExchange = (k - 1) * MaxExchange + MaxExchange
BY PollingAssumption

\* Nothing that is not late is overdue.
LEMMA NothingOverdue ==
    ASSUME NEW d \in [Polled -> Nat]
    PROVE  FewOverdue(d)
<1> SUFFICES ASSUME NEW k \in 0..Others PROVE Cardinality(Overdue(d, k)) <= Others - k
  BY DEF FewOverdue
<1>1. k \in Nat /\ k <= Others /\ Others \in Nat
  BY PollOrder
<1>2. k * MaxExchange \in Nat
  BY <1>1, Exchanges
<1>3. Overdue(d, k) = {}
  <2>1. \A g \in Polled : ~(d[g] < -(k * MaxExchange))
    BY <1>2
  <2> QED BY <2>1, PollOrder DEF Overdue
<1> QED BY <1>1, <1>3, FS_EmptySet

\* The bound of BoundedLateness is the case of the last k.
LEMMA Lateness ==
    ASSUME TypeOK, FewOverdue(due)
    PROVE  /\ Others * MaxExchange \in Nat
           /\ \A g \in Polled : due[g] >= -(Others * MaxExchange)
<1>1. Others \in Nat /\ Others \in 0..Others /\ Others * MaxExchange \in Nat
  <2>1. Others \in Nat
    BY PollOrder
  <2> QED BY <2>1, Exchanges
<1>2. Cardinality(Overdue(due, Others)) <= 0
  BY <1>1, PollOrder DEF FewOverdue
<1>3. Overdue(due, Others) = {}
  BY <1>2, OverdueSize, FS_EmptySet
<1>4. ASSUME NEW g \in Polled PROVE due[g] >= -(Others * MaxExchange)
  <2>1. PICK i \in DOMAIN PollGroups : PollGroups[i] = g
    BY PollOrder
  <2>2. ~(due[g] < -(Others * MaxExchange))
    BY <1>3, <2>1 DEF Overdue
  <2> QED BY <1>1, <2>2 DEF TypeOK
<1> QED BY <1>1, <1>4

\* The group to be read next is one that nothing is due before.
LEMMA EarliestDue ==
    ASSUME TypeOK, FewOverdue(due)
    PROVE  Earliest \in Polled /\ \A g \in Polled : due[Earliest] <= due[g]
<1> DEFINE b == Others * MaxExchange
           waits == {due[g] + b : g \in Polled}
           firsts == {i \in DOMAIN PollGroups : \A g \in Polled : due[PollGroups[i]] <= due[g]}
<1>1. b \in Nat /\ \A g \in Polled : due[g] \in Int /\ due[g] + b \in Nat
  BY Lateness DEF TypeOK
<1> HIDE DEF b
<1>2. waits \in SUBSET Nat /\ waits # {}
  BY <1>1, PollOrder
<1>3. PICK h \in Polled : \A g \in Polled : due[h] + b <= due[g] + b
  <2>1. Min(waits) \in waits /\ \A y \in waits : Min(waits) <= y
    BY <1>2, MinExists
  <2>2. PICK h \in Polled : Min(waits) = due[h] + b
    BY <2>1
  <2>3. \A g \in Polled : due[g] + b \in waits
    OBVIOUS
  <2> HIDE DEF waits
  <2> QED BY <2>1, <2>2, <2>3
<1>4. \A g \in Polled : due[h] <= due[g]
  BY <1>1, <1>3
<1>5. PICK i \in DOMAIN PollGroups : PollGroups[i] = h
  BY PollOrder
<1>6. i \in firsts
  BY <1>4, <1>5
<1>7. firsts \in SUBSET Nat
  BY PollOrder
<1>8. Min(firsts) \in firsts
  BY <1>6, <1>7, MinExists
<1>9. Earliest = PollGroups[Min(firsts)]
  BY DEF Earliest
<1> QED BY <1>8, <1>9, PollOrder
-----------------------------------------------------------------------------
(***************************************************************************)
(* The exchange that reads the group due first.                            *)
(***************************************************************************)

\* A reading of the group longest due lets no more groups be late than may be.
LEMMA ReadingKeepsFewOverdue ==
    ASSUME TypeOK, FewOverdue(due),
           group \in Polled, \A g \in Polled : due[group] <= due[g],
           NEW x \in 1..MaxExchange, due' = Rescheduled(x)
    PROVE  FewOverdue(due')
<1> SUFFICES ASSUME NEW k \in 0..Others PROVE Cardinality(Overdue(due', k)) <= Others - k
  BY DEF FewOverdue
<1>1. k \in Nat /\ k <= Others /\ Others \in Nat /\ k * MaxExchange \in Nat
  <2>1. k \in Nat /\ k <= Others /\ Others \in Nat
    BY PollOrder
  <2> QED BY <2>1, Exchanges
<1>2. /\ x \in Nat /\ MaxExchange \in Nat /\ x <= MaxExchange
      /\ due'[group] \in Nat
      /\ \A g \in Polled : due[g] \in Int
      /\ \A g \in Polled \ {group} : due'[g] = due[g] - x
  BY PollingAssumption DEF TypeOK, Rescheduled
<1>3. PICK j \in DOMAIN PollGroups : PollGroups[j] = group
  BY PollOrder
<1>4. j \notin Overdue(due', k)
  BY <1>1, <1>2, <1>3 DEF Overdue
<1>5. CASE k = 0
  <2>1. Overdue(due', k) \in SUBSET ((1..(Others + 1)) \ {j})
    BY <1>4, PollOrder DEF Overdue
  <2>2. /\ IsFiniteSet((1..(Others + 1)) \ {j})
        /\ Cardinality((1..(Others + 1)) \ {j}) = Others
    <3>1. j \in 1..(Others + 1)
      BY PollOrder
    <3>2. /\ IsFiniteSet((1..(Others + 1)) \ {j})
          /\ Cardinality((1..(Others + 1)) \ {j}) = Cardinality(1..(Others + 1)) - 1
      BY <3>1, Positions, FS_RemoveElement
    <3> QED BY <1>1, <3>2, Positions
  <2> QED BY <1>1, <1>5, <2>1, <2>2, FS_Subset
<1>6. CASE k > 0
  <2> DEFINE before == Overdue(due, k - 1)
  <2>1. k - 1 \in 0..Others /\ (k - 1) * MaxExchange \in Nat
        /\ k * MaxExchange = (k - 1) * MaxExchange + MaxExchange
    <3>1. k - 1 \in Nat /\ k - 1 \in 0..Others
      BY <1>1, <1>6
    <3>2. (k - 1) * MaxExchange \in Nat
      BY <3>1, Exchanges
    <3>3. k * MaxExchange = (k - 1) * MaxExchange + MaxExchange
      BY <1>1, <1>6, Exchanges
    <3> QED BY <3>1, <3>2, <3>3
  <2>2. Cardinality(before) <= Others - (k - 1) /\ IsFiniteSet(before)
    BY <2>1, OverdueSize DEF FewOverdue
  <2>3. Overdue(due', k) \subseteq before \ {j}
    <3> SUFFICES ASSUME NEW i \in Overdue(due', k) PROVE i \in before \ {j}
      OBVIOUS
    <3>1. /\ i \in DOMAIN PollGroups /\ i # j /\ PollGroups[i] \in Polled
          /\ due'[PollGroups[i]] < -(k * MaxExchange)
      BY <1>4, PollOrder DEF Overdue
    <3>2. PollGroups[i] # group
      BY <1>1, <1>2, <3>1
    <3>3. due[PollGroups[i]] < -((k - 1) * MaxExchange)
      BY <1>1, <1>2, <2>1, <3>1, <3>2
    <3> QED BY <3>1, <3>3 DEF Overdue
  <2>4. CASE before = {}
    <3>1. Overdue(due', k) = {}
      BY <2>3, <2>4
    <3> QED BY <1>1, <3>1, FS_EmptySet
  <2>5. CASE before # {}
    <3>1. PICK i \in DOMAIN PollGroups : due[PollGroups[i]] < -((k - 1) * MaxExchange)
      BY <2>5 DEF Overdue
    <3>2. due[group] <= due[PollGroups[i]] /\ due[PollGroups[i]] \in Int
      BY <1>2, <3>1, PollOrder
    <3>3. due[group] < -((k - 1) * MaxExchange)
      BY <1>2, <2>1, <3>1, <3>2
    <3>4. j \in before
      BY <1>3, <3>3 DEF Overdue
    <3>5. IsFiniteSet(before \ {j}) /\ Cardinality(before \ {j}) = Cardinality(before) - 1
      BY <2>2, <3>4, FS_RemoveElement
    <3>6. Cardinality(Overdue(due', k)) <= Cardinality(before) - 1
      BY <2>3, <3>5, FS_Subset
    <3> QED BY <1>1, <2>2, <3>5, <3>6, FS_Subset, FS_CardinalityType, <2>3
  <2> QED BY <2>4, <2>5
<1> QED BY <1>1, <1>5, <1>6
-----------------------------------------------------------------------------
(***************************************************************************)
(* What a step may do, and what each keeps of the invariant.               *)
(***************************************************************************)

\* A longer backoff stays within its bound.
LEMMA LongerInRange == ASSUME TypeOK PROVE Longer \in 1..MaxBackoff
<1>1. backoff \in Nat /\ backoff > 0 /\ MaxBackoff \in Nat /\ MaxBackoff > 0
  BY PollingAssumption DEF TypeOK
<1>2. {2 * backoff, MaxBackoff} \in SUBSET Nat /\ {2 * backoff, MaxBackoff} # {}
  BY <1>1
<1>3. /\ Min({2 * backoff, MaxBackoff}) \in {2 * backoff, MaxBackoff}
      /\ Min({2 * backoff, MaxBackoff}) <= MaxBackoff
  BY <1>2, MinExists
<1> QED BY <1>1, <1>3 DEF Longer

\* A late answer that is accepted answers the group asked for.
LEMMA HeadAlone ==
    ASSUME TypeOK, LateMeetsFirst, pc = "response", late # None, GroupInTurn, Accepted(late)
    PROVE  late = group
<1>1. group = Head(IdentityGroups) /\ late \in AllGroups
  BY PollingAssumption DEF TypeOK, LateMeetsFirst, GroupInTurn, Exchanging
<1> QED BY <1>1, PollingAssumption DEF Accepted

\* At the start every group is due and none is late.
LEMMA InitInv == ASSUME Init PROVE DInv
<1>1. Head(IdentityGroups) \in AllGroups /\ None \notin AllGroups
  BY IdentityOrder, PollingAssumption DEF AllGroups
<1>2. TypeOK
  BY <1>1, PollingAssumption DEF Init, TypeOK
<1>3. FewOverdue(due)
  <2>1. due \in [Polled -> Nat]
    BY DEF Init
  <2> QED BY <2>1, NothingOverdue
<1> QED BY <1>2, <1>3 DEF Init, DInv, GroupInTurn, LateMeetsFirst, PublishedGenuine, Exchanging

\* Failing starts the schedule over.
LEMMA FailKeeps ==
    ASSUME DInv, Fail, late' \in AllGroups \cup {None}
    PROVE  DInv'
<1>1. TypeOK'
  BY LongerInRange DEF DInv, TypeOK, Fail, external
<1>2. FewOverdue(due')
  <2>1. due' \in [Polled -> Nat]
    BY DEF Fail
  <2> QED BY <2>1, NothingOverdue
<1> QED BY <1>1, <1>2
       DEF DInv, Fail, GroupInTurn, LateMeetsFirst, PublishedGenuine, Exchanging

\* Ending the thread keeps everything.
LEMMA EndKeeps ==
    ASSUME DInv, End, status' \in {status, "starting"}
    PROVE  DInv'
<1>1. TypeOK'
  BY DEF DInv, TypeOK, End, external
<1>2. FewOverdue(due')
  BY DEF DInv, End
<1> QED BY <1>1, <1>2 DEF DInv, End, GroupInTurn, LateMeetsFirst, PublishedGenuine, Exchanging

\* An accepted answer is published under its own group's names.
LEMMA ReadKeeps ==
    ASSUME DInv, pc = "response", Read(group)
    PROVE  DInv'
<1> USE DEF DInv
<1>1. group \in AllGroups /\ todo \in Seq(Range(IdentityGroups))
  BY PollingAssumption DEF TypeOK
<1>2. /\ PublishedGenuine'
      /\ reported' \in [AllGroups -> AllGroups \cup {None}]
      /\ late' = None /\ UNCHANGED external
  BY <1>1 DEF Read, Publish, TypeOK, PublishedGenuine
<1>3. CASE IdentityRead
  <2>1. /\ Tail(todo) \in Seq(Range(IdentityGroups))
        /\ Tail(todo) # <<>> => Head(Tail(todo)) \in AllGroups
    BY <1>1, <1>3, IdentityOrder DEF IdentityRead, AllGroups
  <2>2. TypeOK'
    <3>1. CASE Tail(todo) # <<>>
      BY <1>1, <1>2, <1>3, <2>1, <3>1, PollingAssumption DEF IdentityRead, TypeOK, external
    <3>2. CASE Tail(todo) = <<>>
      BY <1>1, <1>2, <1>3, <2>1, <3>2, PollingAssumption DEF IdentityRead, TypeOK, external
    <3> QED BY <3>1, <3>2
  <2>3. FewOverdue(due')
    BY <1>3 DEF IdentityRead
  <2>4. GroupInTurn'
    BY <1>3 DEF IdentityRead, GroupInTurn, Exchanging
  <2> QED BY <1>2, <2>2, <2>3, <2>4 DEF LateMeetsFirst
<1>4. CASE PollRead
  <2>1. group \in Polled /\ \A g \in Polled : due[group] <= due[g]
    BY <1>4 DEF PollRead, GroupInTurn, Exchanging
  <2>2. PICK x \in 1..MaxExchange : due' = Rescheduled(x)
    BY <1>4 DEF PollRead
  <2>3. due' \in [Polled -> Int]
    BY <2>2, PollingAssumption DEF Rescheduled, TypeOK
  <2>4. TypeOK'
    BY <1>1, <1>2, <1>4, <2>3, PollingAssumption DEF PollRead, TypeOK, external
  <2>5. FewOverdue(due')
    BY <2>1, <2>2, ReadingKeepsFewOverdue
  <2> QED BY <1>2, <1>4, <2>4, <2>5 DEF PollRead, GroupInTurn, LateMeetsFirst, Exchanging
<1> QED BY <1>3, <1>4 DEF Read

\* The group chosen is the one longest due.
LEMMA ChooseKeeps ==
    ASSUME DInv, Choose
    PROVE  DInv'
<1> USE DEF DInv
<1> DEFINE wait == Max({0, due[group']})
<1>1. Earliest \in Polled /\ \A g \in Polled : due[Earliest] <= due[g]
  BY EarliestDue
<1>2. group' \in Polled /\ \A g \in Polled : due[group'] <= due[g]
  BY <1>1 DEF Choose
<1>3. \A g \in Polled : due[g] \in Int
  BY DEF TypeOK
<1>4. due[group'] \in Int /\ wait \in {0, due[group']} /\ 0 <= wait /\ due[group'] <= wait
  <2>1. due[group'] \in Int /\ 0 \in Int
    BY <1>2, <1>3
  <2> QED BY <2>1, MaxOfTwo
<1> HIDE DEF wait
<1>5. due' = [g \in Polled |-> due[g] - wait] /\ wait \in Int
  BY <1>4 DEF Choose, wait
<1>6. TypeOK'
  <2>1. due' \in [Polled -> Int]
    BY <1>3, <1>5
  <2>2. group' \in AllGroups /\ group' # None
    BY <1>2, PollingAssumption DEF AllGroups
  <2> QED BY <2>1, <2>2 DEF Choose, TypeOK, external
<1>7. FewOverdue(due')
  <2>1. CASE wait = 0
    <3>1. due' = due
      BY <1>3, <1>5, <2>1 DEF TypeOK
    <3> QED BY <3>1
  <2>2. CASE wait = due[group']
    <3>1. \A g \in Polled : due[g] - wait \in Nat
      BY <1>2, <1>3, <1>4, <2>2
    <3>2. due' \in [Polled -> Nat]
      BY <1>5, <3>1
    <3> QED BY <3>2, NothingOverdue
  <2> QED BY <1>4, <2>1, <2>2
<1>8. GroupInTurn'
  <2>1. todo' = <<>> /\ pc' = "request"
    BY DEF Choose, GroupInTurn
  <2>2. \A g \in Polled : due'[group'] <= due'[g]
    BY <1>2, <1>3, <1>5
  <2> QED BY <1>2, <2>1, <2>2 DEF GroupInTurn
<1>9. late' = None
  BY DEF Choose, LateMeetsFirst, Exchanging
<1> QED BY <1>6, <1>7, <1>8, <1>9 DEF Choose, LateMeetsFirst, PublishedGenuine, external
-----------------------------------------------------------------------------
\* Every step of the poller preserves the invariant.
LEMMA StepInv == ASSUME DInv, [Next]_vars PROVE DInv'
<1> USE DEF DInv
<1>1. CASE Plant
  <2>1. TypeOK' /\ UNCHANGED <<pc, todo, group, due, reported>> /\ late' \in {late, None}
    <3>1. CASE Unplug
      BY <3>1, PollingAssumption DEF Unplug, TypeOK
    <3>2. CASE Replug
      BY <3>2 DEF Replug, TypeOK
    <3>3. CASE Inverter
      BY <3>3 DEF Inverter, TypeOK, SymDiff
    <3> QED BY <1>1, <3>1, <3>2, <3>3 DEF Plant
  <2> QED BY <2>1 DEF GroupInTurn, LateMeetsFirst, PublishedGenuine, Exchanging
<1>2. CASE Open
  <2>1. Head(IdentityGroups) \in AllGroups /\ IdentityGroups # <<>>
    BY IdentityOrder, PollingAssumption DEF AllGroups
  <2>2. TypeOK'
    BY <1>2, <2>1, PollingAssumption DEF Open, TypeOK, external
  <2>3. FewOverdue(due')
    BY <1>2 DEF Open
  <2> QED BY <1>2, <2>1, <2>2, <2>3
         DEF Open, GroupInTurn, LateMeetsFirst, PublishedGenuine, Exchanging
<1>3. CASE OpenFails
  BY <1>3, FailKeeps DEF OpenFails, TypeOK
<1>4. CASE OpenRaises
  BY <1>4, EndKeeps DEF OpenRaises
<1>5. CASE Request
  <2>1. CASE pc' = "response"
    <3>1. UNCHANGED <<external, late, todo, group, due, backoff, status, reported>>
      BY <1>5, <2>1 DEF Request, End
    <3>2. TypeOK' /\ FewOverdue(due')
      BY <1>5, <2>1, <3>1 DEF Request, TypeOK, external
    <3> QED BY <1>5, <2>1, <3>1, <3>2
           DEF Request, GroupInTurn, LateMeetsFirst, PublishedGenuine, Exchanging
  <2>2. CASE End /\ UNCHANGED status
    BY <2>2, EndKeeps
  <2> QED BY <1>5, <2>1, <2>2 DEF Request
<1>6. CASE DrainRaises
  BY <1>6, EndKeeps DEF DrainRaises
<1>7. CASE Answered
  BY <1>7, ReadKeeps DEF Answered
<1>8. CASE LateAnswer
  <2>1. CASE Accepted(late)
    <3>1. late = group
      BY <1>8, <2>1, HeadAlone DEF LateAnswer
    <3> QED BY <1>8, <2>1, <3>1, ReadKeeps DEF LateAnswer
  <2>2. CASE ~Accepted(late)
    BY <1>8, <2>2, FailKeeps DEF LateAnswer
  <2> QED BY <2>1, <2>2
<1>9. CASE NoAnswer
  <2>1. group \in AllGroups
    BY <1>9 DEF NoAnswer, TypeOK
  <2>2. Fail /\ late' \in AllGroups \cup {None}
    BY <1>9, <2>1 DEF NoAnswer
  <2> QED BY <2>2, FailKeeps
<1>10. CASE Choose
  BY <1>10, ChooseKeeps
<1>11. CASE UNCHANGED vars
  BY <1>11
     DEF vars, external, TypeOK, GroupInTurn, LateMeetsFirst, PublishedGenuine, Exchanging
<1> QED BY <1>1, <1>2, <1>3, <1>4, <1>5, <1>6, <1>7, <1>8, <1>9, <1>10, <1>11
       DEF Next, Opening, Reading

\* The inductive invariant of polling.
LEMMA PollingInv == Spec => []DInv
BY InitInv, StepInv, PTL DEF Spec

\* The variables always hold what they should.
THEOREM PollingTypeOK == Spec => []TypeOK
<1>1. DInv => TypeOK
  BY DEF DInv
<1> QED BY <1>1, PollingInv, PTL

\* Whatever answers are given up and come late, no group's names ever show another group's
\* registers, provided that no other group is read like the first identity group.
THEOREM PollingPublishedGenuine == Spec => []PublishedGenuine
<1>1. DInv => PublishedGenuine
  BY DEF DInv
<1> QED BY <1>1, PollingInv, PTL

\* Reading the group due first keeps every group's lateness below one exchange of each other
\* group, however long the intervals and however many the groups.
THEOREM PollingBoundedLateness == Spec => []BoundedLateness
<1>1. DInv => BoundedLateness
  BY Lateness DEF DInv, BoundedLateness, Others
<1> QED BY <1>1, PollingInv, PTL
=============================================================================
