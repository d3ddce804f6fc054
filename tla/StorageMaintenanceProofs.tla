---------------------- MODULE StorageMaintenanceProofs ----------------------
(***************************************************************************)
(* Proofs about StorageMaintenance, for any number of levels, any slice    *)
(* size, any retention of the rollups and any failures: no sample is lost  *)
(* and no rollup shrinks, provided that the raw rows are kept long enough. *)
(***************************************************************************)
EXTENDS StorageMaintenance, SetLemmas, FiniteSetTheorems, TLAPS

Later(a, b) == IF a >= b THEN a ELSE b

\* How far the rollups of a level may trail behind the begin of the last completed pass.
Trail(l) == Later(Levels[l] - 1, MaxLate)

\* Raw rows outlive two periods of every level, the longest silence of the devices, the
\* time between two passes and what a row may trail; no row is so late that the period
\* before the newest rollup is over without it.
RetentionRoom ==
    \A l \in DOMAIN Levels :
        /\ MaxInterval + Trail(l) + MaxGap + 2 * Levels[l] - 1 <= Retention
        /\ MaxLate <= 2 * Levels[l]
-----------------------------------------------------------------------------
(***************************************************************************)
(* The inductive invariant.                                                *)
(***************************************************************************)

\* Whatever is aggregated was committed; what was deleted has outlived its retention.
RowsKnown ==
    /\ \A l \in DOMAIN Levels : \A p \in Stored(l) : rollups[l][p] \subseteq committed
    /\ \A p \in DOMAIN pass.todo : pass.todo[p] \subseteq committed
    /\ \A t \in committed \ raw : Outlived(t, Retention)

\* Where the clock is: nothing is later, silent or apart for longer than its bound.
InTime ==
    /\ \A t \in pending : time <= t + MaxLate
    /\ \A t \in committed \cup pending : t <= newest
    /\ newest \in (committed \cup pending) \cup {-1}
    /\ newest <= time /\ time <= newest + MaxGap
    /\ begun <= time /\ time <= begun + MaxInterval
    /\ pass.pc # "idle" => begun <= pass.now
    /\ \A s \in Ticks : s < time =>
           \E t \in (committed \cup pending) \cup {-1} : t <= s /\ s < t + MaxGap

\* A rollup is of a period that is over.
PeriodsOver ==
    /\ \A l \in DOMAIN Levels : \A p \in Stored(l) :
           p + Levels[l] <= time /\ (pass.pc # "idle" => p + Levels[l] <= pass.now)
    /\ \A p \in DOMAIN pass.todo : p + Levels[pass.level] <= pass.now

\* Level l has every row committed in time for a pass that began at now.
CaughtUp(l, now) ==
    \A t \in committed : t < Period(l, now) /\ t < now - MaxLate => RolledUp(l, t)

\* What is not in its rollup is not left behind it.
NoneLeftBehind ==
    \A l \in DOMAIN Levels : \A t \in committed :
        RolledUp(l, t) \/ \A p \in Stored(l) : p - Levels[l] <= t

\* The rollups about to be written have all that the stored ones have, and every row that
\* was there when they were computed.
TodoComplete ==
    pass.pc = "write" =>
        /\ \A t \in committed :
               \/ RolledUp(pass.level, t)
               \/ /\ Period(pass.level, t) \in DOMAIN pass.todo
                  /\ t \in pass.todo[Period(pass.level, t)]
               \/ Period(pass.level, pass.now) <= t
               \/ pass.now - MaxLate <= t
        /\ \A p \in DOMAIN pass.todo \cap Stored(pass.level) :
               \/ rollups[pass.level][p] \subseteq pass.todo[p]
               \/ Outlived(p, RollupRetention[pass.level])

LevelsDone ==
    /\ \A l \in DOMAIN Levels : CaughtUp(l, begun)
    /\ pass.pc \in {"aggregate", "write"} => \A l \in 1..(pass.level - 1) : CaughtUp(l, pass.now)
    /\ pass.pc = "delete" => \A l \in DOMAIN Levels : CaughtUp(l, pass.now)

RollupInv ==
    /\ TypeOK /\ RowsKnown /\ InTime /\ PeriodsOver
    /\ NoSampleLost /\ NoneLeftBehind /\ TodoComplete /\ LevelsDone
-----------------------------------------------------------------------------
(***************************************************************************)
(* Periods and slices.                                                     *)
(***************************************************************************)

\* What the assumptions say of the levels.
LEMMA LevelType ==
    ASSUME NEW l \in DOMAIN Levels
    PROVE  /\ Levels[l] \in Nat \ {0} /\ Trail(l) \in Nat
           /\ Levels[l] - 1 <= Trail(l) /\ MaxLate <= Trail(l)
BY MaintenanceAssumption DEF Trail, Later

\* A tick lies in its period.
LEMMA PeriodFacts ==
    ASSUME NEW l \in DOMAIN Levels, NEW x \in Nat
    PROVE  /\ Period(l, x) \in Nat /\ Period(l, x) <= x /\ x < Period(l, x) + Levels[l]
           /\ Period(l, Period(l, x)) = Period(l, x)
<1> DEFINE L == Levels[l]
           q == x \div L
<1>1. L \in Nat \ {0}
  BY LevelType
<1> HIDE DEF L
<1>2. q \in Nat /\ q * L <= x /\ x < q * L + L
  BY <1>1
<1>3. q * L \in Nat
  BY <1>1, <1>2
<1>4. (q * L) \div L = q
  BY <1>1, <1>2
<1> QED BY <1>2, <1>3, <1>4 DEF Period, L

\* Different periods are at least a period apart.
LEMMA PeriodsApart ==
    ASSUME NEW l \in DOMAIN Levels, NEW x \in Nat, NEW y \in Nat,
           Period(l, x) < Period(l, y)
    PROVE  Period(l, x) + Levels[l] <= Period(l, y)
<1> DEFINE L == Levels[l]
           a == x \div L
           b == y \div L
<1>1. L \in Nat \ {0} /\ a \in Nat /\ b \in Nat
  BY LevelType
<1>2. a * L < b * L
  BY DEF Period
<1> HIDE DEF L, a, b
<1>3. a + 1 <= b
  BY <1>1, <1>2
<1>4. (a + 1) * L <= b * L
  BY <1>1, <1>3
<1>5. a * L + L <= b * L
  BY <1>1, <1>4
<1> QED BY <1>5 DEF Period, L, a, b

\* Of two ticks the earlier one has no later period.
LEMMA PeriodMonotonic ==
    ASSUME NEW l \in DOMAIN Levels, NEW x \in Nat, NEW y \in Nat, x <= y
    PROVE  Period(l, x) <= Period(l, y)
<1> DEFINE L == Levels[l]
           a == x \div L
           b == y \div L
<1>1. L \in Nat \ {0} /\ a \in Nat /\ b \in Nat /\ a <= b
  BY LevelType
<1>2. a * L <= b * L
  <2> HIDE DEF L, a, b
  <2> QED BY <1>1
<1> QED BY <1>2 DEF Period

\* A tick at or after the period before q lies in no earlier one.
LEMMA PeriodBefore ==
    ASSUME NEW l \in DOMAIN Levels, NEW q \in Nat, Period(l, q) = q, NEW u \in Nat,
           q - Levels[l] <= u
    PROVE  q - Levels[l] <= Period(l, u)
<1> DEFINE L == Levels[l]
           a == u \div L
           b == q \div L
<1>1. L \in Nat \ {0} /\ a \in Nat /\ b \in Nat /\ u < a * L + L
  BY LevelType
<1>2. q = b * L
  BY DEF Period
<1> HIDE DEF L, a, b
<1>3. b * L < (a + 2) * L
  BY <1>1, <1>2 DEF L
<1>4. b <= a + 1
  BY <1>1, <1>3
<1>5. b * L <= (a + 1) * L
  BY <1>1, <1>4
<1>6. q - L <= a * L
  BY <1>1, <1>2, <1>5
<1> QED BY <1>6 DEF Period, L, a, b

\* A period and its start are times.
LEMMA StartType ==
    ASSUME NEW l \in DOMAIN Levels, NEW p \in Starts(l)
    PROVE  p \in Nat /\ p \in 0..MaxTime /\ Period(l, p) = p
<1>1. PICK t \in Ticks : p = Period(l, t)
  BY DEF Starts
<1>2. t \in Nat /\ t <= MaxTime
  BY MaintenanceAssumption DEF Ticks
<1> QED BY <1>1, <1>2, PeriodFacts, MaintenanceAssumption

\* The newest period stored is one.
LEMMA NewestStored ==
    ASSUME TypeOK, NEW l \in DOMAIN Levels, Stored(l) # {}
    PROVE  Max(Stored(l)) \in Stored(l) /\ \A p \in Stored(l) : p <= Max(Stored(l))
<1>1. Stored(l) \in SUBSET (0..MaxTime)
  BY StartType DEF TypeOK
<1> QED BY <1>1, MaxExists, MaintenanceAssumption

\* What is left to write is later than what a slice writes.
LEMMA SliceFirst ==
    ASSUME NEW l \in DOMAIN Levels, DOMAIN pass.todo \subseteq Starts(l),
           NEW p \in Slice, NEW q \in (DOMAIN pass.todo) \ Slice
    PROVE  p < q
<1> DEFINE D == DOMAIN pass.todo
           Below(r) == {s \in D : s < r}
<1>1. D \in SUBSET (0..MaxTime) /\ p \in D /\ q \in D
  BY StartType DEF Slice
<1>2. IsFiniteSet(Below(p)) /\ IsFiniteSet(Below(q))
  <2>1. IsFiniteSet(0..MaxTime)
    BY FS_Interval, MaintenanceAssumption
  <2> QED BY <1>1, <2>1, FS_Subset
<1>3. /\ Cardinality(Below(p)) < SliceSize /\ ~(Cardinality(Below(q)) < SliceSize)
      /\ Cardinality(Below(p)) \in Nat /\ Cardinality(Below(q)) \in Nat
  BY <1>1, <1>2, FS_CardinalityType DEF Slice
<1>4. q <= p => Cardinality(Below(q)) <= Cardinality(Below(p))
  <2> SUFFICES ASSUME q <= p PROVE Cardinality(Below(q)) <= Cardinality(Below(p))
    OBVIOUS
  <2>1. Below(q) \in SUBSET Below(p)
    BY <1>1
  <2> QED BY <1>2, <2>1, FS_Subset
<1> QED BY <1>1, <1>3, <1>4, MaintenanceAssumption
-----------------------------------------------------------------------------
(***************************************************************************)
(* The world moves on.                                                     *)
(***************************************************************************)

\* What is in a rollup stays there while the rollups keep what they have.
LEMMA RolledUpStable ==
    ASSUME NEW l \in DOMAIN Levels, NEW t \in Nat, time \in Nat, time' \in Nat, time <= time',
           RollupRetention[l] \in Nat,
           \A p \in Stored(l) : \/ p \in Stored(l)' /\ rollups[l][p] \subseteq rollups'[l][p]
                               \/ Outlived(p, RollupRetention[l]),
           RolledUp(l, t)
    PROVE  RolledUp(l, t)'
<1>1. Period(l, t) \in Nat
  BY PeriodFacts
<1>2. Outlived(Period(l, t), RollupRetention[l]) => Outlived(Period(l, t), RollupRetention[l])'
  BY <1>1 DEF Outlived
<1> QED BY <1>2 DEF RolledUp

\* A level that has caught up stays so while its rows keep their rollups.
LEMMA CaughtUpStable ==
    ASSUME NEW l \in DOMAIN Levels, NEW now \in Nat, CaughtUp(l, now),
           \A t \in committed : RolledUp(l, t) => RolledUp(l, t)',
           \A t \in committed' \ committed : t \in Nat /\ now - MaxLate <= t
    PROVE  CaughtUp(l, now)'
BY MaintenanceAssumption DEF CaughtUp

\* Nothing is stored at the start.
LEMMA InitRollupInv == Init => RollupInv
<1> SUFFICES ASSUME Init PROVE RollupInv
  OBVIOUS
<1>1. \A l \in DOMAIN Levels : rollups[l] = NoRollups /\ Stored(l) = {}
  BY DEF Init, Stored, NoRollups
<1>2. pass = [pc |-> "idle", level |-> 1, now |-> 0, todo |-> NoRollups] /\ DOMAIN pass.todo = {}
  BY DEF Init, Idle, NoRollups
<1>3. 1 \in DOMAIN Levels
  BY MaintenanceAssumption
<1>4. TypeOK
  BY <1>1, <1>2, <1>3, MaintenanceAssumption DEF Init, TypeOK, Ticks
<1>5. RowsKnown /\ PeriodsOver /\ NoSampleLost /\ NoneLeftBehind /\ TodoComplete /\ LevelsDone
  BY <1>1, <1>2 DEF Init, RowsKnown, PeriodsOver, NoSampleLost, NoneLeftBehind, TodoComplete,
     LevelsDone, CaughtUp
<1>6. InTime
  BY <1>2, MaintenanceAssumption DEF Init, InTime, Ticks
<1> QED BY <1>4, <1>5, <1>6 DEF RollupInv

\* The numbers of a state.
LEMMA TypeFacts ==
    ASSUME TypeOK
    PROVE  /\ time \in Nat /\ newest \in Int /\ begun \in Nat /\ pass.now \in Nat
           /\ \A t \in pending \cup committed \cup raw : t \in Nat /\ t \in Ticks
           /\ raw \subseteq committed
           /\ \A l \in DOMAIN Levels :
                  /\ RollupRetention[l] \in Nat
                  /\ \A p \in Stored(l) : p \in Nat /\ Period(l, p) = p
           /\ \A p \in DOMAIN pass.todo : p \in Nat /\ Period(pass.level, p) = p
           /\ Retention \in Nat /\ MaxLate \in Nat /\ MaxGap \in Nat /\ MaxInterval \in Nat
           /\ pass.level \in DOMAIN Levels
           /\ \A l \in 1..(pass.level - 1) : l \in DOMAIN Levels
<1>1. Levels \in Seq(Nat \ {0}) /\ DOMAIN Levels = 1..Len(Levels) /\ Len(Levels) \in Nat
  BY MaintenanceAssumption
<1> QED BY <1>1, MaintenanceAssumption, StartType DEF TypeOK, Ticks

\* LevelsDone holds on while the pass stays where it is.
LEMMA LevelsStayDone ==
    ASSUME TypeOK, LevelsDone, begun' = begun, begun <= pass.now \/ pass.pc = "idle",
           \/ pass' = pass
           \/ pass'.pc = "write" /\ pass.pc = "aggregate" /\ pass'.now = pass.now
              /\ pass'.level = pass.level,
           \A l \in DOMAIN Levels : \A t \in committed : RolledUp(l, t) => RolledUp(l, t)',
           \A t \in committed' \ committed :
               t \in Nat /\ begun - MaxLate <= t /\ (pass.pc # "idle" => pass.now - MaxLate <= t)
    PROVE  LevelsDone'
<1>1. \A l \in DOMAIN Levels : CaughtUp(l, begun)'
  BY TypeFacts, CaughtUpStable DEF LevelsDone
<1>2. \A l \in DOMAIN Levels :
          pass.pc # "idle" /\ CaughtUp(l, pass.now) => CaughtUp(l, pass.now)'
  BY TypeFacts, CaughtUpStable
<1> QED BY <1>1, <1>2, TypeFacts DEF LevelsDone

\* A row that is in its rollup stays there as time passes and nothing is written.
LEMMA RolledUpKept ==
    ASSUME TypeOK, TypeOK', UNCHANGED rollups, time <= time'
    PROVE  /\ \A l \in DOMAIN Levels : \A t \in Nat : RolledUp(l, t) => RolledUp(l, t)'
           /\ \A l \in DOMAIN Levels : Stored(l)' = Stored(l)
<1>1. \A l \in DOMAIN Levels : Stored(l)' = Stored(l)
  BY DEF Stored
<1>2. ASSUME NEW l \in DOMAIN Levels, NEW t \in Nat, RolledUp(l, t) PROVE RolledUp(l, t)'
  <2>1. time \in Nat /\ time' \in Nat /\ RollupRetention[l] \in Nat
    BY TypeFacts, MaintenanceAssumption DEF TypeOK, Ticks
  <2> QED BY <1>1, <1>2, <2>1, RolledUpStable
<1> QED BY <1>1, <1>2

\* As time passes rows may outlive their retention, none loses its rollup before.
LEMMA TickKeeps ==
    ASSUME RollupInv, Tick
    PROVE  RollupInv'
<1> USE DEF RollupInv
<1>0. UNCHANGED <<newest, pending, raw, committed, rollups, pass, begun, failures>> /\ time' = time + 1
  BY DEF Tick, dataVars
<1>1. TypeOK'
  BY <1>0, TypeFacts, MaintenanceAssumption, SMTT(30) DEF Tick, TypeOK, Ticks, Stored
<1>2. /\ \A l \in DOMAIN Levels : \A t \in Nat : RolledUp(l, t) => RolledUp(l, t)'
      /\ \A l \in DOMAIN Levels : Stored(l)' = Stored(l)
      /\ \A t, r \in Nat : Outlived(t, r) => Outlived(t, r)'
  BY <1>0, <1>1, RolledUpKept, TypeFacts DEF Outlived
<1>3. RowsKnown'
  BY <1>0, <1>2, TypeFacts DEF RowsKnown
<1>4. InTime'
  <2>1. \A s \in Ticks : s < time' => s < time \/ s = time
    BY <1>0, TypeFacts DEF Ticks
  <2>2. newest \in (committed \cup pending) \cup {-1} /\ newest <= time /\ time < newest + MaxGap
    BY DEF InTime, Tick
  <2> QED BY <1>0, <2>1, <2>2, TypeFacts DEF InTime, Tick
<1>5. PeriodsOver'
  BY <1>0, <1>2, TypeFacts, LevelType DEF PeriodsOver
<1>6. NoSampleLost' /\ NoneLeftBehind'
  BY <1>0, <1>2, TypeFacts DEF NoSampleLost, NoneLeftBehind
<1>7. TodoComplete'
  BY <1>0, <1>2, TypeFacts DEF TodoComplete
<1>8. LevelsDone'
  BY <1>0, <1>2, TypeFacts, LevelsStayDone DEF InTime
<1> QED BY <1>1, <1>3, <1>4, <1>5, <1>6, <1>7, <1>8

\* A row observed is pending.
LEMMA ObserveKeeps ==
    ASSUME RollupInv, Observe
    PROVE  RollupInv'
<1> USE DEF RollupInv
<1>0. /\ UNCHANGED <<time, raw, committed, rollups, pass, begun, failures>>
      /\ newest' = time /\ newest < time /\ pending' = pending \cup {time}
  BY DEF Observe
<1>1. TypeOK'
  BY <1>0 DEF TypeOK, Stored
<1>2. /\ \A l \in DOMAIN Levels : \A t \in Nat : RolledUp(l, t) => RolledUp(l, t)'
      /\ \A l \in DOMAIN Levels : Stored(l)' = Stored(l)
      /\ \A t, r \in Nat : Outlived(t, r) => Outlived(t, r)'
  BY <1>0, <1>1, RolledUpKept, TypeFacts DEF Outlived
<1>3. RowsKnown'
  BY <1>0, <1>2, TypeFacts DEF RowsKnown
<1>4. InTime'
  <2>1. \A t \in committed \cup pending : t <= time
    BY TypeFacts DEF InTime
  <2>2. \A s \in Ticks : s < time =>
            \E t \in (committed' \cup pending') \cup {-1} : t <= s /\ s < t + MaxGap
    BY <1>0 DEF InTime
  <2> QED BY <1>0, <2>1, <2>2, TypeFacts, MaintenanceAssumption, SMTT(30) DEF InTime
<1>5. PeriodsOver'
  BY <1>0, <1>2, TypeFacts, LevelType DEF PeriodsOver
<1>6. NoSampleLost' /\ NoneLeftBehind'
  BY <1>0, <1>2, TypeFacts DEF NoSampleLost, NoneLeftBehind
<1>7. TodoComplete'
  BY <1>0, <1>2, TypeFacts DEF TodoComplete
<1>8. LevelsDone'
  BY <1>0, <1>2, TypeFacts, LevelsStayDone DEF InTime
<1> QED BY <1>1, <1>3, <1>4, <1>5, <1>6, <1>7, <1>8

\* A row is committed while the period before the newest rollup is at most MaxLate ago.
LEMMA CommitKeeps ==
    ASSUME RollupInv, RetentionRoom, Commit
    PROVE  RollupInv'
<1> USE DEF RollupInv
<1>0. UNCHANGED <<time, newest, rollups, pass, begun, failures>>
  BY DEF Commit
<1>a. PICK batch \in (SUBSET pending) \ {{}} :
         /\ pending' = pending \ batch
         /\ raw' = raw \cup batch
         /\ committed' = committed \cup batch
  BY DEF Commit
<1>b. \A t \in batch : t \in pending /\ t \in Nat /\ time <= t + MaxLate
  BY TypeFacts DEF InTime
<1>1. TypeOK'
  BY <1>0, <1>a DEF TypeOK, Stored
<1>2. /\ \A l \in DOMAIN Levels : \A t \in Nat : RolledUp(l, t) => RolledUp(l, t)'
      /\ \A l \in DOMAIN Levels : Stored(l)' = Stored(l)
      /\ \A t, r \in Nat : Outlived(t, r) => Outlived(t, r)'
  BY <1>0, <1>1, RolledUpKept, TypeFacts DEF Outlived
<1>3. RowsKnown'
  BY <1>0, <1>a, <1>2, TypeFacts DEF RowsKnown
<1>4. InTime'
  <2>1. committed' \cup pending' = committed \cup pending
    BY <1>a
  <2> QED BY <1>0, <1>a, <2>1 DEF InTime
<1>5. PeriodsOver'
  BY <1>0, <1>2, TypeFacts, LevelType DEF PeriodsOver
<1>6. NoSampleLost'
  BY <1>0, <1>a, <1>2, TypeFacts DEF NoSampleLost
<1>7. NoneLeftBehind'
  <2>1. ASSUME NEW l \in DOMAIN Levels, NEW t \in batch, NEW p \in Stored(l)
        PROVE  p - Levels[l] <= t
    BY <1>b, <2>1, TypeFacts, LevelType DEF RetentionRoom, PeriodsOver
  <2> QED BY <1>0, <1>a, <1>2, <2>1, TypeFacts DEF NoneLeftBehind
<1>8. TodoComplete'
  <2>1. \A t \in batch : pass.now - MaxLate <= t
    BY <1>b, TypeFacts DEF TypeOK
  <2> QED BY <1>0, <1>a, <1>2, <2>1, TypeFacts DEF TodoComplete
<1>9. LevelsDone'
  <2>1. \A t \in batch : pass.now - MaxLate <= t /\ begun - MaxLate <= t
    BY <1>b, TypeFacts DEF TypeOK, InTime
  <2> QED BY <1>0, <1>a, <1>b, <1>2, <2>1, TypeFacts, LevelsStayDone DEF InTime
<1> QED BY <1>1, <1>3, <1>4, <1>5, <1>6, <1>7, <1>8, <1>9
-----------------------------------------------------------------------------
(***************************************************************************)
(* The pass.                                                               *)
(***************************************************************************)

\* What survives every step of a pass that writes no rollup and deletes nothing.
LEMMA PassMoves ==
    ASSUME RollupInv, UNCHANGED <<time, dataVars, rollups, begun>>, TypeOK'
    PROVE  /\ \A l \in DOMAIN Levels : \A t \in Nat : RolledUp(l, t) => RolledUp(l, t)'
           /\ \A l \in DOMAIN Levels : Stored(l)' = Stored(l)
           /\ \A t, r \in Nat : Outlived(t, r) <=> Outlived(t, r)'
           /\ NoSampleLost' /\ NoneLeftBehind'
           /\ \A l \in DOMAIN Levels : CaughtUp(l, begun)'
<1>0. UNCHANGED <<time, newest, pending, raw, committed, rollups, begun>>
  BY DEF dataVars
<1>1. /\ \A l \in DOMAIN Levels : \A t \in Nat : RolledUp(l, t) => RolledUp(l, t)'
      /\ \A l \in DOMAIN Levels : Stored(l)' = Stored(l)
      /\ \A t, r \in Nat : Outlived(t, r) <=> Outlived(t, r)'
  BY <1>0, RolledUpKept, TypeFacts DEF RollupInv, Outlived
<1>2. \A l \in DOMAIN Levels : CaughtUp(l, begun)'
  BY <1>0, <1>1, TypeFacts, CaughtUpStable DEF RollupInv, LevelsDone
<1> QED BY <1>0, <1>1, <1>2, TypeFacts DEF RollupInv, NoSampleLost, NoneLeftBehind

\* A pass starts from the level and the time it finds.
LEMMA StartPassKeeps ==
    ASSUME RollupInv, StartPass
    PROVE  RollupInv'
<1> USE DEF RollupInv
<1>0. /\ UNCHANGED <<time, newest, pending, raw, committed, rollups, begun, failures>>
      /\ pass' = [pc |-> "aggregate", level |-> 1, now |-> time, todo |-> NoRollups]
      /\ DOMAIN NoRollups = {}
  BY DEF StartPass, dataVars, Idle, NoRollups
<1>1. TypeOK'
  <2>1. 1 \in DOMAIN Levels
    BY MaintenanceAssumption
  <2> QED BY <1>0, <2>1, TypeFacts DEF TypeOK, Stored
<1>2. /\ \A l \in DOMAIN Levels : Stored(l)' = Stored(l)
      /\ \A t, r \in Nat : Outlived(t, r) <=> Outlived(t, r)'
      /\ NoSampleLost' /\ NoneLeftBehind' /\ \A l \in DOMAIN Levels : CaughtUp(l, begun)'
  BY <1>1, PassMoves DEF StartPass
<1>3. RowsKnown' /\ PeriodsOver' /\ TodoComplete'
  BY <1>0, <1>2, TypeFacts DEF RowsKnown, PeriodsOver, TodoComplete
<1>4. InTime'
  BY <1>0 DEF InTime
<1>5. LevelsDone'
  BY <1>0, <1>2 DEF LevelsDone
<1> QED BY <1>1, <1>2, <1>3, <1>4, <1>5

\* A pass cut short leaves the rollups it has written.
LEMMA FailPassKeeps ==
    ASSUME RollupInv, FailPass
    PROVE  RollupInv'
<1> USE DEF RollupInv
<1>0. /\ UNCHANGED <<time, newest, pending, raw, committed, rollups, begun>>
      /\ pass' = [pc |-> "idle", level |-> 1, now |-> 0, todo |-> NoRollups]
      /\ DOMAIN NoRollups = {} /\ failures' = failures + 1 /\ failures < MaxFailures
  BY DEF FailPass, dataVars, Idle, NoRollups
<1>1. TypeOK'
  <2>1. 1 \in DOMAIN Levels
    BY MaintenanceAssumption
  <2> QED BY <1>0, <2>1, TypeFacts, MaintenanceAssumption, SMTT(30) DEF TypeOK, Stored
<1>2. /\ \A l \in DOMAIN Levels : Stored(l)' = Stored(l)
      /\ \A t, r \in Nat : Outlived(t, r) <=> Outlived(t, r)'
      /\ NoSampleLost' /\ NoneLeftBehind' /\ \A l \in DOMAIN Levels : CaughtUp(l, begun)'
  BY <1>1, PassMoves DEF FailPass
<1>3. RowsKnown' /\ PeriodsOver' /\ TodoComplete'
  BY <1>0, <1>2, TypeFacts DEF RowsKnown, PeriodsOver, TodoComplete
<1>4. InTime'
  BY <1>0 DEF InTime
<1>5. LevelsDone'
  BY <1>0, <1>2 DEF LevelsDone
<1> QED BY <1>1, <1>2, <1>3, <1>4, <1>5

\* A row that a pass should have rolled up and did not is recent.
LEMMA UnrolledRecent ==
    ASSUME NEW l \in DOMAIN Levels, NEW now \in Nat, CaughtUp(l, now),
           NEW t \in committed, t \in Nat, ~RolledUp(l, t)
    PROVE  now - Trail(l) <= t
<1>1. Period(l, now) <= t \/ now - MaxLate <= t
  BY PeriodFacts, MaintenanceAssumption DEF CaughtUp
<1>2. now - Levels[l] + 1 <= Period(l, now) /\ Period(l, now) \in Nat
  BY PeriodFacts, LevelType
<1> QED BY <1>1, <1>2, LevelType, MaintenanceAssumption

\* The rollups computed anew are recent: their rows have not outlived their retention,
\* or they themselves have.
LEMMA NewestRecent ==
    ASSUME RollupInv, RetentionRoom, NEW l \in DOMAIN Levels, NEW p \in Stored(l),
           NEW q \in Stored(l), \A r \in Stored(l) : r <= q, q - Levels[l] <= p
    PROVE  time - Retention <= p \/ Outlived(p, RollupRetention[l])
<1> DEFINE L  == Levels[l]
           lo == begun - Trail(l)
<1>0. /\ L \in Nat \ {0} /\ Trail(l) \in Nat /\ lo \in Int
      /\ p \in Nat /\ q \in Nat /\ time \in Nat /\ begun \in Nat
      /\ MaxGap \in Nat /\ MaxInterval \in Nat /\ MaxLate \in Nat /\ Retention \in Nat
      /\ RollupRetention[l] \in Nat
  BY TypeFacts, LevelType DEF RollupInv
<1>1. /\ begun <= time /\ time <= begun + MaxInterval
      /\ MaxInterval + Trail(l) + MaxGap + 2 * L - 1 <= Retention
  BY DEF RetentionRoom, RollupInv, InTime
<1>2. lo <= Period(l, begun) /\ lo <= begun - MaxLate
  BY <1>0, PeriodFacts, LevelType
<1>3. CASE lo < MaxGap
  <2>1. time - Retention <= 0
    BY <1>0, <1>1, <1>3
  <2> QED BY <1>0, <2>1
<1>4. CASE MaxGap <= lo
  <2>1. lo - 1 \in Ticks /\ lo - 1 < time
    <3>1. time <= MaxTime /\ MaxTime \in Nat /\ 1 <= MaxGap
      BY MaintenanceAssumption DEF Ticks, RollupInv, TypeOK
    <3> QED BY <1>0, <1>1, <1>4, <3>1 DEF Ticks
  <2>2. PICK t \in (committed \cup pending) \cup {-1} : t <= lo - 1 /\ lo - 1 < t + MaxGap
    BY <2>1 DEF RollupInv, InTime
  <2>3. t # -1
    BY <1>0, <1>4, <2>2
  <2>4. t \in Nat
    BY <2>2, <2>3, TypeFacts DEF RollupInv
  <2>5. t \notin pending
    BY <1>0, <1>1, <1>2, <2>2, <2>4 DEF RollupInv, InTime
  <2>6. RolledUp(l, t)
    BY <1>0, <1>2, <2>2, <2>3, <2>4, <2>5, PeriodFacts
       DEF RollupInv, LevelsDone, CaughtUp
  <2>7. Period(l, t) \in Nat /\ lo - MaxGap - L < Period(l, t)
    BY <1>0, <2>2, <2>4, PeriodFacts
  <2>8. CASE Period(l, t) <= q
    BY <1>0, <1>1, <2>7, <2>8
  <2>9. CASE q < Period(l, t)
    <3>1. Outlived(Period(l, t), RollupRetention[l])
      BY <1>0, <2>6, <2>7, <2>9 DEF RolledUp
    <3>2. p < Period(l, t)
      BY <1>0, <2>7, <2>9
    <3> QED BY <1>0, <2>7, <3>1, <3>2 DEF Outlived
  <2> QED BY <1>0, <2>7, <2>8, <2>9
<1> QED BY <1>0, <1>3, <1>4

\* A pass that aggregates finds in the raw rows all that it is about to replace.
LEMMA AggregateKeeps ==
    ASSUME RollupInv, RetentionRoom, Aggregate
    PROVE  RollupInv'
<1> USE DEF RollupInv
<1>a. PICK l \in DOMAIN Levels : l = pass.level
  BY TypeFacts
<1>0. /\ UNCHANGED <<time, newest, pending, raw, committed, rollups, begun, failures>>
      /\ pass.pc = "aggregate" /\ pass'.pc = "write" /\ pass'.level = l /\ pass'.now = pass.now
      /\ pass'.todo = Groups(l) /\ DOMAIN pass' = {"pc", "level", "now", "todo"}
  BY <1>a DEF Aggregate, dataVars, TypeOK
<1>b. /\ \A u \in raw : u \in Nat /\ u \in Ticks /\ u \in committed
      /\ pass.now \in Nat /\ Levels[l] \in Nat \ {0}
  BY <1>a, TypeFacts, LevelType
\* What is grouped.
<1>c. ASSUME NEW p \in DOMAIN Groups(l)
      PROVE  /\ Groups(l)[p] = Rows(l, p) /\ Groups(l)[p] # {}
             /\ p \in Starts(l) /\ p + Levels[l] <= pass.now
             /\ Groups(l)[p] \subseteq raw /\ Groups(l)[p] \subseteq OfPeriod(l, p)
  <2>1. PICK u \in raw : p = Period(l, u) /\ Since(l) <= u /\ u < Cutoff(l)
    BY DEF Groups
  <2>2. Groups(l)[p] = Rows(l, p) /\ u \in Rows(l, p) /\ p \in Starts(l)
    BY <1>b, <2>1 DEF Groups, Rows, Starts
  <2>3. p + Levels[l] <= pass.now
    <3>1. Period(l, u) < Period(l, pass.now)
      BY <1>a, <1>b, <2>1, PeriodFacts DEF Cutoff
    <3> QED BY <1>a, <1>b, <2>1, <3>1, PeriodFacts, PeriodsApart
  <2>4. Rows(l, p) \subseteq raw /\ Rows(l, p) \subseteq OfPeriod(l, p)
    BY <1>b DEF Rows, OfPeriod
  <2> QED BY <2>2, <2>3, <2>4
\* What is not rolled up is read ...
<1>d. ASSUME NEW t \in raw, ~RolledUp(l, t) PROVE Since(l) <= t
  <2>1. CASE Stored(l) # {}
    BY <1>a, <1>b, <1>d, <2>1, NewestStored DEF Since, NoneLeftBehind
  <2>2. CASE Stored(l) = {}
    <3>1. begun - Trail(l) <= t
      BY <1>a, <1>b, <1>d, TypeFacts, UnrolledRecent DEF LevelsDone
    <3>2. /\ Cutoff(l) <= pass.now /\ Cutoff(l) \in Nat /\ pass.now <= time
          /\ time <= begun + MaxInterval
          /\ MaxInterval + Trail(l) + MaxGap + 2 * Levels[l] - 1 <= Retention
      BY <1>0, <1>a, <1>b, PeriodFacts DEF Cutoff, InTime, RetentionRoom, TypeOK
    <3> QED BY <1>a, <1>b, <2>2, <3>1, <3>2, TypeFacts, LevelType DEF Since
  <2> QED BY <2>1, <2>2
\* ... and a period that is read again has all its rows.
<1>e. ASSUME NEW p \in DOMAIN Groups(l) \cap Stored(l)
      PROVE  rollups[l][p] \subseteq Groups(l)[p] \/ Outlived(p, RollupRetention[l])
  <2> DEFINE q == Max(Stored(l))
  <2>1. q \in Stored(l) /\ q \in Nat /\ Period(l, q) = q /\ \A r \in Stored(l) : r <= q
    BY <1>a, NewestStored, TypeFacts
  <2>2. Since(l) = q - Levels[l] /\ p \in Nat /\ Period(l, p) = p
    BY <1>a, TypeFacts DEF Since
  <2> HIDE DEF q
  <2>3. q - Levels[l] <= p
    <3>1. PICK u \in raw : p = Period(l, u) /\ Since(l) <= u
      BY DEF Groups
    <3> QED BY <1>a, <1>b, <2>1, <2>2, <3>1, PeriodBefore
  <2>4. time - Retention <= p \/ Outlived(p, RollupRetention[l])
    BY <1>a, <2>1, <2>3, NewestRecent
  <2>5. ASSUME time - Retention <= p, NEW r \in rollups[l][p]
        PROVE  r \in Groups(l)[p]
    <3>1. r \in committed /\ r \in Nat /\ Period(l, r) = p
      BY <1>a, TypeFacts DEF RowsKnown, TypeOK, OfPeriod
    <3>2. p <= r /\ r < p + Levels[l]
      BY <1>a, <3>1, PeriodFacts
    <3>3. r \in raw
      BY <2>2, <2>5, <3>1, <3>2, TypeFacts DEF RowsKnown, Outlived
    <3>4. Since(l) <= r
      BY <1>b, <2>1, <2>2, <2>3, <3>1, <3>2
    <3>5. r < Cutoff(l)
      <4>1. p + Levels[l] <= Period(l, pass.now) /\ Period(l, pass.now) \in Nat
        BY <1>a, <1>b, <1>c, <2>2, PeriodsApart, PeriodFacts
      <4> QED BY <1>b, <2>2, <3>1, <3>2, <4>1 DEF Cutoff
    <3> QED BY <1>c, <3>1, <3>3, <3>4, <3>5 DEF Rows
  <2> QED BY <2>4, <2>5
<1>1. TypeOK'
  <2>1. \A p \in DOMAIN Groups(l) :
           Groups(l)[p] \in (SUBSET OfPeriod(l, p)) \ {{}} /\ p \in Starts(l)
    BY <1>c
  <2> QED BY <1>0, <1>a, <2>1 DEF TypeOK, Stored
<1>2. /\ \A k \in DOMAIN Levels : \A t \in Nat : RolledUp(k, t) => RolledUp(k, t)'
      /\ \A k \in DOMAIN Levels : Stored(k)' = Stored(k)
      /\ \A t, r \in Nat : Outlived(t, r) <=> Outlived(t, r)'
      /\ NoSampleLost' /\ NoneLeftBehind'
  BY <1>0, <1>1, PassMoves DEF dataVars
<1>3. RowsKnown'
  BY <1>0, <1>b, <1>c, <1>2, TypeFacts DEF RowsKnown
<1>4. InTime'
  BY <1>0 DEF InTime
<1>5. PeriodsOver'
  BY <1>0, <1>c, <1>2 DEF PeriodsOver
<1>6. TodoComplete'
  <2>1. ASSUME NEW t \in committed, ~RolledUp(l, t), ~(Period(l, pass.now) <= t)
        PROVE  Period(l, t) \in DOMAIN Groups(l) /\ t \in Groups(l)[Period(l, t)]
    <3>1. t \in raw
      BY <1>a, <2>1 DEF NoSampleLost
    <3>2. Since(l) <= t /\ t < Cutoff(l)
      BY <1>a, <1>b, <1>d, <2>1, <3>1, PeriodFacts DEF Cutoff
    <3>3. Period(l, t) \in DOMAIN Groups(l) /\ t \in Rows(l, Period(l, t))
      BY <3>1, <3>2 DEF Groups, Rows
    <3> QED BY <1>c, <3>3
  <2>2. \A p \in DOMAIN Groups(l) \cap Stored(l) :
           rollups[l][p] \subseteq Groups(l)[p] \/ Outlived(p, RollupRetention[l])'
    BY <1>a, <1>e, <1>2, TypeFacts
  <2> QED BY <1>0, <1>a, <1>2, <2>1, <2>2, TypeFacts DEF TodoComplete
<1>7. LevelsDone'
  BY <1>0, <1>a, <1>2, TypeFacts, LevelsStayDone DEF InTime
<1> QED BY <1>1, <1>2, <1>3, <1>4, <1>5, <1>6, <1>7

\* What a slice does to the table.
LEMMA SliceWritten ==
    ASSUME TypeOK, WriteSlice, NEW l \in DOMAIN Levels, l = pass.level
    PROVE  /\ Slice \subseteq DOMAIN pass.todo
           /\ DOMAIN rollups' = DOMAIN Levels
           /\ \A k \in DOMAIN Levels : k # l => rollups'[k] = rollups[k]
           /\ \A k \in DOMAIN Levels : k # l => Stored(k)' = Stored(k)
           /\ Stored(l)' = Slice \cup Stored(l)
           /\ \A p \in Slice : rollups'[l][p] = pass.todo[p]
           /\ \A p \in Stored(l) \ Slice : rollups'[l][p] = rollups[l][p]
<1>1. Slice \subseteq DOMAIN pass.todo
  BY DEF Slice
<1>2. DOMAIN rollups = DOMAIN Levels
  BY DEF TypeOK
<1> DEFINE old == rollups[l]
           new == InsertOrReplace(Restrict(pass.todo, Slice), old)
<1>3. rollups' = [rollups EXCEPT ![l] = new]
  BY DEF WriteSlice
<1>4. new = [p \in Slice \cup DOMAIN old |-> IF p \in Slice THEN pass.todo[p] ELSE old[p]]
  BY <1>1 DEF InsertOrReplace, Restrict
<1>5. DOMAIN new = Slice \cup Stored(l) /\ \A p \in DOMAIN new :
         new[p] = IF p \in Slice THEN pass.todo[p] ELSE rollups[l][p]
  BY <1>4 DEF Stored
<1> HIDE DEF new
<1>6. rollups'[l] = new
  BY <1>2, <1>3
<1> QED BY <1>1, <1>2, <1>3, <1>5, <1>6 DEF Stored

\* Replacing a rollup by one about to be written takes nothing away from it.
LEMMA WriteOnlyAdds ==
    ASSUME RollupInv, WriteSlice, NEW k \in DOMAIN Levels, NEW p \in Stored(k)
    PROVE  \/ p \in Stored(k)' /\ rollups[k][p] \subseteq rollups'[k][p]
           \/ Outlived(p, RollupRetention[k])
<1>1. CASE k # pass.level
  BY <1>1, SliceWritten, TypeFacts DEF RollupInv
<1>2. CASE k = pass.level
  <2>1. p \in Slice => \/ rollups[k][p] \subseteq pass.todo[p]
                       \/ Outlived(p, RollupRetention[k])
    BY <1>2, SliceWritten DEF RollupInv, TodoComplete, WriteSlice
  <2> QED BY <1>2, <2>1, SliceWritten DEF RollupInv
<1> QED BY <1>1, <1>2

\* A slice written covers the rows of its periods.
LEMMA WriteSliceKeeps ==
    ASSUME RollupInv, RetentionRoom, WriteSlice
    PROVE  RollupInv'
<1> USE DEF RollupInv
<1>a. PICK l \in DOMAIN Levels : l = pass.level
  BY TypeFacts
<1>0. /\ UNCHANGED <<time, newest, pending, raw, committed, begun, failures>>
      /\ pass.pc = "write" /\ pass'.pc = "write" /\ pass'.level = l /\ pass'.now = pass.now
      /\ pass'.todo = [p \in DOMAIN pass.todo \ Slice |-> pass.todo[p]]
      /\ DOMAIN pass' = {"pc", "level", "now", "todo"}
  BY <1>a DEF WriteSlice, dataVars, TypeOK, Restrict
<1>b. /\ Slice \subseteq DOMAIN pass.todo
      /\ DOMAIN rollups' = DOMAIN Levels
      /\ \A k \in DOMAIN Levels : k # l => rollups'[k] = rollups[k]
      /\ \A p \in Slice : rollups'[l][p] = pass.todo[p]
      /\ \A p \in Stored(l) \ Slice : rollups'[l][p] = rollups[l][p]
  BY <1>a, SliceWritten
<1>c. /\ \A k \in DOMAIN Levels : k # l => Stored(k)' = Stored(k)
      /\ Stored(l)' = Slice \cup Stored(l)
  BY <1>a, SliceWritten
<1>1. TypeOK'
  BY <1>0, <1>a, <1>b, <1>c DEF TypeOK
<1>2. /\ \A k \in DOMAIN Levels : \A t \in Nat : RolledUp(k, t) => RolledUp(k, t)'
      /\ \A t, r \in Nat : Outlived(t, r) <=> Outlived(t, r)'
  <2>1. ASSUME NEW k \in DOMAIN Levels, NEW t \in Nat, RolledUp(k, t) PROVE RolledUp(k, t)'
    <3>1. \A p \in Stored(k) : \/ p \in Stored(k)' /\ rollups[k][p] \subseteq rollups'[k][p]
                               \/ Outlived(p, RollupRetention[k])
      BY WriteOnlyAdds
    <3> QED BY <1>0, <2>1, <3>1, TypeFacts, RolledUpStable
  <2> QED BY <1>0, <2>1 DEF Outlived
<1>d. ASSUME NEW t \in Nat, Period(l, t) \in Slice, t \in pass.todo[Period(l, t)]
      PROVE  RolledUp(l, t)'
  BY <1>b, <1>c, <1>d DEF RolledUp
<1>3. RowsKnown'
  BY <1>0, <1>b, <1>c, <1>2, TypeFacts DEF RowsKnown
<1>4. InTime'
  BY <1>0 DEF InTime
<1>5. PeriodsOver'
  <2>1. \A p \in Slice : p + Levels[l] <= pass.now /\ p + Levels[l] <= time
    BY <1>a, <1>b, TypeFacts, LevelType DEF PeriodsOver, TypeOK
  <2> QED BY <1>0, <1>a, <1>c, <2>1 DEF PeriodsOver
<1>6. NoSampleLost'
  BY <1>0, <1>2, TypeFacts DEF NoSampleLost
<1>7. NoneLeftBehind'
  <2>1. ASSUME NEW t \in committed, ~RolledUp(l, t)', NEW p \in Slice
        PROVE  p - Levels[l] <= t
    <3>1. /\ t \in Nat /\ pass.now \in Nat /\ p \in Nat /\ Levels[l] \in Nat \ {0}
          /\ p + Levels[l] <= pass.now /\ MaxLate <= 2 * Levels[l] /\ MaxLate \in Nat
      BY <1>a, <1>b, TypeFacts, LevelType DEF PeriodsOver, RetentionRoom
    <3>2. ~RolledUp(l, t)
      BY <1>2, <2>1, <3>1
    <3>3. CASE Period(l, t) \in DOMAIN pass.todo /\ t \in pass.todo[Period(l, t)]
      <4>1. Period(l, t) \notin Slice
        BY <1>d, <2>1, <3>1, <3>3
      <4>2. p < Period(l, t)
        BY <1>a, <3>3, <4>1, SliceFirst DEF TypeOK
      <4> QED BY <3>1, <4>2, PeriodFacts
    <3>4. CASE Period(l, pass.now) <= t
      BY <3>1, <3>4, PeriodFacts
    <3>5. CASE pass.now - MaxLate <= t
      BY <3>1, <3>5
    <3> QED BY <1>0, <1>a, <3>2, <3>3, <3>4, <3>5 DEF TodoComplete
  <2> QED BY <1>0, <1>c, <1>2, <2>1, TypeFacts DEF NoneLeftBehind
<1>8. TodoComplete'
  <2>1. ASSUME NEW t \in committed, ~RolledUp(l, t)',
               ~(Period(l, pass.now) <= t), ~(pass.now - MaxLate <= t)
        PROVE  Period(l, t) \in DOMAIN pass'.todo /\ t \in pass'.todo[Period(l, t)]
    <3>1. Period(l, t) \in DOMAIN pass.todo /\ t \in pass.todo[Period(l, t)]
      BY <1>0, <1>a, <1>2, <2>1, TypeFacts DEF TodoComplete
    <3> QED BY <1>0, <1>d, <2>1, <3>1, TypeFacts
  <2>2. \A p \in DOMAIN pass'.todo \cap Stored(l)' :
           rollups'[l][p] \subseteq pass'.todo[p] \/ Outlived(p, RollupRetention[l])'
    BY <1>0, <1>a, <1>b, <1>c, <1>2, TypeFacts DEF TodoComplete
  <2> QED BY <1>0, <2>1, <2>2 DEF TodoComplete
<1>9. LevelsDone'
  BY <1>0, <1>a, <1>2, TypeFacts DEF LevelsDone, CaughtUp
<1> QED BY <1>1, <1>3, <1>4, <1>5, <1>6, <1>7, <1>8, <1>9

\* A level is left when it has caught up.
LEMMA NextLevelKeeps ==
    ASSUME RollupInv, NextLevel
    PROVE  RollupInv'
<1> USE DEF RollupInv
<1>a. PICK l \in DOMAIN Levels : l = pass.level
  BY TypeFacts
<1>b. Levels \in Seq(Nat \ {0}) /\ DOMAIN Levels = 1..Len(Levels) /\ Len(Levels) \in Nat
  BY MaintenanceAssumption
<1>0. /\ UNCHANGED <<time, newest, pending, raw, committed, rollups, begun, failures>>
      /\ pass.pc = "write" /\ DOMAIN pass.todo = {} /\ pass' = AfterLevel
      /\ pass'.now = pass.now /\ pass'.todo = pass.todo
      /\ DOMAIN pass' = {"pc", "level", "now", "todo"}
      /\ \/ l < Len(Levels) /\ pass'.pc = "aggregate" /\ pass'.level = l + 1
         \/ l = Len(Levels) /\ pass'.pc = "delete" /\ pass'.level = l
  BY <1>a, <1>b DEF NextLevel, AfterLevel, dataVars, TypeOK
<1>1. TypeOK'
  BY <1>0, <1>a, <1>b DEF TypeOK, Stored
<1>2. /\ \A k \in DOMAIN Levels : \A t \in Nat : RolledUp(k, t) => RolledUp(k, t)'
      /\ \A k \in DOMAIN Levels : Stored(k)' = Stored(k)
      /\ \A t, r \in Nat : Outlived(t, r) <=> Outlived(t, r)'
      /\ NoSampleLost' /\ NoneLeftBehind' /\ \A k \in DOMAIN Levels : CaughtUp(k, begun)'
  BY <1>1, PassMoves DEF NextLevel
<1>3. RowsKnown' /\ PeriodsOver' /\ TodoComplete'
  BY <1>0, <1>2, TypeFacts DEF RowsKnown, PeriodsOver, TodoComplete
<1>4. InTime'
  BY <1>0 DEF InTime
<1>5. LevelsDone'
  <2>1. CaughtUp(l, pass.now)
    <3>1. ASSUME NEW t \in committed, t < Period(l, pass.now), t < pass.now - MaxLate
          PROVE  RolledUp(l, t)
      <4>1. /\ t \in Nat /\ Period(l, pass.now) \in Nat /\ pass.now - MaxLate \in Int
            /\ l = pass.level
        BY <1>a, TypeFacts, PeriodFacts
      <4>2. ~(Period(pass.level, pass.now) <= t) /\ ~(pass.now - MaxLate <= t)
        BY <3>1, <4>1
      <4> QED BY <1>0, <1>a, <4>2 DEF TodoComplete
    <3> QED BY <3>1 DEF CaughtUp
  <2>2. \A k \in 1..l : CaughtUp(k, pass.now)
    BY <1>0, <1>a, <1>b, <2>1 DEF LevelsDone
  <2>3. ASSUME NEW k \in 1..l PROVE k \in DOMAIN Levels /\ CaughtUp(k, pass.now)'
    <3>1. k \in DOMAIN Levels /\ pass.now \in Nat /\ CaughtUp(k, pass.now)
      BY <1>a, <1>b, <2>2, TypeFacts
    <3>2. \A t \in committed : RolledUp(k, t) => RolledUp(k, t)'
      BY <1>2, <3>1, TypeFacts
    <3>3. CaughtUp(k, pass.now)'
      BY <1>0, <3>1, <3>2 DEF CaughtUp
    <3> QED BY <3>1, <3>3
  <2> QED BY <1>0, <1>b, <1>2, <2>3 DEF LevelsDone
<1> QED BY <1>1, <1>2, <1>3, <1>4, <1>5

\* A row that some level has not rolled up does not outlive its retention.
LEMMA UnrolledKept ==
    ASSUME RollupInv, RetentionRoom, NEW l \in DOMAIN Levels, NEW t \in committed,
           ~RolledUp(l, t)
    PROVE  ~Outlived(t, Retention)
<1>1. begun - Trail(l) <= t /\ t \in Nat
  BY TypeFacts, UnrolledRecent DEF RollupInv, LevelsDone
<1>2. /\ time <= begun + MaxInterval /\ MaxGap \in Nat \ {0}
      /\ MaxInterval + Trail(l) + MaxGap + 2 * Levels[l] - 1 <= Retention
  BY MaintenanceAssumption DEF RetentionRoom, RollupInv, InTime
<1> QED BY <1>1, <1>2, TypeFacts, LevelType DEF RollupInv, Outlived

\* The retention takes only what every level has rolled up.
LEMMA DeleteKeeps ==
    ASSUME RollupInv, RetentionRoom, Delete
    PROVE  RollupInv'
<1> USE DEF RollupInv
<1>0. /\ UNCHANGED <<time, newest, pending, committed, failures>>
      /\ pass.pc = "delete" /\ pass' = Idle /\ begun' = pass.now /\ raw' = Kept
      /\ pass'.pc = "idle" /\ pass'.level = 1 /\ pass'.now = 0
      /\ pass'.todo = NoRollups /\ DOMAIN pass' = {"pc", "level", "now", "todo"}
      /\ DOMAIN pass'.todo = {}
  BY DEF Delete, Idle, NoRollups
<1>a. ASSUME NEW k \in DOMAIN Levels
      PROVE  /\ Stored(k)' = {p \in Stored(k) : ~Outlived(p, RollupRetention[k])}
             /\ \A p \in Stored(k)' : rollups'[k][p] = rollups[k][p]
  BY DEF Delete, Stored, Restrict
<1>b. /\ 1 \in DOMAIN Levels /\ DOMAIN rollups' = DOMAIN Levels
      /\ begun <= pass.now /\ pass.now <= time /\ time \in Nat /\ begun \in Nat
  BY <1>0, TypeFacts, MaintenanceAssumption DEF Delete, InTime, TypeOK
<1>1. TypeOK'
  <2>1. pass'.level \in DOMAIN Levels /\ pass'.now \in 0..time' /\ begun' \in Ticks
    BY <1>0, <1>b, TypeFacts, MaintenanceAssumption DEF TypeOK, Ticks
  <2>2. raw' \subseteq committed'
    BY <1>0 DEF TypeOK, Kept
  <2> QED BY <1>0, <1>a, <1>b, <2>1, <2>2 DEF TypeOK
<1>2. /\ \A k \in DOMAIN Levels : \A t \in Nat : RolledUp(k, t) => RolledUp(k, t)'
      /\ \A t, r \in Nat : Outlived(t, r) <=> Outlived(t, r)'
  <2>1. ASSUME NEW k \in DOMAIN Levels, NEW t \in Nat, RolledUp(k, t) PROVE RolledUp(k, t)'
    <3>1. \A p \in Stored(k) : \/ p \in Stored(k)' /\ rollups[k][p] \subseteq rollups'[k][p]
                               \/ Outlived(p, RollupRetention[k])
      BY <1>a
    <3>2. time' \in Nat /\ time <= time' /\ RollupRetention[k] \in Nat
      BY <1>0, <1>b, TypeFacts
    <3> QED BY <1>b, <2>1, <3>1, <3>2, RolledUpStable
  <2> QED BY <1>0, <2>1 DEF Outlived
<1>3. RowsKnown'
  <2>1. \A t \in committed : t \notin Kept => t \in committed \ raw \/ Outlived(t, Retention)
    BY DEF Kept
  <2> QED BY <1>0, <1>a, <1>2, <2>1, TypeFacts DEF RowsKnown
<1>4. InTime'
  <2>1. time <= pass.now + MaxInterval
    BY <1>b, TypeFacts DEF InTime
  <2> QED BY <1>0, <1>b, <2>1 DEF InTime
<1>5. PeriodsOver'
  BY <1>0, <1>a DEF PeriodsOver
<1>6. NoSampleLost'
  <2>1. ASSUME NEW t \in committed, t \notin Kept, NEW k \in DOMAIN Levels PROVE RolledUp(k, t)
    BY <2>1, UnrolledKept DEF Kept, NoSampleLost
  <2> QED BY <1>0, <1>2, <2>1, TypeFacts DEF NoSampleLost
<1>7. NoneLeftBehind'
  BY <1>0, <1>a, <1>2, TypeFacts DEF NoneLeftBehind
<1>8. TodoComplete'
  BY <1>0 DEF TodoComplete
<1>9. LevelsDone'
  <2>1. ASSUME NEW k \in DOMAIN Levels PROVE CaughtUp(k, begun)'
    <3>1. CaughtUp(k, pass.now) /\ \A t \in committed : RolledUp(k, t) => RolledUp(k, t)'
      BY <1>0, <1>2, TypeFacts DEF LevelsDone
    <3> QED BY <1>0, <3>1 DEF CaughtUp
  <2> QED BY <1>0, <2>1 DEF LevelsDone, CaughtUp
<1> QED BY <1>1, <1>3, <1>4, <1>5, <1>6, <1>7, <1>8, <1>9

\* Nothing happens to the invariant when nothing happens.
LEMMA StutterKeeps ==
    ASSUME RollupInv, UNCHANGED vars
    PROVE  RollupInv'
<1> USE DEF RollupInv, vars, dataVars
<1>1. TypeOK' /\ RowsKnown' /\ InTime' /\ PeriodsOver'
  BY DEF TypeOK, RowsKnown, InTime, PeriodsOver, Stored, Outlived
<1>2. NoSampleLost' /\ NoneLeftBehind'
  BY DEF NoSampleLost, NoneLeftBehind, RolledUp, Stored, Outlived
<1>3. TodoComplete' /\ LevelsDone'
  BY DEF TodoComplete, LevelsDone, CaughtUp, RolledUp, Stored, Outlived
<1> QED BY <1>1, <1>2, <1>3

\* Every step preserves the invariant, given room between delay and retention.
LEMMA NextRollupInv == RetentionRoom /\ RollupInv /\ [Next]_vars => RollupInv'
BY TickKeeps, ObserveKeeps, CommitKeeps, StartPassKeeps, AggregateKeeps, WriteSliceKeeps,
   NextLevelKeeps, DeleteKeeps, FailPassKeeps, StutterKeeps DEF Next

\* Only Delete removes rollups, and only those that have outlived their retention; only
\* WriteSlice replaces them.
LEMMA NextNeverShrinks ==
    ASSUME RollupInv, [Next]_vars, NEW l \in DOMAIN Levels, NEW p \in Stored(l)
    PROVE  \/ p \in Stored(l)' /\ rollups[l][p] \subseteq rollups'[l][p]
           \/ Outlived(p, RollupRetention[l])
<1>1. CASE UNCHANGED rollups
  BY <1>1 DEF Stored
<1>2. CASE WriteSlice
  BY <1>2, WriteOnlyAdds
<1>3. CASE Delete
  BY <1>3 DEF Delete, Stored, Restrict
<1>4. CASE ~(WriteSlice \/ Delete)
  BY <1>1, <1>4 DEF Next, Tick, Observe, Commit, StartPass, Aggregate, NextLevel, FailPass,
     vars, dataVars
<1> QED BY <1>2, <1>3, <1>4
-----------------------------------------------------------------------------
(***************************************************************************)
(* The theorems.                                                           *)
(***************************************************************************)

\* When the raw retention leaves room (RetentionRoom), everything the passes rely on
\* holds throughout, whatever fails between two slices or levels.
THEOREM MaintenanceInvariant ==
    ASSUME RetentionRoom
    PROVE  Spec => []RollupInv
<1>1. RollupInv /\ [Next]_vars => RollupInv'
  BY NextRollupInv
<1> QED BY <1>1, InitRollupInv, PTL DEF Spec

\* The tables hold what they should, throughout.
THEOREM MaintenanceTypeOK ==
    ASSUME RetentionRoom
    PROVE  Spec => []TypeOK
<1>1. RollupInv => TypeOK
  BY DEF RollupInv
<1>2. Spec => []RollupInv
  BY MaintenanceInvariant
<1> QED BY <1>1, <1>2, PTL

\* A raw row that is gone is in the rollups of every level that still keeps its period:
\* rollups are built before the retention is applied (run_once).
THEOREM MaintenanceNoSampleLost ==
    ASSUME RetentionRoom
    PROVE  Spec => []NoSampleLost
<1>1. RollupInv => NoSampleLost
  BY DEF RollupInv
<1>2. Spec => []RollupInv
  BY MaintenanceInvariant
<1> QED BY <1>1, <1>2, PTL

\* A rollup computed anew has every row of the one it replaces (since, INSERT OR REPLACE).
THEOREM MaintenanceRollupsNeverShrink ==
    ASSUME RetentionRoom
    PROVE  Spec => RollupsNeverShrink
<1>1. RollupInv /\ [Next]_vars =>
         [\A l \in DOMAIN Levels : \A p \in Stored(l) :
             \/ p \in Stored(l)' /\ rollups[l][p] \subseteq rollups'[l][p]
             \/ Outlived(p, RollupRetention[l])]_vars
  BY NextNeverShrinks
<1>2. Spec => []RollupInv
  BY MaintenanceInvariant
<1> QED BY <1>1, <1>2, PTL DEF Spec, RollupsNeverShrink
=============================================================================
