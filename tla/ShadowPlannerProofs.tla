------------------------- MODULE ShadowPlannerProofs -------------------------
(***************************************************************************)
(* Proofs about the shadow planner: the search of BatteryPlan for all      *)
(* scenarios, limits and quanta, by itself and run again and again by the  *)
(* worker of ShadowPlanner, and what the database keeps of the plans.      *)
(***************************************************************************)
EXTENDS ShadowPlanner, SetLemmas, TLAPS

SlotSet == [day : Nat, hour : 0 .. 23, load : Nat, pv : Nat, margin : Nat]

Actions == {"self_consumption", "grid_charge", "export_discharge", "reserve", "hold"}
Windows == {"none", "charge", "discharge"}

DispatchSet == [action : Actions, window : Windows, command : Int, battery : Int,
                grid : Int, stored : Int]

SafeSet == {d \in DispatchSet : Safe(d)}

Proper(sc) ==
    /\ sc.slots \in Seq(SlotSet)
    /\ \A i, j \in DOMAIN sc.slots : i < j => sc.slots[i].day <= sc.slots[j].day
    /\ sc.stored \in Nat /\ sc.reserve \in Nat
    /\ sc.min \in Nat /\ sc.max \in Nat /\ sc.power \in Nat
    /\ sc.min <= sc.max
    /\ \A w \in sc.schedule : w.mode \in {"charge", "discharge"} /\ w.power \in Nat

ScenarioOK == Proper(scenario)

NodeOK(n) == n.stored \in Int /\ n.path \in Seq(SafeSet)

SafeInv ==
    /\ ScenarioOK
    /\ depth \in Nat
    /\ \A n \in nodes : NodeOK(n)
    /\ plan.improvement > 0 => \A k \in DOMAIN plan.path : Safe(plan.path[k])

-----------------------------------------------------------------------------

\* The lesser of two integers is one.
LEMMA LeastInt == \A a, b \in Int : Least(a, b) \in Int
BY DEF Least

\* What is clamped is within the bounds.
LEMMA ClampInt ==
    \A x, lo, hi \in Int : lo <= hi => Clamp(x, lo, hi) \in lo .. hi /\ Clamp(x, lo, hi) \in Int
BY SMT DEF Clamp, Least, Most

\* What the assumptions say of the limits.
LEMMA Constants ==
    /\ MinStored \in Int /\ MaxStored \in Int /\ MinStored <= MaxStored
    /\ ChargeLimit \in Int /\ DischargeLimit \in Int
    /\ SiteImport \in Int /\ SiteExport \in Int
    /\ ChargeGain \in Int /\ ChargeGain > 0 /\ DischargeDraw \in Int /\ DischargeDraw > 0
BY PlanAssumption

\* What they say of the scenarios.
LEMMA ScenariosProper == \A sc \in Scenarios : Proper(sc)
<1>. SUFFICES ASSUME NEW sc \in Scenarios PROVE Proper(sc)
  OBVIOUS
<1>1. /\ sc.slots \in Seq(SlotSet)
      /\ \A i, j \in DOMAIN sc.slots : i < j => sc.slots[i].day <= sc.slots[j].day
  BY ScenarioAssumption DEF SlotSet
<1>2. /\ sc.stored \in Nat /\ sc.reserve \in Nat
      /\ sc.min \in Nat /\ sc.max \in Nat /\ sc.power \in Nat
      /\ sc.min <= sc.max
  BY ScenarioAssumption
<1>3. \A w \in sc.schedule : w.mode \in {"charge", "discharge"} /\ w.power \in Nat
  BY ScenarioAssumption
<1>. QED
  BY <1>1, <1>2, <1>3 DEF Proper

\* What fits in and what can be drawn are integers.
LEMMA RoomInt ==
    \A stored, bound \in Int : Room(stored, bound) \in Int /\ Available(stored, bound) \in Int
<1>. SUFFICES ASSUME NEW stored \in Int, NEW bound \in Int
              PROVE  Room(stored, bound) \in Int /\ Available(stored, bound) \in Int
  OBVIOUS
<1>1. (bound - stored) \div ChargeGain \in Int
  BY Constants, SMT
<1>2. (stored - bound) \div DischargeDraw \in Int
  BY Constants, SMT
<1>. QED
  BY <1>1, <1>2 DEF Room, Available, Most

\* Whatever the power, both kinds of dispatch stay in the bounds they are given.
LEMMA ChargedOK ==
    ASSUME NEW action \in Actions, NEW window \in Windows, NEW power \in Int,
           NEW natural \in Int, NEW stored \in Int, NEW lo \in Int, NEW hi \in Int, lo <= hi
    PROVE  LET d == Charged(action, window, power, natural, stored, lo, hi)
           IN  d \in DispatchSet /\ d.action = action /\ d.stored \in lo .. hi
<1>. DEFINE x == stored + power * ChargeGain
<1>1. x \in Int
  BY Constants, SMT
<1>. HIDE DEF x
<1>2. Clamp(x, lo, hi) \in lo .. hi /\ Clamp(x, lo, hi) \in Int
  BY <1>1, ClampInt
<1>3. Charged(action, window, power, natural, stored, lo, hi) =
         [action |-> action, window |-> window, command |-> IF window = "none" THEN 0 ELSE power,
          battery |-> -power, grid |-> natural + power, stored |-> Clamp(x, lo, hi)]
  BY DEF Charged, x
<1>. QED
  BY <1>2, <1>3 DEF DispatchSet

\* The same of a discharge.
LEMMA DischargedOK ==
    ASSUME NEW action \in Actions, NEW window \in Windows, NEW power \in Int,
           NEW natural \in Int, NEW stored \in Int, NEW lo \in Int, NEW hi \in Int, lo <= hi
    PROVE  LET d == Discharged(action, window, power, natural, stored, lo, hi)
           IN  d \in DispatchSet /\ d.action = action /\ d.stored \in lo .. hi
<1>. DEFINE x == stored - power * DischargeDraw
<1>1. x \in Int
  BY Constants, SMT
<1>. HIDE DEF x
<1>2. Clamp(x, lo, hi) \in lo .. hi /\ Clamp(x, lo, hi) \in Int
  BY <1>1, ClampInt
<1>3. Discharged(action, window, power, natural, stored, lo, hi) =
         [action |-> action, window |-> window, command |-> IF window = "none" THEN 0 ELSE power,
          battery |-> power, grid |-> natural - power, stored |-> Clamp(x, lo, hi)]
  BY DEF Discharged, x
<1>. QED
  BY <1>2, <1>3 DEF DispatchSet

\* Self consumption charges or discharges within its bounds.
LEMMA SelfOK ==
    ASSUME NEW natural \in Int, NEW stored \in Int, NEW lo \in Int, NEW hi \in Int, lo <= hi,
           NEW limit \in Int
    PROVE  LET d == SelfConsumption(natural, stored, lo, hi, limit)
           IN  /\ d \in DispatchSet
               /\ d.action = "self_consumption"
               /\ d.stored \in lo .. hi
<1>. DEFINE down == Least(natural, Least(limit, Available(stored, lo)))
            up   == Least(-natural, Least(ChargeLimit, Room(stored, hi)))
<1>1. down \in Int
  <2>1. Available(stored, lo) \in Int
    BY RoomInt
  <2>2. Least(limit, Available(stored, lo)) \in Int
    BY <2>1, LeastInt
  <2>. QED
    BY <2>2, LeastInt
<1>2. up \in Int
  <2>1. Room(stored, hi) \in Int
    BY RoomInt
  <2>2. Least(ChargeLimit, Room(stored, hi)) \in Int
    BY <2>1, LeastInt, Constants
  <2>3. -natural \in Int
    OBVIOUS
  <2>. QED
    BY <2>2, <2>3, LeastInt
<1>. HIDE DEF down, up
<1>3. CASE natural > 0
  <2>1. SelfConsumption(natural, stored, lo, hi, limit) =
           Discharged("self_consumption", "none", down, natural, stored, lo, hi)
    BY <1>3 DEF SelfConsumption, down
  <2>2. "self_consumption" \in Actions /\ "none" \in Windows
    BY DEF Actions, Windows
  <2>3. LET d == Discharged("self_consumption", "none", down, natural, stored, lo, hi)
        IN  d \in DispatchSet /\ d.action = "self_consumption" /\ d.stored \in lo .. hi
    BY <1>1, <2>2, DischargedOK
  <2>. QED
    BY <2>1, <2>3
<1>4. CASE ~(natural > 0)
  <2>1. SelfConsumption(natural, stored, lo, hi, limit) =
           Charged("self_consumption", "none", up, natural, stored, lo, hi)
    BY <1>4 DEF SelfConsumption, up
  <2>2. "self_consumption" \in Actions /\ "none" \in Windows
    BY DEF Actions, Windows
  <2>3. LET d == Charged("self_consumption", "none", up, natural, stored, lo, hi)
        IN  d \in DispatchSet /\ d.action = "self_consumption" /\ d.stored \in lo .. hi
    BY <1>2, <2>2, ChargedOK
  <2>. QED
    BY <2>1, <2>3
<1>. QED
  BY <1>3, <1>4

\* A fixed charge window is a charge.
LEMMA FixedChargeOK ==
    ASSUME NEW command \in Int, NEW natural \in Int, NEW stored \in Int,
           NEW lo \in Int, NEW hi \in Int, lo <= hi
    PROVE  LET d == FixedWindow("charge", command, natural, stored, lo, hi)
           IN  d \in DispatchSet /\ d.action = "grid_charge" /\ d.stored \in lo .. hi
<1>. DEFINE up == Least(command, Least(ChargeLimit, Room(stored, hi)))
<1>1. Room(stored, hi) \in Int
  BY RoomInt
<1>2. Least(ChargeLimit, Room(stored, hi)) \in Int
  BY <1>1, LeastInt, Constants
<1>3. up \in Int
  BY <1>2, LeastInt
<1>4. FixedWindow("charge", command, natural, stored, lo, hi) =
         Charged("grid_charge", "charge", up, natural, stored, lo, hi)
  BY DEF FixedWindow
<1>. HIDE DEF up
<1>5. "grid_charge" \in Actions /\ "charge" \in Windows
  BY DEF Actions, Windows
<1>6. LET d == Charged("grid_charge", "charge", up, natural, stored, lo, hi)
      IN  d \in DispatchSet /\ d.action = "grid_charge" /\ d.stored \in lo .. hi
  BY <1>3, <1>5, ChargedOK
<1>. QED
  BY <1>4, <1>6

\* A fixed discharge window is a discharge.
LEMMA FixedDischargeOK ==
    ASSUME NEW command \in Int, NEW natural \in Int, NEW stored \in Int,
           NEW lo \in Int, NEW hi \in Int, lo <= hi
    PROVE  LET d == FixedWindow("discharge", command, natural, stored, lo, hi)
           IN  d \in DispatchSet /\ d.action = "export_discharge" /\ d.stored \in lo .. hi
<1>. DEFINE down == Least(command, Least(DischargeLimit, Available(stored, lo)))
<1>1. Available(stored, lo) \in Int
  BY RoomInt
<1>2. Least(DischargeLimit, Available(stored, lo)) \in Int
  BY <1>1, LeastInt, Constants
<1>3. down \in Int
  BY <1>2, LeastInt
<1>4. FixedWindow("discharge", command, natural, stored, lo, hi) =
         Discharged("export_discharge", "discharge", down, natural, stored, lo, hi)
  BY DEF FixedWindow
<1>. HIDE DEF down
<1>5. "export_discharge" \in Actions /\ "discharge" \in Windows
  BY DEF Actions, Windows
<1>6. LET d == Discharged("export_discharge", "discharge", down, natural, stored, lo, hi)
      IN  d \in DispatchSet /\ d.action = "export_discharge" /\ d.stored \in lo .. hi
  BY <1>3, <1>5, DischargedOK
<1>. QED
  BY <1>4, <1>6

\* The effective reserve is within the configured bounds.
LEMMA ExportMinimumBounds ==
    ASSUME ScenarioOK
    PROVE  ExportMinimum \in MinStored .. MaxStored
<1>1. scenario.reserve \in Int
  BY DEF ScenarioOK, Proper
<1>. QED
  BY <1>1, ClampInt, Constants DEF ExportMinimum

\* The search starts within the configured bounds.
LEMMA StartBounds ==
    ASSUME ScenarioOK
    PROVE  Start \in MinStored .. MaxStored /\ Start \in Int
<1>1. scenario.stored \in Int
  BY DEF ScenarioOK, Proper
<1>. QED
  BY <1>1, ClampInt, Constants DEF Start

\* Every dispatch of a safe path is safe.
LEMMA Elements ==
    ASSUME NEW s \in Seq(SafeSet), NEW k \in DOMAIN s
    PROVE  Safe(s[k])
<1>1. s[k] \in SafeSet
  OBVIOUS
<1>. QED
  BY <1>1 DEF SafeSet

\* Everything the search considers for a slot is safe.
LEMMA DispatchesSafe ==
    ASSUME ScenarioOK, NEW slot \in SlotSet, NEW stored \in Int,
           NEW d \in Dispatches(slot, stored)
    PROVE  d \in SafeSet
<1>. DEFINE natural == Natural(slot)
            self == SelfConsumption(natural, stored, MinStored, MaxStored, DischargeLimit)
            charge == FixedWindow("charge", ChargeLimit, natural, stored, MinStored, MaxStored)
            discharge == FixedWindow("discharge", DischargeLimit, natural, stored,
                                     ExportMinimum, MaxStored)
<1>1. natural \in Int
  BY DEF Natural, SlotSet
<1>2. MinStored \in Int /\ MaxStored \in Int /\ MinStored <= MaxStored
      /\ ChargeLimit \in Int /\ DischargeLimit \in Int
  BY Constants
<1>3. ExportMinimum \in MinStored .. MaxStored
  BY ExportMinimumBounds
<1>. HIDE DEF natural
<1>4. CASE d = self
  <2>1. self \in DispatchSet /\ self.action = "self_consumption"
        /\ self.stored \in MinStored .. MaxStored
    BY <1>1, <1>2, SelfOK
  <2>. QED
    BY <1>4, <2>1 DEF SafeSet, Safe
<1>5. CASE d = charge /\ d.grid > 0 /\ d.grid <= SiteImport
  <2>1. charge \in DispatchSet /\ charge.action = "grid_charge"
        /\ charge.stored \in MinStored .. MaxStored
    BY <1>1, <1>2, FixedChargeOK
  <2>. QED
    BY <2>1, <1>5 DEF SafeSet, Safe, DispatchSet
<1>6. CASE d = discharge /\ d.grid < 0 /\ d.grid >= -SiteExport
  <2>0. ExportMinimum \in Int /\ ExportMinimum <= MaxStored
    BY <1>2, <1>3
  <2>1. discharge \in DispatchSet /\ discharge.action = "export_discharge"
        /\ discharge.stored \in ExportMinimum .. MaxStored
    BY <1>1, <1>2, <2>0, FixedDischargeOK
  <2>2. d.stored \in MinStored .. MaxStored /\ ExportMinimum <= d.stored
    BY <2>1, <1>2, <1>3, <1>6
  <2>. QED
    BY <2>1, <2>2, <1>6, PlanAssumption DEF SafeSet, Safe, DispatchSet
<1>. QED
  BY <1>4, <1>5, <1>6 DEF Dispatches, natural

\* Pruning only drops nodes, and a node kept is one slot longer than its parent.
LEMMA KeptSafe ==
    ASSUME ScenarioOK, \A n \in nodes : NodeOK(n), NEW slot \in SlotSet,
           NEW m \in Kept(Successors(nodes, slot))
    PROVE  NodeOK(m)
<1>1. m \in Successors(nodes, slot)
  BY DEF Kept
<1>2. PICK n \in nodes : \E d \in Dispatches(slot, n.stored) : m = After(n, slot, d)
  BY <1>1 DEF Successors
<1>3. PICK d \in Dispatches(slot, n.stored) : m = After(n, slot, d)
  BY <1>2
<1>4. NodeOK(n)
  BY <1>2
<1>5. d \in SafeSet
  BY <1>3, <1>4, DispatchesSafe DEF NodeOK
<1>6. m.stored = d.stored /\ m.path = Append(n.path, d)
  BY <1>3 DEF After
<1>7. d.stored \in Int
  BY <1>5 DEF SafeSet, DispatchSet
<1>. QED
  BY <1>4, <1>5, <1>6, <1>7 DEF NodeOK

\* Nothing has been searched yet.
LEMMA InitSafe == Init => SafeInv
BY ScenariosProper DEF Init, SafeInv, ScenarioOK, NoPlan

\* Every step of a simulation keeps nodes and plan safe.
LEMMA NextSafe == SafeInv /\ [Next]_vars => SafeInv'
<1>. SUFFICES ASSUME SafeInv, [Next]_vars PROVE SafeInv'
  OBVIOUS
<1>1. ASSUME NEW sc \in Scenarios, Begin(sc) PROVE SafeInv'
  BY <1>1, ScenariosProper DEF Begin, SafeInv, ScenarioOK, NoPlan
<1>2. CASE Replay
  BY <1>2 DEF Replay, SafeInv, ScenarioOK, NodeOK, SafeSet, Safe, ExportMinimum
<1>3. CASE StartSearch
  <2>1. scenario' = scenario /\ depth' = depth /\ plan' = plan /\ nodes' = {Root}
    BY <1>3 DEF StartSearch
  <2>2. Root.stored \in Int /\ Root.path = << >>
    BY StartBounds DEF SafeInv, Root
  <2>3. NodeOK(Root)
    <3>1. << >> \in Seq(SafeSet)
      OBVIOUS
    <3>. QED
      BY <2>2, <3>1 DEF NodeOK
  <2>. QED
    BY <2>1, <2>3 DEF SafeInv, ScenarioOK, NodeOK, SafeSet, Safe, ExportMinimum
<1>4. CASE Extend
  <2>1. scenario' = scenario /\ plan' = plan /\ depth' = depth + 1
    BY <1>4 DEF Extend
  <2>2. Slots[depth + 1] \in SlotSet
    BY <1>4 DEF Extend, SafeInv, ScenarioOK, Proper, Slots
  <2>3. nodes' = Kept(Successors(nodes, Slots[depth + 1]))
    BY <1>4 DEF Extend
  <2>4. \A m \in nodes' : NodeOK(m)
    BY <2>2, <2>3, KeptSafe DEF SafeInv
  <2>. QED
    BY <2>1, <2>4 DEF SafeInv, ScenarioOK, NodeOK, SafeSet, Safe, ExportMinimum
<1>5. CASE Choose
  <2>1. PICK n \in Winners(nodes) :
           plan' = IF Improvement(n.path) > 0 THEN Result(n.path, Improvement(n.path))
                                              ELSE Result(Preserved, 0)
    BY <1>5 DEF Choose
  <2>2. n \in nodes
    BY <2>1 DEF Winners, Terminal
  <2>3. \A k \in DOMAIN n.path : Safe(n.path[k])
    BY <2>2, Elements DEF SafeInv, NodeOK
  <2>4. plan'.improvement > 0 => \A k \in DOMAIN plan'.path : Safe(plan'.path[k])
    BY <2>1, <2>3 DEF Result
  <2>5. scenario' = scenario /\ nodes' = nodes /\ depth' = depth
    BY <1>5 DEF Choose
  <2>. QED
    BY <2>4, <2>5 DEF SafeInv, ScenarioOK, NodeOK, SafeSet, Safe, ExportMinimum
<1>6. CASE UNCHANGED vars
  BY <1>6 DEF vars, SafeInv, ScenarioOK, NodeOK, SafeSet, Safe, ExportMinimum
<1>. QED
  BY <1>1, <1>2, <1>3, <1>4, <1>5, <1>6 DEF Next, SearchStep

\* The inductive invariant of the search.
THEOREM SearchInvariant == Spec => []SafeInv
BY InitSafe, NextSafe, PTL DEF Spec

\* The invariant implies the property.
LEMMA SafeInvImplies == SafeInv => SearchSafe
<1>. SUFFICES ASSUME SafeInv PROVE SearchSafe
  OBVIOUS
<1>1. Start \in MinStored .. MaxStored
  BY StartBounds DEF SafeInv
<1>2. \A n \in nodes : \A k \in DOMAIN n.path : Safe(n.path[k])
  BY Elements DEF SafeInv, NodeOK
<1>. QED
  BY <1>1, <1>2 DEF SearchSafe, SafeInv

\* No node of the search and no plan made of one leaves the SOC bounds, the effective reserve
\* or the site limits.
THEOREM SearchIsSafe == Spec => []SearchSafe
BY SearchInvariant, SafeInvImplies, PTL

-----------------------------------------------------------------------------
(* Energy is conserved: the clamps of the two dispatches never bind. *)

Flow(d) == d.battery * (IF d.battery > 0 THEN DischargeDraw ELSE ChargeGain)

Balanced(d, before) == d \in DispatchSet /\ d.stored = before - Flow(d)

\* A quotient times its divisor is at most what was divided.
LEMMA Division == ASSUME NEW a \in Int, NEW q \in Int, q > 0 PROVE (a \div q) * q <= a
BY SMTT(30)

\* Up to the quotient, multiples do not exceed what was divided.
LEMMA Multiples ==
    ASSUME NEW p \in Int, NEW a \in Int, NEW q \in Int, q > 0, 0 <= p, p <= a \div q
    PROVE  p * q \in Int /\ 0 <= p * q /\ p * q <= a
<1>1. a \div q \in Int
  BY SMT
<1>2. (a \div q) * q <= a
  BY Division
<1>3. p * q <= (a \div q) * q
  <2>. DEFINE b == a \div q
  <2>1. b \in Int /\ p <= b
    BY <1>1
  <2>. HIDE DEF b
  <2>2. p * q <= b * q
    BY <2>1, SMTT(30)
  <2>. QED
    BY <2>2 DEF b
<1>4. p * q \in Int /\ (a \div q) * q \in Int
  BY <1>1, SMT
<1>5. 0 <= p * q
  BY SMTT(30)
<1>. QED
  BY <1>2, <1>3, <1>4, <1>5

\* A clamp within its bounds changes nothing.
LEMMA ClampSame == \A x, lo, hi \in Int : lo <= x /\ x <= hi => Clamp(x, lo, hi) = x
BY DEF Clamp, Least, Most

\* A charge that fits in takes the battery up by what it takes in.
LEMMA ChargedBalanced ==
    ASSUME NEW action \in Actions, NEW window \in Windows, NEW power \in Int,
           NEW natural \in Int, NEW stored \in Int, NEW lo \in Int, NEW hi \in Int,
           lo <= stored, stored <= hi, 0 <= power, power <= Room(stored, hi)
    PROVE  LET d == Charged(action, window, power, natural, stored, lo, hi)
           IN  Balanced(d, stored) /\ d.stored \in lo .. hi
<1>. DEFINE d == Charged(action, window, power, natural, stored, lo, hi)
<1>1. d \in DispatchSet /\ d.stored \in lo .. hi
  BY ChargedOK
<1>2. power * ChargeGain \in Int /\ 0 <= power * ChargeGain /\ power * ChargeGain <= hi - stored
  <2>1. CASE power = 0
    BY <2>1, Constants
  <2>2. CASE power # 0
    <3>1. (hi - stored) \div ChargeGain \in Int
      BY Constants, SMT
    <3>2. power <= (hi - stored) \div ChargeGain
      BY <2>2, <3>1 DEF Room, Most
    <3>3. hi - stored \in Int
      OBVIOUS
    <3>. QED
      BY <3>2, <3>3, Multiples, Constants
  <2>. QED
    BY <2>1, <2>2
<1>3. Clamp(stored + power * ChargeGain, lo, hi) = stored + power * ChargeGain
  BY <1>2, ClampSame
<1>4. d.battery = -power /\ d.stored = stored + power * ChargeGain
  BY <1>3 DEF Charged
<1>5. Flow(d) = -(power * ChargeGain)
  <2>1. ~(d.battery > 0)
    BY <1>4
  <2>2. Flow(d) = (-power) * ChargeGain
    BY <1>4, <2>1 DEF Flow
  <2>3. (-power) * ChargeGain = -(power * ChargeGain)
    BY Constants, SMTT(30)
  <2>. QED
    BY <2>2, <2>3
<1>6. d.stored = stored - Flow(d)
  BY <1>2, <1>4, <1>5
<1>. QED
  BY <1>1, <1>6 DEF Balanced

\* A discharge that moves energy may also start below the bound: it then moves none.
LEMMA DischargedBalanced ==
    ASSUME NEW action \in Actions, NEW window \in Windows, NEW power \in Int,
           NEW natural \in Int, NEW stored \in Int, NEW lo \in Int, NEW hi \in Int,
           lo <= hi, lo <= stored \/ power > 0, stored <= hi,
           0 <= power, power <= Available(stored, lo)
    PROVE  LET d == Discharged(action, window, power, natural, stored, lo, hi)
           IN  Balanced(d, stored) /\ d.stored \in lo .. hi
<1>. DEFINE d == Discharged(action, window, power, natural, stored, lo, hi)
<1>1. d \in DispatchSet /\ d.stored \in lo .. hi
  BY DischargedOK
<1>2. power * DischargeDraw \in Int /\ 0 <= power * DischargeDraw
      /\ power * DischargeDraw <= stored - lo
  <2>1. CASE power = 0
    BY <2>1, Constants
  <2>2. CASE power # 0
    <3>1. (stored - lo) \div DischargeDraw \in Int
      BY Constants, SMT
    <3>2. power <= (stored - lo) \div DischargeDraw
      BY <2>2, <3>1 DEF Available, Most
    <3>3. stored - lo \in Int
      OBVIOUS
    <3>. QED
      BY <3>2, <3>3, Multiples, Constants
  <2>. QED
    BY <2>1, <2>2
<1>3. Clamp(stored - power * DischargeDraw, lo, hi) = stored - power * DischargeDraw
  BY <1>2, ClampSame
<1>4. d.battery = power /\ d.stored = stored - power * DischargeDraw
  BY <1>3 DEF Discharged
<1>5. Flow(d) = power * DischargeDraw
  <2>1. CASE power > 0
    BY <1>4, <2>1 DEF Flow
  <2>2. CASE power = 0
    BY <1>4, <2>2, Constants DEF Flow
  <2>. QED
    BY <2>1, <2>2
<1>6. d.stored = stored - Flow(d)
  BY <1>4, <1>5
<1>. QED
  BY <1>1, <1>6 DEF Balanced

\* The lesser of two naturals is between zero and each.
LEMMA LeastBetween ==
    ASSUME NEW a \in Int, NEW b \in Int, 0 <= a, 0 <= b
    PROVE  Least(a, b) \in Int /\ 0 <= Least(a, b) /\ Least(a, b) <= b
BY DEF Least

\* Room and what is available are never negative.
LEMMA RoomPositive ==
    ASSUME NEW stored \in Int, NEW bound \in Int
    PROVE  /\ Room(stored, bound) \in Int /\ 0 <= Room(stored, bound)
           /\ Available(stored, bound) \in Int /\ 0 <= Available(stored, bound)
<1>1. (bound - stored) \div ChargeGain \in Int
  BY Constants, SMT
<1>2. (stored - bound) \div DischargeDraw \in Int
  BY Constants, SMT
<1>. QED
  BY <1>1, <1>2 DEF Room, Available, Most

\* Self consumption accounts for its energy.
LEMMA SelfBalanced ==
    ASSUME NEW natural \in Int, NEW stored \in Int, NEW lo \in Int, NEW hi \in Int,
           lo <= stored, stored <= hi, NEW limit \in Int, 0 <= limit
    PROVE  LET d == SelfConsumption(natural, stored, lo, hi, limit)
           IN  Balanced(d, stored) /\ d.stored \in lo .. hi
<1>. DEFINE inner == Least(limit, Available(stored, lo))
            outer == Least(ChargeLimit, Room(stored, hi))
<1>1. "self_consumption" \in Actions /\ "none" \in Windows
  BY DEF Actions, Windows
<1>2. inner \in Int /\ 0 <= inner /\ inner <= Available(stored, lo)
  <2>1. Available(stored, lo) \in Int /\ 0 <= Available(stored, lo)
    BY RoomPositive
  <2>. QED
    BY <2>1, LeastBetween
<1>3. outer \in Int /\ 0 <= outer /\ outer <= Room(stored, hi)
  <2>1. ChargeLimit \in Int /\ 0 <= ChargeLimit
    BY PlanAssumption
  <2>2. Room(stored, hi) \in Int /\ 0 <= Room(stored, hi)
    BY RoomPositive
  <2>. QED
    BY <2>1, <2>2, LeastBetween
<1>. HIDE DEF inner, outer
<1>4. Available(stored, lo) \in Int /\ Room(stored, hi) \in Int
  BY RoomInt
<1>5. CASE natural > 0
  <2>. DEFINE power == Least(natural, inner)
  <2>1. power \in Int /\ 0 <= power /\ power <= inner
    <3>1. natural \in Int /\ 0 <= natural
      BY <1>5
    <3>. QED
      BY <1>2, <3>1, LeastBetween
  <2>2. SelfConsumption(natural, stored, lo, hi, limit)
          = Discharged("self_consumption", "none", power, natural, stored, lo, hi)
    BY <1>5 DEF SelfConsumption, inner
  <2>. HIDE DEF power
  <2>3. power <= Available(stored, lo)
    BY <2>1, <1>2, <1>4
  <2>4. LET d == Discharged("self_consumption", "none", power, natural, stored, lo, hi)
        IN  Balanced(d, stored) /\ d.stored \in lo .. hi
    BY <1>1, <2>1, <2>3, DischargedBalanced
  <2>. QED
    BY <2>2, <2>4
<1>6. CASE ~(natural > 0)
  <2>. DEFINE power == Least(-natural, outer)
  <2>1. power \in Int /\ 0 <= power /\ power <= outer
    <3>1. -natural \in Int /\ 0 <= -natural
      BY <1>6
    <3>. QED
      BY <1>3, <3>1, LeastBetween
  <2>2. SelfConsumption(natural, stored, lo, hi, limit)
          = Charged("self_consumption", "none", power, natural, stored, lo, hi)
    BY <1>6 DEF SelfConsumption, outer
  <2>. HIDE DEF power
  <2>3. power <= Room(stored, hi)
    BY <2>1, <1>3, <1>4
  <2>4. LET d == Charged("self_consumption", "none", power, natural, stored, lo, hi)
        IN  Balanced(d, stored) /\ d.stored \in lo .. hi
    BY <1>1, <2>1, <2>3, ChargedBalanced
  <2>. QED
    BY <2>2, <2>4
<1>. QED
  BY <1>5, <1>6

\* So does a fixed charge window.
LEMMA FixedChargeBalanced ==
    ASSUME NEW command \in Int, 0 <= command, NEW natural \in Int, NEW stored \in Int,
           NEW lo \in Int, NEW hi \in Int, lo <= stored, stored <= hi
    PROVE  LET d == FixedWindow("charge", command, natural, stored, lo, hi)
           IN  Balanced(d, stored) /\ d.stored \in lo .. hi
<1>. DEFINE outer == Least(ChargeLimit, Room(stored, hi))
            power == Least(command, outer)
<1>1. outer \in Int /\ 0 <= outer /\ outer <= Room(stored, hi)
  <2>1. ChargeLimit \in Int /\ 0 <= ChargeLimit
    BY PlanAssumption
  <2>2. Room(stored, hi) \in Int /\ 0 <= Room(stored, hi)
    BY RoomPositive
  <2>. QED
    BY <2>1, <2>2, LeastBetween
<1>2. power \in Int /\ 0 <= power /\ power <= outer
  BY <1>1, LeastBetween
<1>3. FixedWindow("charge", command, natural, stored, lo, hi)
        = Charged("grid_charge", "charge", power, natural, stored, lo, hi)
  BY DEF FixedWindow
<1>. HIDE DEF outer, power
<1>4. power <= Room(stored, hi)
  BY <1>1, <1>2, RoomInt
<1>5. "grid_charge" \in Actions /\ "charge" \in Windows
  BY DEF Actions, Windows
<1>6. LET d == Charged("grid_charge", "charge", power, natural, stored, lo, hi)
      IN  Balanced(d, stored) /\ d.stored \in lo .. hi
  BY <1>2, <1>4, <1>5, ChargedBalanced
<1>. QED
  BY <1>3, <1>6

\* The search discharges down to the effective reserve, which the stored energy may be below;
\* it keeps only a discharge with a command.
LEMMA FixedDischargeBalanced ==
    ASSUME NEW command \in Int, 0 <= command, NEW natural \in Int, NEW stored \in Int,
           NEW lo \in Int, NEW hi \in Int, lo <= hi, stored <= hi,
           lo <= stored \/ FixedWindow("discharge", command, natural, stored, lo, hi).command > 0
    PROVE  LET d == FixedWindow("discharge", command, natural, stored, lo, hi)
           IN  Balanced(d, stored) /\ d.stored \in lo .. hi
<1>. DEFINE inner == Least(DischargeLimit, Available(stored, lo))
            power == Least(command, inner)
<1>1. inner \in Int /\ 0 <= inner /\ inner <= Available(stored, lo)
  <2>1. DischargeLimit \in Int /\ 0 <= DischargeLimit
    BY PlanAssumption
  <2>2. Available(stored, lo) \in Int /\ 0 <= Available(stored, lo)
    BY RoomPositive
  <2>. QED
    BY <2>1, <2>2, LeastBetween
<1>2. power \in Int /\ 0 <= power /\ power <= inner
  BY <1>1, LeastBetween
<1>3. FixedWindow("discharge", command, natural, stored, lo, hi)
        = Discharged("export_discharge", "discharge", power, natural, stored, lo, hi)
  BY DEF FixedWindow
<1>. HIDE DEF inner, power
<1>4. power <= Available(stored, lo)
  BY <1>1, <1>2, RoomInt
<1>5. "export_discharge" \in Actions /\ "discharge" \in Windows
  BY DEF Actions, Windows
<1>6. lo <= stored \/ power > 0
  BY <1>3 DEF Discharged
<1>7. LET d == Discharged("export_discharge", "discharge", power, natural, stored, lo, hi)
      IN  Balanced(d, stored) /\ d.stored \in lo .. hi
  BY <1>2, <1>4, <1>5, <1>6, DischargedBalanced
<1>. QED
  BY <1>3, <1>7

\* Everything the search considers for a slot accounts for its energy.
LEMMA DispatchesBalanced ==
    ASSUME ScenarioOK, NEW slot \in SlotSet, NEW stored \in MinStored .. MaxStored,
           NEW d \in Dispatches(slot, stored)
    PROVE  Balanced(d, stored) /\ d.stored \in MinStored .. MaxStored
<1>. DEFINE natural == Natural(slot)
            self == SelfConsumption(natural, stored, MinStored, MaxStored, DischargeLimit)
            charge == FixedWindow("charge", ChargeLimit, natural, stored, MinStored, MaxStored)
            discharge == FixedWindow("discharge", DischargeLimit, natural, stored,
                                     ExportMinimum, MaxStored)
<1>1. natural \in Int
  BY DEF Natural, SlotSet
<1>2. /\ MinStored \in Int /\ MaxStored \in Int /\ stored \in Int
      /\ MinStored <= stored /\ stored <= MaxStored
      /\ ChargeLimit \in Int /\ 0 <= ChargeLimit /\ DischargeLimit \in Int /\ 0 <= DischargeLimit
  BY PlanAssumption
<1>3. ExportMinimum \in Int /\ ExportMinimum <= MaxStored
  BY ExportMinimumBounds, <1>2
<1>4. d.stored \in MinStored .. MaxStored
  BY <1>2, DispatchesSafe DEF SafeSet, Safe
<1>. HIDE DEF natural
<1>5. Balanced(self, stored)
  BY <1>1, <1>2, SelfBalanced
<1>6. Balanced(charge, stored)
  BY <1>1, <1>2, FixedChargeBalanced
<1>7. discharge.command > 0 => Balanced(discharge, stored)
  BY <1>1, <1>2, <1>3, FixedDischargeBalanced
<1>8. d = self \/ d = charge \/ (d = discharge /\ d.command > 0)
  BY DEF Dispatches, natural
<1>. QED
  BY <1>4, <1>5, <1>6, <1>7, <1>8

\* And so does the native policy, in every mode.
LEMMA NativeBalanced ==
    ASSUME ScenarioOK, NEW slot \in SlotSet, NEW stored \in scenario.min .. scenario.max
    PROVE  LET d == NativeDispatch(slot, stored)
           IN  Balanced(d, stored) /\ d.stored \in scenario.min .. scenario.max
<1>. DEFINE lo == scenario.min
            hi == scenario.max
            natural == Natural(slot)
            self(limit) == SelfConsumption(natural, stored, lo, hi, limit)
            fixed(direction, power) == FixedWindow(direction, power, natural, stored, lo, hi)
            Right(d) == Balanced(d, stored) /\ d.stored \in lo .. hi
<1>1. /\ natural \in Int /\ lo \in Int /\ hi \in Int /\ stored \in Int
      /\ lo <= stored /\ stored <= hi
  BY DEF ScenarioOK, Proper, Natural, SlotSet
<1>. HIDE DEF lo, hi, natural
<1>2. \A limit \in Nat : Right(self(limit))
  BY <1>1, SelfBalanced
<1>3. \A power \in Nat : Right(fixed("charge", power)) /\ Right(fixed("discharge", power))
  <2>. SUFFICES ASSUME NEW power \in Nat
                PROVE  Right(fixed("charge", power)) /\ Right(fixed("discharge", power))
    OBVIOUS
  <2>1. power \in Int /\ 0 <= power /\ lo <= hi
    BY <1>1
  <2>2. Right(fixed("charge", power))
    BY <1>1, <2>1, FixedChargeBalanced
  <2>3. Right(fixed("discharge", power))
    BY <1>1, <2>1, FixedDischargeBalanced
  <2>. QED
    BY <2>2, <2>3
<1>4. \A action \in Actions : Right(Idle(action, natural, stored))
  BY <1>1, Constants DEF Idle, Balanced, Flow, DispatchSet, Windows
<1>. HIDE DEF self, fixed, Right
<1>5. Right(NativeDispatch(slot, stored))
  <2>. DEFINE w == CHOOSE x \in ActiveWindows(slot.hour) : TRUE
              windowed == scenario.mode = "custom_self_consumption" /\ ActiveWindows(slot.hour) # {}
  <2>1. CASE windowed
    <3>1. w \in ActiveWindows(slot.hour)
      BY <2>1
    <3>2. w.mode \in {"charge", "discharge"} /\ w.power \in Nat
      BY <3>1 DEF ActiveWindows, ScenarioOK, Proper
    <3>3. NativeDispatch(slot, stored) = fixed(w.mode, w.power)
      BY <2>1 DEF NativeDispatch, fixed, natural, lo, hi
    <3>. HIDE DEF w
    <3>. QED
      BY <1>3, <3>2, <3>3
  <2>. HIDE DEF windowed
  <2>2. CASE ~windowed /\ scenario.mode \in {"charge_window", "discharge_window"}
    <3>1. scenario.power \in Nat
      BY DEF ScenarioOK, Proper
    <3>2. NativeDispatch(slot, stored) = fixed("charge", scenario.power)
          \/ NativeDispatch(slot, stored) = fixed("discharge", scenario.power)
      BY <2>2 DEF NativeDispatch, fixed, natural, lo, hi, windowed
    <3>. QED
      BY <1>3, <3>1, <3>2
  <2>3. CASE ~windowed /\ scenario.mode \in {"reserve", "unknown"}
    <3>1. NativeDispatch(slot, stored) \in
             {self(0), Idle("reserve", natural, stored), Idle("hold", natural, stored)}
      BY <2>3 DEF NativeDispatch, self, natural, lo, hi, windowed
    <3>2. "reserve" \in Actions /\ "hold" \in Actions /\ 0 \in Nat
      BY DEF Actions
    <3>. QED
      BY <1>2, <1>4, <3>1, <3>2
  <2>4. CASE ~windowed /\ scenario.mode \notin {"charge_window", "discharge_window",
                                                "reserve", "unknown"}
    <3>1. NativeDispatch(slot, stored) = self(DischargeLimit)
      BY <2>4 DEF NativeDispatch, self, natural, lo, hi, windowed
    <3>. QED
      BY <1>2, <3>1, PlanAssumption
  <2>. QED
    BY <2>1, <2>2, <2>3, <2>4
<1>. QED
  BY <1>5 DEF Right, lo, hi

\* A balanced dispatch continues a conserved path.
LEMMA ConservedAppend ==
    ASSUME NEW path \in Seq(DispatchSet), NEW start, NEW d \in DispatchSet,
           Conserved(path, start), Balanced(d, StoredAfter(path, start))
    PROVE  /\ Append(path, d) \in Seq(DispatchSet)
           /\ Conserved(Append(path, d), start)
           /\ StoredAfter(Append(path, d), start) = d.stored
<1>. DEFINE longer == Append(path, d)
<1>1. longer \in Seq(DispatchSet) /\ Len(longer) = Len(path) + 1 /\ longer # << >>
      /\ longer[Len(longer)] = d /\ \A k \in 1 .. Len(path) : longer[k] = path[k]
  OBVIOUS
<1>2. StoredAfter(longer, start) = d.stored
  BY <1>1 DEF StoredAfter
<1>. HIDE DEF longer
<1>3. ASSUME NEW k \in DOMAIN longer
      PROVE  LET before == IF k = 1 THEN start ELSE longer[k - 1].stored
                 flow   == longer[k].battery
             IN  longer[k].stored = before - flow * (IF flow > 0 THEN DischargeDraw ELSE ChargeGain)
  <2>1. k \in 1 .. Len(path) + 1
    BY <1>1
  <2>2. CASE k \in 1 .. Len(path)
    <3>1. k \in DOMAIN path /\ longer[k] = path[k] /\ (k # 1 => longer[k - 1] = path[k - 1])
      BY <1>1, <2>2
    <3>. QED
      BY <3>1 DEF Conserved
  <2>3. CASE k = Len(path) + 1
    <3>1. longer[k] = d
      BY <1>1, <2>3
    <3>2. StoredAfter(path, start) = IF k = 1 THEN start ELSE longer[k - 1].stored
      BY <1>1, <2>3 DEF StoredAfter
    <3>. QED
      BY <3>1, <3>2 DEF Balanced, Flow
  <2>. QED
    BY <2>1, <2>2, <2>3
<1>4. Conserved(longer, start)
  BY <1>3 DEF Conserved
<1>. QED
  BY <1>1, <1>2, <1>4 DEF longer

Trajectory(n) == /\ n.path \in Seq(DispatchSet)
                 /\ Conserved(n.path, Start)
                 /\ n.stored = StoredAfter(n.path, Start)
                 /\ n.stored \in MinStored .. MaxStored

EnergyInv ==
    /\ ScenarioOK
    /\ depth \in Nat
    /\ native \in Seq(DispatchSet)
    /\ Conserved(native, NativeStart)
    /\ StoredAfter(native, NativeStart) \in scenario.min .. scenario.max
    /\ \A n \in nodes : Trajectory(n)

\* The replay starts within the bounds of the scenario.
LEMMA NativeStartBounds ==
    ASSUME ScenarioOK
    PROVE  NativeStart \in scenario.min .. scenario.max
<1>1. /\ scenario.stored \in Int /\ scenario.min \in Int /\ scenario.max \in Int
      /\ scenario.min <= scenario.max
  BY DEF ScenarioOK, Proper
<1>. QED
  BY <1>1, ClampInt DEF NativeStart

\* An empty path conserves energy.
LEMMA NothingYet ==
    ASSUME NEW start
    PROVE  << >> \in Seq(DispatchSet) /\ Conserved(<< >>, start) /\ StoredAfter(<< >>, start) = start
<1>1. << >> \in Seq(DispatchSet) /\ DOMAIN << >> = {}
  OBVIOUS
<1>2. Conserved(<< >>, start)
  BY <1>1 DEF Conserved
<1>3. StoredAfter(<< >>, start) = start
  BY DEF StoredAfter
<1>. QED
  BY <1>1, <1>2, <1>3

\* A node kept continues a conserved trajectory.
LEMMA KeptBalanced ==
    ASSUME EnergyInv, NEW slot \in SlotSet, NEW m \in Kept(Successors(nodes, slot))
    PROVE  Trajectory(m)
<1>1. m \in Successors(nodes, slot)
  BY DEF Kept
<1>2. PICK n \in nodes : \E d \in Dispatches(slot, n.stored) : m = After(n, slot, d)
  BY <1>1 DEF Successors
<1>3. PICK d \in Dispatches(slot, n.stored) : m = After(n, slot, d)
  BY <1>2
<1>4. Trajectory(n) /\ n.stored \in MinStored .. MaxStored
  BY <1>2 DEF EnergyInv, Trajectory
<1>5. Balanced(d, n.stored) /\ d.stored \in MinStored .. MaxStored
  BY <1>3, <1>4, DispatchesBalanced DEF EnergyInv
<1>6. d \in DispatchSet
  BY <1>5 DEF Balanced
<1>7. Balanced(d, StoredAfter(n.path, Start))
  BY <1>4, <1>5 DEF Trajectory
<1>8. n.path \in Seq(DispatchSet) /\ Conserved(n.path, Start)
  BY <1>4 DEF Trajectory
<1>9. /\ Append(n.path, d) \in Seq(DispatchSet)
      /\ Conserved(Append(n.path, d), Start)
      /\ StoredAfter(Append(n.path, d), Start) = d.stored
  BY <1>6, <1>7, <1>8, ConservedAppend
<1>10. m.stored = d.stored /\ m.path = Append(n.path, d)
  BY <1>3 DEF After
<1>. QED
  BY <1>5, <1>9, <1>10 DEF Trajectory

\* Nothing has been replayed or searched yet.
LEMMA InitEnergy == Init => EnergyInv
<1>. USE DEF ScenarioOK
<1>. SUFFICES ASSUME Init PROVE EnergyInv
  OBVIOUS
<1>1. ScenarioOK /\ native = << >> /\ nodes = {} /\ depth = 0
  BY ScenariosProper DEF Init
<1>. QED
  BY <1>1, NothingYet, NativeStartBounds DEF EnergyInv

\* A slot added takes from what the last one left.
LEMMA NextEnergy == EnergyInv /\ [Next]_vars => EnergyInv'
<1>. USE DEF ScenarioOK
<1>. SUFFICES ASSUME EnergyInv, [Next]_vars PROVE EnergyInv'
  OBVIOUS
<1>1. ASSUME NEW sc \in Scenarios, Begin(sc) PROVE EnergyInv'
  <2>1. scenario' = sc /\ native' = << >> /\ nodes' = {} /\ depth' = 0
    BY <1>1 DEF Begin
  <2>2. Proper(sc)
    BY ScenariosProper
  <2>3. NativeStart' \in sc.min .. sc.max
    <3>1. sc.stored \in Int /\ sc.min \in Int /\ sc.max \in Int /\ sc.min <= sc.max
      BY <2>2 DEF Proper
    <3>2. NativeStart' = Clamp(sc.stored, sc.min, sc.max)
      BY <2>1 DEF NativeStart
    <3>. QED
      BY <3>1, <3>2, ClampInt
  <2>4. /\ native' \in Seq(DispatchSet) /\ Conserved(native', NativeStart')
        /\ StoredAfter(native', NativeStart') = NativeStart'
    BY <2>1, NothingYet
  <2>. QED
    BY <2>1, <2>2, <2>3, <2>4 DEF EnergyInv
<1>2. CASE Replay
  <2>. DEFINE stored == StoredAfter(native, NativeStart)
              slot   == Slots[Len(native) + 1]
              d      == NativeDispatch(slot, stored)
  <2>1. native \in Seq(DispatchSet) /\ Conserved(native, NativeStart)
        /\ stored \in scenario.min .. scenario.max /\ Proper(scenario)
    BY DEF EnergyInv
  <2>2. slot \in SlotSet
    <3>1. Slots \in Seq(SlotSet)
      BY <2>1 DEF Proper, Slots
    <3>2. Len(native) \in Nat /\ Len(native) < Len(Slots)
      BY <1>2, <2>1 DEF Replay
    <3>. QED
      BY <3>1, <3>2
  <2>3. Balanced(d, stored) /\ d.stored \in scenario.min .. scenario.max
    BY <2>1, <2>2, NativeBalanced
  <2>4. d \in DispatchSet
    BY <2>3 DEF Balanced
  <2>5. /\ native' = Append(native, d) /\ scenario' = scenario
        /\ nodes' = nodes /\ depth' = depth
    BY <1>2 DEF Replay
  <2>. HIDE DEF d
  <2>6. /\ Append(native, d) \in Seq(DispatchSet)
        /\ Conserved(Append(native, d), NativeStart)
        /\ StoredAfter(Append(native, d), NativeStart) = d.stored
    BY <2>1, <2>3, <2>4, ConservedAppend
  <2>7. NativeStart' = NativeStart /\ Start' = Start
    BY <2>5 DEF NativeStart, Start
  <2>. QED
    BY <2>3, <2>5, <2>6, <2>7 DEF EnergyInv, Trajectory
<1>3. CASE StartSearch
  <2>1. /\ scenario' = scenario /\ native' = native /\ depth' = depth
        /\ nodes' = {Root} /\ NativeStart' = NativeStart /\ Start' = Start
    BY <1>3 DEF StartSearch, NativeStart, Start
  <2>2. Root.stored = Start /\ Root.path = << >>
    BY DEF Root
  <2>3. Start \in MinStored .. MaxStored
    BY StartBounds DEF EnergyInv
  <2>4. Root.path \in Seq(DispatchSet) /\ Conserved(Root.path, Start)
        /\ StoredAfter(Root.path, Start) = Start
    BY <2>2, NothingYet
  <2>5. Trajectory(Root)
    BY <2>2, <2>3, <2>4 DEF Trajectory
  <2>. QED
    BY <2>1, <2>5 DEF EnergyInv, Trajectory
<1>4. CASE Extend
  <2>1. /\ scenario' = scenario /\ native' = native /\ depth' = depth + 1
        /\ NativeStart' = NativeStart /\ Start' = Start
    BY <1>4 DEF Extend, NativeStart, Start
  <2>2. Slots[depth + 1] \in SlotSet
    BY <1>4 DEF Extend, EnergyInv, Proper, Slots
  <2>3. nodes' = Kept(Successors(nodes, Slots[depth + 1]))
    BY <1>4 DEF Extend
  <2>4. \A m \in nodes' : Trajectory(m)
    BY <2>2, <2>3, KeptBalanced
  <2>. QED
    BY <2>1, <2>4 DEF EnergyInv, Trajectory
<1>5. CASE Choose
  BY <1>5 DEF Choose, EnergyInv, Trajectory, Start, NativeStart
<1>6. CASE UNCHANGED vars
  BY <1>6 DEF vars, EnergyInv, Trajectory, Start, NativeStart
<1>. QED
  BY <1>1, <1>2, <1>3, <1>4, <1>5, <1>6 DEF Next, SearchStep

\* The inductive invariant of the energy.
THEOREM EnergyInvariant == Spec => []EnergyInv
BY InitEnergy, NextEnergy, PTL DEF Spec

\* The invariant implies the property.
LEMMA EnergyInvImplies == EnergyInv => EnergyAccounted
BY DEF EnergyInv, EnergyAccounted, Trajectory

\* Neither in the native replay nor in any trajectory of the search is energy made or lost: the
\* clamps of the two dispatches never bind.
THEOREM EnergyIsAccounted == Spec => []EnergyAccounted
BY EnergyInvariant, EnergyInvImplies, PTL
-----------------------------------------------------------------------------
(* The cost carried along a path is the bill of the path: the cap counter is *)
(* the exports of the day's super export slots so far, as far as they count. *)

Export(path) == [j \in DOMAIN path |-> Exported(path[j])]

\* The super export slots of the day among the first k.
SuperSlots(slots, day, k) == {j \in 1 .. k : slots[j].day = day /\ SuperExport(slots[j].hour)}

Premium(slots, path, day, k) == SumFunctionOnSet(Export(path), SuperSlots(slots, day, k))

Costs(slots, path) ==
    [k \in DOMAIN path |-> SlotCost(slots[k], path[k], Premium(slots, path, slots[k].day, k - 1))]

\* A node after k slots.
CostNode(slots, k, n) ==
    /\ n.path \in Seq(DispatchSet) /\ Len(n.path) = k
    /\ n.penalty \in Int /\ n.premium \in Int
    /\ IF k = 0 THEN n.day = -1
                ELSE /\ n.day = slots[k].day
                     /\ n.premium = Least(SuperCap, Premium(slots, n.path, slots[k].day, k))
    /\ n.cost = SumFunction(Costs(slots, n.path)) + n.penalty

CostInv ==
    /\ stage = "replay" => depth = 0
    /\ \A n \in nodes : CostNode(scenario.slots, depth, n)

\* _bill before the credit adds up the costs of the slots.
LEMMA EnergyIsCosts == \A path : Energy(path) = SumFunction(Costs(scenario.slots, path))
BY DEF Energy, Costs, PremiumBefore, Premium, SuperSlots, Export, Slots

\* What a slot exports is a natural.
LEMMA ExportedNat ==
    ASSUME NEW path \in Seq(DispatchSet)
    PROVE  \A j \in DOMAIN path : path[j] \in DispatchSet /\ Export(path)[j] \in Nat
<1>1. \A j \in DOMAIN path : path[j] \in DispatchSet
  OBVIOUS
<1>. QED
  BY <1>1 DEF Export, Exported, Most, DispatchSet

\* Finitely many slots precede a slot.
LEMMA SuperSlotsFinite ==
    ASSUME NEW slots, NEW day, NEW k \in Nat
    PROVE  IsFiniteSet(SuperSlots(slots, day, k)) /\ SuperSlots(slots, day, k) \subseteq 1 .. k
<1>1. IsFiniteSet(1 .. k)
  BY FS_Interval
<1>. QED
  BY <1>1, FS_Subset DEF SuperSlots

\* What has been exported of a cap is a natural.
LEMMA PremiumNat ==
    ASSUME NEW slots, NEW day, NEW path \in Seq(DispatchSet), NEW k \in 0 .. Len(path)
    PROVE  Premium(slots, path, day, k) \in Nat
<1>1. \A j \in SuperSlots(slots, day, k) : Export(path)[j] \in Nat
  BY ExportedNat, SuperSlotsFinite
<1>. QED
  BY <1>1, SumNat, SuperSlotsFinite DEF Premium

\* What comes later does not change what has been exported.
LEMMA PremiumPrefix ==
    ASSUME NEW slots, NEW day, NEW path \in Seq(DispatchSet), NEW d \in DispatchSet,
           NEW k \in 0 .. Len(path)
    PROVE  Premium(slots, Append(path, d), day, k) = Premium(slots, path, day, k)
<1>1. \A j \in SuperSlots(slots, day, k) : Export(Append(path, d))[j] = Export(path)[j]
  BY SuperSlotsFinite DEF Export
<1>. HIDE DEF Export
<1>. QED
  BY <1>1, SumSame, SuperSlotsFinite DEF Premium

\* A slot adds its export to the premium when it is a super export slot.
LEMMA PremiumNext ==
    ASSUME NEW slots, NEW path \in Seq(DispatchSet), NEW d \in DispatchSet
    PROVE  LET k == Len(path) + 1
               P == Premium(slots, path, slots[k].day, Len(path))
           IN  Premium(slots, Append(path, d), slots[k].day, k)
                  = IF SuperExport(slots[k].hour) THEN P + Exported(d) ELSE P
<1>. DEFINE l    == Len(path)
            k    == l + 1
            day  == slots[k].day
            S    == SuperSlots(slots, day, l)
            path2 == Append(path, d)
            f    == Export(path2)
            P    == Premium(slots, path, day, l)
<1>0. l \in Nat /\ k \in Nat /\ path2 \in Seq(DispatchSet) /\ DOMAIN path2 = 1 .. k /\ path2[k] = d
  OBVIOUS
<1>1. SumFunctionOnSet(f, S) = P /\ P \in Nat
  BY PremiumPrefix, PremiumNat DEF Premium
<1>2. f[k] = Exported(d) /\ \A j \in 1 .. k : f[j] \in Nat
  <2>1. f[k] = Exported(d)
    BY <1>0 DEF Export
  <2>2. \A j \in DOMAIN path2 : f[j] \in Nat
    BY <1>0, ExportedNat
  <2>. QED
    BY <1>0, <2>1, <2>2
<1>3. IsFiniteSet(S) /\ S \subseteq 1 .. l /\ k \notin S
  BY SuperSlotsFinite
<1>4. CASE SuperExport(slots[k].hour)
  <2>1. SuperSlots(slots, day, k) = S \cup {k}
    BY <1>0, <1>4 DEF SuperSlots
  <2>2. SumFunctionOnSet(f, S \cup {k}) = f[k] + SumFunctionOnSet(f, S)
    <3>1. \A j \in S \cup {k} : f[j] \in Int
      BY <1>0, <1>2, <1>3
    <3>. HIDE DEF f, S, k
    <3>. QED
      BY <1>3, <3>1, SumAdd
  <2>3. Premium(slots, path2, day, k) = SumFunctionOnSet(f, S \cup {k})
    BY <2>1 DEF Premium
  <2>4. Premium(slots, path2, day, k) = P + Exported(d)
    <3>1. Exported(d) \in Nat
      BY <1>0, <1>2
    <3>. HIDE DEF f, S, k, P
    <3>. QED
      BY <1>1, <1>2, <2>2, <2>3, <3>1
  <2>. QED
    BY <1>4, <2>4
<1>5. CASE ~SuperExport(slots[k].hour)
  <2>1. SuperSlots(slots, day, k) = S
    BY <1>0, <1>5 DEF SuperSlots
  <2>2. Premium(slots, path2, day, k) = SumFunctionOnSet(f, S)
    BY <2>1 DEF Premium
  <2>. QED
    BY <1>1, <1>5, <2>2
<1>. QED
  BY <1>4, <1>5

\* The counter carried along tells the premium left of any day reached.
LEMMA PremiumCarried ==
    ASSUME NEW slots \in Seq(SlotSet), NEW k \in Nat, k < Len(slots),
           \A i, j \in DOMAIN slots : i < j => slots[i].day <= slots[j].day,
           NEW n, CostNode(slots, k, n)
    PROVE  LET day == slots[k + 1].day
           IN  (IF n.day = day THEN n.premium ELSE 0)
                  = Least(SuperCap, Premium(slots, n.path, day, k))
<1>. DEFINE day == slots[k + 1].day
<1>1. SuperCap \in Nat /\ Least(SuperCap, 0) = 0
  BY PlanAssumption DEF Least
<1>2. \A j \in 1 .. k + 1 : j \in DOMAIN slots /\ slots[j].day \in Nat
  <2>1. \A j \in 1 .. k + 1 : j \in DOMAIN slots
    OBVIOUS
  <2>2. \A j \in DOMAIN slots : slots[j] \in SlotSet
    OBVIOUS
  <2>. QED
    BY <2>1, <2>2 DEF SlotSet
<1>3. CASE k # 0 /\ n.day = day
  BY <1>3 DEF CostNode
<1>4. CASE k = 0 \/ n.day # day
  <2>1. n.day # day
    BY <1>2, <1>4 DEF CostNode
  <2>2. \A j \in 1 .. k : slots[j].day # day
    <3>. SUFFICES ASSUME NEW j \in 1 .. k PROVE slots[j].day # day
      OBVIOUS
    <3>1. n.day = slots[k].day
      BY DEF CostNode
    <3>2. slots[k].day <= day /\ slots[j].day <= slots[k].day
      BY <1>2
    <3>. QED
      BY <1>2, <2>1, <3>1, <3>2
  <2>3. SuperSlots(slots, day, k) = {}
    BY <2>2 DEF SuperSlots
  <2>. QED
    BY <1>1, <2>1, <2>3, SumEmpty DEF Premium
<1>. QED
  BY <1>3, <1>4

\* Counting on from a counter that has stopped at the cap makes no difference.
LEMMA LeastTwice ==
    \A c, x, e \in Nat : /\ Least(c, Least(c, x) + e) = Least(c, x + e)
                         /\ Most(0, c - Least(c, x)) = Most(0, c - x)
                         /\ Least(c, x) \in Nat
BY DEF Least, Most

\* Nor does it for the cost of a slot.
LEMMA SlotCostCarried ==
    ASSUME NEW slot, NEW d, NEW premium \in Nat
    PROVE  SlotCost(slot, d, Least(SuperCap, premium)) = SlotCost(slot, d, premium)
<1>1. Most(0, SuperCap - Least(SuperCap, premium)) = Most(0, SuperCap - premium)
  BY LeastTwice, PlanAssumption
<1>. QED
  BY <1>1 DEF SlotCost

\* The cost of a slot is an integer.
LEMMA SlotCostInt ==
    ASSUME NEW slot \in SlotSet, NEW d \in DispatchSet, NEW premium \in Nat
    PROVE  SlotCost(slot, d, premium) \in Int
<1>. DEFINE paid == Least(Exported(d), Most(0, SuperCap - premium))
<1>1. Imported(d) \in Int /\ Exported(d) \in Int
  BY DEF Imported, Exported, Most, DispatchSet
<1>2. ImportPrice(slot.hour) \in Int /\ ExportPrice(slot.hour) \in Int
  BY DEF ImportPrice, ExportPrice
<1>3. paid \in Int
  BY <1>1, PlanAssumption DEF Least, Most
<1>4. Imported(d) * ImportPrice(slot.hour) \in Int /\ Exported(d) * ExportPrice(slot.hour) \in Int
  BY <1>1, <1>2
<1>5. paid * 150 + (Exported(d) - paid) * 50 \in Int
  <2>. HIDE DEF paid
  <2>. QED
    BY <1>1, <1>3
<1>. QED
  BY <1>4, <1>5 DEF SlotCost

\* A dispatch adds its cost to the bill of the path.
LEMMA CostsAppend ==
    ASSUME NEW slots \in Seq(SlotSet), NEW path \in Seq(DispatchSet), NEW d \in DispatchSet,
           Len(path) < Len(slots)
    PROVE  LET slot == slots[Len(path) + 1]
               cost == SlotCost(slot, d, Premium(slots, path, slot.day, Len(path)))
           IN  /\ SumFunction(Costs(slots, Append(path, d))) = cost + SumFunction(Costs(slots, path))
               /\ cost \in Int /\ SumFunction(Costs(slots, path)) \in Int
<1>. DEFINE l    == Len(path)
            k    == l + 1
            slot == slots[k]
            cost == SlotCost(slot, d, Premium(slots, path, slot.day, l))
            path2 == Append(path, d)
            f    == Costs(slots, path)
            g    == Costs(slots, path2)
<1>0. l \in Nat /\ k \in Nat /\ path2 \in Seq(DispatchSet) /\ DOMAIN path2 = 1 .. k /\ path2[k] = d
      /\ DOMAIN path = 1 .. l /\ Len(path2) = k
      /\ \A j \in 1 .. l : path2[j] = path[j] /\ j \in DOMAIN path2 /\ j - 1 \in 0 .. l
  OBVIOUS
<1>1. d \in DispatchSet /\ \A j \in 1 .. l : path[j] \in DispatchSet
  BY <1>0, ExportedNat
<1>2. \A j \in 1 .. k : slots[j] \in SlotSet
  BY <1>0
<1>3. ASSUME NEW j \in 1 .. l PROVE f[j] \in Int /\ g[j] = f[j]
  <2>1. Premium(slots, path, slots[j].day, j - 1) \in Nat
    BY <1>0, PremiumNat
  <2>2. Premium(slots, path2, slots[j].day, j - 1) = Premium(slots, path, slots[j].day, j - 1)
    BY <1>0, PremiumPrefix
  <2>3. f[j] = SlotCost(slots[j], path[j], Premium(slots, path, slots[j].day, j - 1))
    BY <1>0 DEF Costs
  <2>4. g[j] = SlotCost(slots[j], path2[j], Premium(slots, path2, slots[j].day, j - 1))
    BY <1>0 DEF Costs
  <2>. QED
    BY <1>0, <1>1, <1>2, <2>1, <2>2, <2>3, <2>4, SlotCostInt
<1>4. g[k] = cost /\ cost \in Int
  <2>1. k - 1 = l /\ k \in DOMAIN path2 /\ l \in 0 .. l
    BY <1>0
  <2>2. Premium(slots, path, slot.day, l) \in Nat
    BY <2>1, PremiumNat
  <2>3. Premium(slots, path2, slot.day, l) = Premium(slots, path, slot.day, l)
    BY <2>1, PremiumPrefix
  <2>4. g[k] = SlotCost(slot, d, Premium(slots, path2, slot.day, l))
    BY <1>0, <2>1 DEF Costs
  <2>5. slot \in SlotSet
    BY <1>0, <1>2
  <2>. DEFINE P == Premium(slots, path, slot.day, l)
  <2>6. g[k] = SlotCost(slot, d, P) /\ cost = SlotCost(slot, d, P) /\ P \in Nat
    BY <2>2, <2>3, <2>4
  <2>. HIDE DEF P, g, k, cost, slot
  <2>7. SlotCost(slot, d, P) \in Int
    BY <1>1, <2>5, <2>6, SlotCostInt
  <2>. QED
    BY <2>6, <2>7
<1>5. DOMAIN f = 1 .. l /\ DOMAIN g = 1 .. k
  BY <1>0 DEF Costs
<1>. HIDE DEF f, g, cost
<1>6. IsFiniteSet(1 .. l) /\ k \notin 1 .. l /\ 1 .. k = (1 .. l) \cup {k}
  <2>1. k = l + 1 /\ l \in Nat
    OBVIOUS
  <2>. HIDE DEF k, l
  <2>2. k \notin 1 .. l /\ 1 .. k = (1 .. l) \cup {k}
    BY <2>1
  <2>3. 1 \in Int /\ l \in Int
    BY <2>1
  <2>. QED
    BY <2>2, <2>3, FS_Interval
<1>7. SumFunctionOnSet(g, (1 .. l) \cup {k}) = g[k] + SumFunctionOnSet(g, 1 .. l)
  <2>1. \A j \in (1 .. l) \cup {k} : g[j] \in Int
    BY <1>3, <1>4
  <2>. HIDE DEF k
  <2>. QED
    BY <1>6, <2>1, SumAdd
<1>8. SumFunctionOnSet(g, 1 .. l) = SumFunctionOnSet(f, 1 .. l)
  BY <1>3, <1>6, SumSame
<1>9. SumFunctionOnSet(f, 1 .. l) \in Int
  BY <1>3, <1>6, SumType
<1>10. SumFunction(g) = cost + SumFunction(f) /\ SumFunction(f) \in Int
  BY <1>4, <1>5, <1>6, <1>7, <1>8, <1>9 DEF SumFunction
<1>. QED
  BY <1>4, <1>10 DEF f, g, cost

\* The cost carried by a node stays that of its path.
LEMMA AfterCosts ==
    ASSUME NEW slots \in Seq(SlotSet), NEW k \in Nat, k < Len(slots),
           \A i, j \in DOMAIN slots : i < j => slots[i].day <= slots[j].day,
           NEW n, CostNode(slots, k, n), NEW d \in DispatchSet
    PROVE  CostNode(slots, k + 1, After(n, slots[k + 1], d))
<1>. DEFINE slot == slots[k + 1]
            P == Premium(slots, n.path, slot.day, k)
            carried == IF n.day = slot.day THEN n.premium ELSE 0
            extra == IF d.window = "none" THEN 0 ELSE d.command * Penalty
            m == After(n, slot, d)
            sum == SumFunction(Costs(slots, n.path))
<1>1. n.path \in Seq(DispatchSet) /\ Len(n.path) = k /\ n.penalty \in Int /\ n.cost = sum + n.penalty
  BY DEF CostNode
<1>2. /\ m.path = Append(n.path, d) /\ m.day = slot.day
      /\ m.cost = n.cost + SlotCost(slot, d, carried) + extra
      /\ m.penalty = n.penalty + extra
      /\ m.premium = IF SuperExport(slot.hour) THEN Least(SuperCap, carried + Exported(d))
                                               ELSE carried
  BY DEF After
<1>3. carried = Least(SuperCap, P) /\ P \in Nat
  BY <1>1, PremiumCarried, PremiumNat
<1>4. extra \in Int /\ d \in DispatchSet /\ Exported(d) \in Nat /\ SuperCap \in Nat
  <2>1. d \in DispatchSet
    OBVIOUS
  <2>2. d.command \in Int /\ Penalty \in Int
    BY <2>1, PlanAssumption DEF DispatchSet
  <2>3. d.command * Penalty \in Int
    BY <2>2
  <2>4. Exported(d) \in Nat /\ SuperCap \in Nat
    <3>1. d.grid \in Int
      BY <2>1 DEF DispatchSet
    <3>2. Exported(d) \in Nat
      BY <3>1 DEF Exported, Most
    <3>. QED
      BY <3>2, PlanAssumption
  <2>. QED
    BY <2>1, <2>3, <2>4
<1>5. SlotCost(slot, d, carried) = SlotCost(slot, d, P)
  BY <1>3, SlotCostCarried
<1>6. /\ SumFunction(Costs(slots, m.path)) = SlotCost(slot, d, P) + sum
      /\ SlotCost(slot, d, P) \in Int /\ sum \in Int
  BY <1>1, <1>2, CostsAppend
<1>7. m.path \in Seq(DispatchSet) /\ Len(m.path) = k + 1
  BY <1>1, <1>2
<1>8. m.premium = Least(SuperCap, Premium(slots, m.path, slot.day, k + 1)) /\ m.premium \in Int
  <2>1. Premium(slots, m.path, slot.day, k + 1) = IF SuperExport(slot.hour) THEN P + Exported(d) ELSE P
    BY <1>1, <1>2, PremiumNext
  <2>. DEFINE e == Exported(d)
  <2>2. P \in Nat /\ e \in Nat /\ SuperCap \in Nat
    BY <1>3, <1>4
  <2>. HIDE DEF P, carried, m, slot, e
  <2>3. /\ Least(SuperCap, P + e) \in Nat /\ Least(SuperCap, P) \in Nat
        /\ Least(SuperCap, carried + e) = Least(SuperCap, P + e)
    <3>1. P + e \in Nat /\ carried = Least(SuperCap, P)
      BY <1>3, <2>2
    <3>2. Least(SuperCap, P + e) \in Nat /\ Least(SuperCap, P) \in Nat
      BY <2>2, <3>1 DEF Least
    <3>3. Least(SuperCap, Least(SuperCap, P) + e) = Least(SuperCap, P + e)
      BY <2>2 DEF Least
    <3>. QED
      BY <3>1, <3>2, <3>3
  <2>4. CASE SuperExport(slot.hour)
    BY <1>2, <2>1, <2>3, <2>4 DEF e
  <2>5. CASE ~SuperExport(slot.hour)
    BY <1>2, <1>3, <2>1, <2>3, <2>5
  <2>. QED
    BY <2>4, <2>5
<1>. HIDE DEF P, carried, m, extra, sum
<1>9. m.cost = SumFunction(Costs(slots, m.path)) + m.penalty /\ m.penalty \in Int
  BY <1>1, <1>2, <1>4, <1>5, <1>6, SMTT(30)
<1>10. k + 1 # 0
  OBVIOUS
<1>11. CostNode(slots, k + 1, m)
  BY <1>2, <1>7, <1>8, <1>9, <1>10 DEF CostNode
<1>. QED
  BY <1>11 DEF m

\* The root has an empty path that costs nothing.
LEMMA RootCosts == \A slots : CostNode(slots, 0, Root)
<1>. SUFFICES ASSUME NEW slots PROVE CostNode(slots, 0, Root)
  OBVIOUS
<1>1. Root.path = <<>> /\ Root.day = -1 /\ Root.premium = 0 /\ Root.penalty = 0 /\ Root.cost = 0
  BY DEF Root
<1>2. DOMAIN Costs(slots, <<>>) = {}
  BY DEF Costs
<1>3. SumFunction(Costs(slots, <<>>)) = 0
  BY <1>2, SumEmpty DEF SumFunction
<1>. QED
  BY <1>1, <1>3 DEF CostNode

\* No node, no cost.
LEMMA InitCosts == Init => CostInv
BY DEF Init, CostInv

\* Every step of a simulation keeps the costs exact.
LEMMA NextCosts == SafeInv /\ CostInv /\ [Next]_vars => CostInv'
<1>. SUFFICES ASSUME SafeInv, CostInv, [Next]_vars PROVE CostInv'
  OBVIOUS
<1>1. ASSUME NEW sc \in Scenarios, Begin(sc) PROVE CostInv'
  BY <1>1 DEF Begin, CostInv
<1>2. CASE Replay \/ Choose \/ UNCHANGED vars
  <2>1. /\ scenario' = scenario /\ nodes' = nodes /\ depth' = depth
        /\ stage' = stage \/ stage' = "done"
    BY <1>2 DEF Replay, Choose, vars
  <2>. QED
    BY <2>1 DEF CostInv, CostNode
<1>3. CASE StartSearch
  <2>1. /\ stage' = "search" /\ nodes' = {Root} /\ depth' = 0 /\ scenario' = scenario
    BY <1>3 DEF StartSearch, CostInv
  <2>2. CostNode(scenario.slots, 0, Root)
    BY RootCosts
  <2>. QED
    BY <2>1, <2>2 DEF CostInv, CostNode
<1>4. CASE Extend
  <2>. DEFINE slots == scenario.slots
  <2>1. /\ slots \in Seq(SlotSet) /\ depth \in Nat /\ depth < Len(slots)
        /\ \A i, j \in DOMAIN slots : i < j => slots[i].day <= slots[j].day
        /\ scenario' = scenario /\ depth' = depth + 1
        /\ slots[depth + 1] \in SlotSet
    BY <1>4 DEF Extend, SafeInv, ScenarioOK, Proper, Slots
  <2>2. nodes' = Kept(Successors(nodes, slots[depth + 1]))
    BY <1>4 DEF Extend, Slots
  <2>3. ASSUME NEW m \in nodes' PROVE CostNode(slots, depth + 1, m)
    <3>1. m \in Successors(nodes, slots[depth + 1])
      BY <2>2, <2>3 DEF Kept
    <3>2. PICK n \in nodes : \E d \in Dispatches(slots[depth + 1], n.stored) :
                                 m = After(n, slots[depth + 1], d)
      BY <3>1 DEF Successors
    <3>3. PICK d \in Dispatches(slots[depth + 1], n.stored) : m = After(n, slots[depth + 1], d)
      BY <3>2
    <3>4. d \in DispatchSet
      BY <2>1, <3>3, DispatchesSafe DEF SafeInv, NodeOK, SafeSet
    <3>5. CostNode(slots, depth, n)
      BY <3>2 DEF CostInv
    <3>. QED
      BY <2>1, <3>3, <3>4, <3>5, AfterCosts
  <2>4. stage' = "search"
    BY <1>4 DEF Extend
  <2>. QED
    BY <2>1, <2>3, <2>4 DEF CostInv, CostNode
<1>. QED
  BY <1>1, <1>2, <1>3, <1>4 DEF Next, SearchStep

\* The invariant implies the property.
LEMMA CostInvImplies == CostInv => CostsExact
BY EnergyIsCosts DEF CostInv, CostNode, CostsExact

\* The cost a node carries is the bill of its whole path before the credit, whatever the
\* prices, the cap and the days the horizon spans.
THEOREM CostsAreExact == Spec => []CostsExact
BY InitSafe, NextSafe, InitCosts, NextCosts, CostInvImplies, PTL DEF Spec

-----------------------------------------------------------------------------
(* The pruning.  Trajectories folds Successors over the slots: a recursion over the sets of *)
(* the slots' positions, in which Reach[1 .. k] is what k slots reach without pruning.      *)

Grown(h, K) ==
    h = [S \in K |-> IF S = {} THEN {Root} ELSE Successors(h[S \ {Max(S)}], Slots[Max(S)])]

Reach == CHOOSE h : Grown(h, SUBSET (1 .. Len(Slots)))

\* The recursion has a solution: there is no least number of positions for which it has none.
LEMMA GrownExists ==
    ASSUME NEW n \in Nat
    PROVE  \E h : Grown(h, SUBSET (1 .. n))
<1>. DEFINE Small(c) == {S \in SUBSET (1 .. n) : Cardinality(S) <= c}
            Bad == {c \in Nat : ~\E h : Grown(h, Small(c))}
            Less(S) == S \ {Max(S)}
<1>1. \A S \in SUBSET (1 .. n) : IsFiniteSet(S) /\ Cardinality(S) \in 0 .. n
  <2>. SUFFICES ASSUME NEW S \in SUBSET (1 .. n)
                PROVE  IsFiniteSet(S) /\ Cardinality(S) \in 0 .. n
    OBVIOUS
  <2>1. IsFiniteSet(1 .. n) /\ Cardinality(1 .. n) = n
    BY FS_Interval
  <2>2. IsFiniteSet(S) /\ Cardinality(S) <= n
    BY <2>1, FS_Subset
  <2>. QED
    BY <2>2, FS_CardinalityType
<1>2. ASSUME NEW c \in Nat, NEW S \in Small(c), S # {}
      PROVE  Less(S) \in SUBSET (1 .. n) /\ Cardinality(Less(S)) <= c - 1
             /\ Cardinality(Less(S)) \in Nat
  <2>1. Cardinality(Less(S)) = Cardinality(S) - 1 /\ Cardinality(S) \in Nat /\ Cardinality(S) <= c
    BY <1>2, PositionsSmaller
  <2>2. Less(S) \in SUBSET (1 .. n)
    OBVIOUS
  <2>3. Cardinality(Less(S)) \in Nat
    BY <1>1, <2>2
  <2>. HIDE DEF Less
  <2>4. Cardinality(Less(S)) <= c - 1
    BY <2>1
  <2>. QED
    BY <2>2, <2>3, <2>4
<1>. HIDE DEF Less
<1>3. Bad = {}
  <2>. SUFFICES ASSUME Bad # {} PROVE FALSE
    OBVIOUS
  <2>1. PICK c \in Bad : \A d \in Bad : c <= d
    <3>. DEFINE B == Bad
    <3>1. B \in SUBSET Nat /\ B # {}
      OBVIOUS
    <3>. HIDE DEF B
    <3>2. \E c \in B : \A d \in B : c <= d
      BY <3>1, MinExists
    <3>. QED
      BY <3>2 DEF B
  <2>2. c \in Nat /\ ~\E h : Grown(h, Small(c))
    BY <2>1
  <2>3. \E h : \A S \in Small(c) : S # {} =>
           h[Less(S)] = IF Less(S) = {} THEN {Root}
                        ELSE Successors(h[Less(S) \ {Max(Less(S))}], Slots[Max(Less(S))])
    <3>1. CASE c = 0
      <4>1. \A S \in Small(c) : S = {}
        BY <1>1, <3>1, FS_EmptySet
      <4>. QED
        BY <4>1
    <3>2. CASE c # 0
      <4>1. c - 1 \in Nat /\ c - 1 \notin Bad
        <5>. HIDE DEF Bad
        <5>. QED
          BY <2>1, <2>2, <3>2
      <4>2. PICK h : Grown(h, Small(c - 1))
        BY <4>1
      <4>3. \A S \in Small(c) : S # {} => Less(S) \in Small(c - 1)
        BY <1>2, <2>2
      <4>. HIDE DEF Small
      <4>4. \A S \in Small(c - 1) :
               h[S] = IF S = {} THEN {Root} ELSE Successors(h[S \ {Max(S)}], Slots[Max(S)])
        BY <4>2 DEF Grown
      <4>. QED
        BY <4>3, <4>4
    <3>. QED
      BY <3>1, <3>2
  <2>4. PICK h : \A S \in Small(c) : S # {} =>
           h[Less(S)] = IF Less(S) = {} THEN {Root}
                        ELSE Successors(h[Less(S) \ {Max(Less(S))}], Slots[Max(Less(S))])
    BY <2>3
  <2>. DEFINE g == [S \in Small(c) |-> IF S = {} THEN {Root} ELSE Successors(h[Less(S)], Slots[Max(S)])]
  <2>5. \A S \in Small(c) : S # {} => g[Less(S)] = h[Less(S)]
    <3>. SUFFICES ASSUME NEW S \in Small(c), S # {} PROVE g[Less(S)] = h[Less(S)]
      OBVIOUS
    <3>1. Less(S) \in Small(c)
      <4>1. Less(S) \in SUBSET (1 .. n) /\ Cardinality(Less(S)) <= c - 1
            /\ Cardinality(Less(S)) \in Nat
        BY <1>2, <2>2
      <4>2. Cardinality(Less(S)) <= c
        BY <2>2, <4>1
      <4>. QED
        BY <4>1, <4>2
    <3>. HIDE DEF Small
    <3>2. g[Less(S)] = IF Less(S) = {} THEN {Root}
                       ELSE Successors(h[Less(Less(S))], Slots[Max(Less(S))])
      BY <3>1
    <3>3. Less(Less(S)) = Less(S) \ {Max(Less(S))}
      BY DEF Less
    <3>. HIDE DEF g
    <3>. QED
      BY <2>4, <3>2, <3>3
  <2>6. Grown(g, Small(c))
    <3>. HIDE DEF Small
    <3>1. g = [S \in Small(c) |-> IF S = {} THEN {Root} ELSE Successors(g[Less(S)], Slots[Max(S)])]
      BY <2>5
    <3>. HIDE DEF g
    <3>. QED
      BY <3>1 DEF Grown, Less
  <2>. QED
    BY <2>2, <2>6
<1>4. PICK h : Grown(h, Small(n))
  BY <1>3
<1>5. Small(n) = SUBSET (1 .. n)
  BY <1>1
<1>. QED
  BY <1>4, <1>5

\* What slot after slot reaches.
LEMMA ReachSteps ==
    ASSUME ScenarioOK
    PROVE  /\ Reach[1 .. 0] = {Root}
           /\ \A k \in 1 .. Len(Slots) : Reach[1 .. k] = Successors(Reach[1 .. k - 1], Slots[k])
           /\ Trajectories = Reach[1 .. Len(Slots)]
<1>. DEFINE n == Len(Slots)
<1>1. n \in Nat /\ DOMAIN Slots = 1 .. n
  BY DEF ScenarioOK, Proper, Slots
<1>2. Grown(Reach, SUBSET (1 .. n))
  <2>1. \E h : Grown(h, SUBSET (1 .. n))
    BY <1>1, GrownExists
  <2>. QED
    BY <2>1 DEF Reach
<1>3. Trajectories = Reach[1 .. n]
  BY <1>1 DEF Trajectories, FoldLeft, MapThenFoldSet, Reach, Grown
<1>. HIDE DEF n
<1>4. \A S \in SUBSET (1 .. n) :
         Reach[S] = IF S = {} THEN {Root} ELSE Successors(Reach[S \ {Max(S)}], Slots[Max(S)])
  BY <1>2 DEF Grown
<1>5. Reach[1 .. 0] = {Root}
  <2>1. 1 .. 0 = {}
    OBVIOUS
  <2>. QED
    BY <1>4, <2>1
<1>6. ASSUME NEW k \in 1 .. n
      PROVE  Reach[1 .. k] = Successors(Reach[1 .. k - 1], Slots[k])
  <2>1. 1 .. k \in SUBSET (1 .. n) /\ k \in 1 .. k /\ k \in Nat
    BY <1>1
  <2>2. Max(1 .. k) \in 1 .. k /\ \A i \in 1 .. k : i <= Max(1 .. k)
    BY <1>1, <2>1, PositionsSmaller
  <2>3. Max(1 .. k) = k
    BY <2>1, <2>2
  <2>4. (1 .. k) \ {k} = 1 .. k - 1
    BY <2>1
  <2>. QED
    BY <1>4, <2>1, <2>3, <2>4
<1>. QED
  BY <1>3, <1>5, <1>6 DEF n

Comparable(n) == /\ n.stored \in Int /\ n.cost \in Int /\ n.fixed \in Int
                 /\ n.premium \in Nat

\* Alike(n, t): from here on n and t have the same successors at the same costs.
Alike(n, t) == n.stored = t.stored /\ n.premium = t.premium /\ n.day = t.day

\* S has a node as good as any of T.
Spans(S, T) == S \subseteq T /\ \A t \in T : \E n \in S : Alike(n, t) /\ n.cost <= t.cost

\* The costs of a node stay comparable.
LEMMA ComparableAfter ==
    ASSUME NEW n, Comparable(n), NEW slot \in SlotSet, NEW d \in DispatchSet
    PROVE  Comparable(After(n, slot, d)) /\ After(n, slot, d).day = slot.day
<1>. DEFINE premium == IF n.day = slot.day THEN n.premium ELSE 0
            extra == IF d.window = "none" THEN 0 ELSE d.command * Penalty
            m == After(n, slot, d)
            e == Exported(d)
<1>1. premium \in Nat /\ SuperCap \in Nat
  BY PlanAssumption DEF Comparable
<1>2. d.grid \in Int /\ d.command \in Int /\ Penalty \in Int /\ d.stored \in Int
  BY PlanAssumption DEF DispatchSet
<1>3. extra \in Int
  <2>1. d.command * Penalty \in Int
    BY <1>2
  <2>. QED
    BY <2>1
<1>4. e \in Nat
  BY <1>2 DEF Exported, Most
<1>5. SlotCost(slot, d, premium) \in Int
  BY <1>1, SlotCostInt
<1>6. /\ m.stored = d.stored /\ m.day = slot.day
      /\ m.cost = n.cost + SlotCost(slot, d, premium) + extra
      /\ m.premium = IF SuperExport(slot.hour) THEN Least(SuperCap, premium + e) ELSE premium
      /\ m.fixed = n.fixed + (IF d.window = "none" THEN 0 ELSE 1)
  BY DEF After
<1>. HIDE DEF premium, extra, m, e
<1>7. m.fixed \in Int /\ m.cost \in Int
  BY <1>3, <1>5, <1>6 DEF Comparable
<1>8. m.premium \in Nat
  BY <1>1, <1>4, <1>6 DEF Least
<1>. QED
  BY <1>2, <1>6, <1>7, <1>8 DEF Comparable, m

\* A dispatch keeps two nodes alike and the cheaper one no dearer.
LEMMA AlikeAfter ==
    ASSUME NEW n, NEW t, Comparable(n), Comparable(t), Alike(n, t), n.cost <= t.cost,
           NEW slot \in SlotSet, NEW d \in DispatchSet
    PROVE  /\ Alike(After(n, slot, d), After(t, slot, d))
           /\ After(n, slot, d).cost <= After(t, slot, d).cost
<1>. DEFINE premium == IF n.day = slot.day THEN n.premium ELSE 0
            extra == IF d.window = "none" THEN 0 ELSE d.command * Penalty
            slotCost == SlotCost(slot, d, premium)
<1>1. premium = IF t.day = slot.day THEN t.premium ELSE 0
  BY DEF Alike
<1>2. premium \in Nat
  BY DEF Comparable
<1>3. slotCost \in Int
  BY <1>2, SlotCostInt
<1>4. extra \in Int
  <2>1. d.command \in Int /\ Penalty \in Int
    BY PlanAssumption DEF DispatchSet
  <2>2. d.command * Penalty \in Int
    BY <2>1
  <2>. QED
    BY <2>2
<1>5. /\ After(n, slot, d).cost = n.cost + slotCost + extra
      /\ After(t, slot, d).cost = t.cost + slotCost + extra
  BY <1>1 DEF After
<1>6. Alike(After(n, slot, d), After(t, slot, d))
  BY <1>1 DEF After, Alike
<1>. HIDE DEF premium, extra, slotCost
<1>7. After(n, slot, d).cost <= After(t, slot, d).cost
  BY <1>3, <1>4, <1>5 DEF Comparable
<1>. QED
  BY <1>6, <1>7

\* Better is a strict order by cost first.
LEMMA BetterOrder ==
    ASSUME NEW a, NEW b, NEW c, Comparable(a), Comparable(b), Comparable(c)
    PROVE  /\ ~Better(a, a)
           /\ Better(a, b) /\ Better(b, c) => Better(a, c)
           /\ ~Better(b, a) => a.cost <= b.cost
BY DEF Better, Comparable

\* Any finite set of nodes has one that none is better than.
LEMMA BestExists ==
    ASSUME NEW S, IsFiniteSet(S), S # {}, \A n \in S : Comparable(n)
    PROVE  \E b \in S : \A m \in S : ~Better(m, b)
<1>. DEFINE Wrong(s) == s # {} /\ ~\E b \in s : \A m \in s : ~Better(m, b)
            Bad == {n \in Nat : \E s \in SUBSET S : Cardinality(s) = n /\ Wrong(s)}
<1>. SUFFICES ASSUME Wrong(S) PROVE FALSE
  OBVIOUS
<1>1. Cardinality(S) \in Bad
  BY FS_CardinalityType
<1>2. PICK n \in Bad : \A k \in Bad : n <= k
  <2>. DEFINE B == Bad
  <2>1. B \in SUBSET Nat /\ B # {}
    BY <1>1
  <2>. HIDE DEF B
  <2>2. \E k \in B : \A j \in B : k <= j
    BY <2>1, MinExists
  <2>. QED
    BY <2>2 DEF B
<1>3. PICK s \in SUBSET S : Cardinality(s) = n /\ Wrong(s)
  BY <1>2
<1>4. IsFiniteSet(s)
  BY FS_Subset
<1>5. PICK e \in s : TRUE
  BY <1>3
<1>. DEFINE r == s \ {e}
<1>6. IsFiniteSet(r) /\ Cardinality(r) = n - 1 /\ Cardinality(r) \in Nat /\ r \subseteq S
  BY <1>3, <1>4, <1>5, FS_RemoveElement, FS_CardinalityType
<1>7. ~Wrong(r)
  <2>1. n \in Nat
    BY <1>2
  <2>. DEFINE k == Cardinality(r)
  <2>2. k < n /\ k \in Nat
    <3>. HIDE DEF k
    <3>1. k = n - 1 /\ k \in Nat
      BY <1>6 DEF k
    <3>. QED
      BY <2>1, <3>1
  <2>3. k \notin Bad
    <3>. HIDE DEF Bad, k
    <3>. QED
      BY <1>2, <2>1, <2>2
  <2>4. k \in Nat /\ k = Cardinality(r) /\ r \in SUBSET S
    BY <1>6
  <2>. HIDE DEF Wrong, r, k
  <2>. QED
    BY <2>3, <2>4
<1>8. CASE r = {}
  <2>1. s = {e}
    BY <1>5, <1>8
  <2>2. ~Better(e, e)
    BY <1>5, BetterOrder
  <2>. QED
    BY <1>3, <2>1, <2>2
<1>9. CASE r # {}
  <2>1. PICK b \in r : \A m \in r : ~Better(m, b)
    BY <1>7, <1>9
  <2>2. b \in s /\ Comparable(b) /\ Comparable(e) /\ \A m \in s : m = e \/ m \in r
    BY <1>5, <2>1
  <2>3. CASE ~Better(e, b)
    BY <1>3, <2>1, <2>2, <2>3
  <2>4. CASE Better(e, b)
    <3>1. ASSUME NEW m \in s, Better(m, e) PROVE FALSE
      <4>1. Comparable(m)
        BY <3>1
      <4>2. m # e
        BY <2>2, <3>1, BetterOrder
      <4>3. Better(m, b)
        BY <2>2, <2>4, <3>1, <4>1, BetterOrder
      <4>. QED
        BY <2>1, <2>2, <4>2, <4>3
    <3>. QED
      BY <1>3, <1>5, <3>1
  <2>. QED
    BY <2>3, <2>4
<1>. QED
  BY <1>8, <1>9

\* Rounding to whole units changes nothing.
LEMMA RoundedOne == \A x \in Int : Rounded(x, 1) = x
<1>1. \A x \in Int : x \div 1 = x /\ x % 1 = 0
  OBVIOUS
<1>. QED
  BY <1>1 DEF Rounded

\* Pruning leaves a node as good as any it drops, when the quanta tell all states apart.
LEMMA KeptSpans ==
    ASSUME StoredQuantum = 1, PremiumQuantum = 1,
           NEW S, IsFiniteSet(S), \A n \in S : Comparable(n),
           \A n, m \in S : n.day = m.day
    PROVE  Spans(Kept(S), S)
<1>1. Kept(S) \subseteq S
  BY DEF Kept
<1>2. \A n \in S : Key(n) = <<n.stored - MinStored, n.premium>>
  <2>. SUFFICES ASSUME NEW n \in S PROVE Key(n) = <<n.stored - MinStored, n.premium>>
    OBVIOUS
  <2>1. n.stored - MinStored \in Int /\ n.premium \in Int
    BY Constants DEF Comparable
  <2>. QED
    BY <2>1, RoundedOne DEF Key
<1>3. ASSUME NEW t \in S
      PROVE  \E n \in Kept(S) : Alike(n, t) /\ n.cost <= t.cost
  <2>. DEFINE R == {n \in S : Key(n) = Key(t)}
              c == CHOOSE m \in Cheapest(S, Key(t)) : TRUE
  <2>1. R # {} /\ IsFiniteSet(R) /\ \A n \in R : Comparable(n)
    BY FS_Subset
  <2>2. PICK b \in R : \A m \in R : ~Better(m, b)
    <3>. HIDE DEF R
    <3>. QED
      BY <2>1, BestExists
  <2>3. b \in Cheapest(S, Key(t))
    BY <2>2 DEF Cheapest
  <2>4. c \in Cheapest(S, Key(t))
    BY <2>3
  <2>. HIDE DEF c
  <2>5. c \in S /\ Key(c) = Key(t) /\ ~Better(t, c)
    BY <2>4 DEF Cheapest
  <2>6. c \in Kept(S)
    BY <2>5 DEF Kept, c
  <2>7. c.cost <= t.cost
    BY <2>5, BetterOrder
  <2>8. c.stored = t.stored /\ c.premium = t.premium
    <3>1. c.stored - MinStored = t.stored - MinStored /\ c.premium = t.premium
      BY <1>2, <2>5
    <3>2. c.stored \in Int /\ t.stored \in Int /\ MinStored \in Int
      BY <2>5, Constants DEF Comparable
    <3>. QED
      BY <3>1, <3>2
  <2>. QED
    BY <2>5, <2>6, <2>7, <2>8 DEF Alike
<1>. QED
  BY <1>1, <1>3 DEF Spans

\* What the search asks of a node before it takes one more slot.
Searched(n) == NodeOK(n) /\ Comparable(n)

\* There is always the dispatch of self consumption, and never more than three.
LEMMA DispatchesFew ==
    ASSUME NEW slot, NEW stored
    PROVE  Dispatches(slot, stored) # {} /\ IsFiniteSet(Dispatches(slot, stored))
<1>. DEFINE self == SelfConsumption(Natural(slot), stored, MinStored, MaxStored, DischargeLimit)
            charge == FixedWindow("charge", ChargeLimit, Natural(slot), stored, MinStored, MaxStored)
            discharge == FixedWindow("discharge", DischargeLimit, Natural(slot), stored,
                                     ExportMinimum, MaxStored)
            All == {self} \cup ({charge} \cup {discharge})
<1>1. IsFiniteSet(All)
  <2>1. IsFiniteSet({self}) /\ IsFiniteSet({charge}) /\ IsFiniteSet({discharge})
    BY FS_Singleton
  <2>. HIDE DEF self, charge, discharge
  <2>2. IsFiniteSet({charge} \cup {discharge})
    BY <2>1, FS_Union
  <2>. QED
    BY <2>1, <2>2, FS_Union
<1>2. Dispatches(slot, stored) \subseteq All /\ self \in Dispatches(slot, stored)
  BY DEF Dispatches
<1>. HIDE DEF All
<1>. QED
  BY <1>1, <1>2, FS_Subset

\* One slot more makes such a node of one.
LEMMA SearchedAfter ==
    ASSUME ScenarioOK, NEW slot \in SlotSet, NEW n, Searched(n),
           NEW d \in Dispatches(slot, n.stored)
    PROVE  /\ d \in DispatchSet /\ Searched(After(n, slot, d))
           /\ After(n, slot, d).day = slot.day
<1>1. n.stored \in Int /\ n.path \in Seq(SafeSet) /\ Comparable(n)
  BY DEF Searched, NodeOK
<1>2. d \in SafeSet
  BY <1>1, DispatchesSafe
<1>3. d \in DispatchSet /\ d.stored \in Int
  BY <1>2 DEF SafeSet, DispatchSet
<1>4. After(n, slot, d).stored = d.stored /\ After(n, slot, d).path = Append(n.path, d)
  BY DEF After
<1>5. NodeOK(After(n, slot, d))
  BY <1>1, <1>2, <1>3, <1>4 DEF NodeOK
<1>6. Comparable(After(n, slot, d)) /\ After(n, slot, d).day = slot.day
  BY <1>1, <1>3, ComparableAfter
<1>. QED
  BY <1>3, <1>5, <1>6 DEF Searched

\* So it does of a set of them.
LEMMA SuccessorsSearched ==
    ASSUME ScenarioOK, NEW slot \in SlotSet, NEW S, \A n \in S : Searched(n)
    PROVE  \A m \in Successors(S, slot) : Searched(m) /\ m.day = slot.day
<1>. SUFFICES ASSUME NEW m \in Successors(S, slot) PROVE Searched(m) /\ m.day = slot.day
  OBVIOUS
<1>1. PICK n \in S : \E d \in Dispatches(slot, n.stored) : m = After(n, slot, d)
  BY DEF Successors
<1>2. PICK d \in Dispatches(slot, n.stored) : m = After(n, slot, d)
  BY <1>1
<1>3. Searched(n)
  OBVIOUS
<1>. QED
  BY <1>2, <1>3, SearchedAfter

\* Finitely many nodes have finitely many successors, and at least one.
LEMMA SuccessorsFew ==
    ASSUME NEW slot, NEW S, IsFiniteSet(S), S # {}
    PROVE  Successors(S, slot) # {} /\ IsFiniteSet(Successors(S, slot))
<1>. DEFINE Of(n) == {After(n, slot, d) : d \in Dispatches(slot, n.stored)}
            All == {Of(n) : n \in S}
<1>1. ASSUME NEW n \in S PROVE Of(n) # {} /\ IsFiniteSet(Of(n))
  <2>1. Dispatches(slot, n.stored) # {} /\ IsFiniteSet(Dispatches(slot, n.stored))
    BY DispatchesFew
  <2>. DEFINE D == Dispatches(slot, n.stored)
              f == [d \in D |-> After(n, slot, d)]
  <2>2. f \in Surjection(D, Of(n))
    BY DEF Surjection
  <2>. HIDE DEF f
  <2>3. IsFiniteSet(D)
    BY <2>1
  <2>. HIDE DEF D, Of
  <2>4. IsFiniteSet(Of(n))
    BY <2>2, <2>3, FS_Surjection
  <2>. QED
    BY <2>1, <2>4 DEF Of
<1>2. IsFiniteSet(All)
  <2>. DEFINE f == [n \in S |-> Of(n)]
  <2>. HIDE DEF Of
  <2>1. f \in Surjection(S, All)
    BY DEF Surjection
  <2>. HIDE DEF f, All
  <2>. QED
    BY <2>1, FS_Surjection
<1>3. Successors(S, slot) = UNION All
  BY DEF Successors
<1>4. \A x \in All : IsFiniteSet(x)
  BY <1>1
<1>5. UNION All # {}
  <2>1. PICK n \in S : TRUE
    OBVIOUS
  <2>2. Of(n) \in All /\ Of(n) # {}
    BY <1>1
  <2>. HIDE DEF Of, All
  <2>. QED
    BY <2>2
<1>. HIDE DEF All
<1>. QED
  BY <1>2, <1>3, <1>4, <1>5, FS_UNION

\* One slot more, with and without pruning.
LEMMA SpansNext ==
    ASSUME ScenarioOK, StoredQuantum = 1, PremiumQuantum = 1, NEW slot \in SlotSet,
           NEW S, NEW T, IsFiniteSet(S), S # {}, Spans(S, T), \A t \in T : Searched(t)
    PROVE  Spans(Kept(Successors(S, slot)), Successors(T, slot))
<1>. DEFINE U == Successors(S, slot)
<1>1. S \subseteq T /\ \A n \in S : Searched(n)
  BY DEF Spans
<1>2. IsFiniteSet(U) /\ \A m \in U : Comparable(m) /\ m.day = slot.day
  BY <1>1, SuccessorsFew, SuccessorsSearched DEF Searched
<1>3. U \subseteq Successors(T, slot)
  BY <1>1 DEF Successors
<1>4. \A t \in Successors(T, slot) : Comparable(t)
  BY SuccessorsSearched DEF Searched
<1>5. ASSUME NEW t \in Successors(T, slot)
      PROVE  \E m \in U : Alike(m, t) /\ m.cost <= t.cost
  <2>1. PICK p \in T : \E d \in Dispatches(slot, p.stored) : t = After(p, slot, d)
    BY DEF Successors
  <2>2. PICK d \in Dispatches(slot, p.stored) : t = After(p, slot, d)
    BY <2>1
  <2>3. PICK n \in S : Alike(n, p) /\ n.cost <= p.cost
    BY DEF Spans
  <2>4. Searched(p) /\ Searched(n)
    BY <1>1
  <2>5. d \in DispatchSet
    BY <2>2, <2>4, SearchedAfter
  <2>6. n.stored = p.stored
    BY <2>3 DEF Alike
  <2>7. After(n, slot, d) \in U
    BY <2>2, <2>6 DEF Successors
  <2>8. /\ Alike(After(n, slot, d), After(p, slot, d))
        /\ After(n, slot, d).cost <= After(p, slot, d).cost
    BY <2>3, <2>4, <2>5, AlikeAfter DEF Searched
  <2>. QED
    BY <2>2, <2>7, <2>8
<1>. HIDE DEF U
<1>6. Spans(Kept(U), U)
  BY <1>2, KeptSpans
<1>7. ASSUME NEW t \in Successors(T, slot)
      PROVE  \E n \in Kept(U) : Alike(n, t) /\ n.cost <= t.cost
  <2>1. PICK m \in U : Alike(m, t) /\ m.cost <= t.cost
    BY <1>5
  <2>2. PICK n \in Kept(U) : Alike(n, m) /\ n.cost <= m.cost
    BY <1>6 DEF Spans
  <2>3. n.cost \in Int /\ m.cost \in Int /\ t.cost \in Int
    <3>1. n \in U
      BY DEF Kept
    <3>. QED
      BY <1>2, <1>4, <3>1 DEF Comparable
  <2>4. n.cost <= t.cost
    BY <2>1, <2>2, <2>3
  <2>. QED
    BY <2>1, <2>2, <2>4 DEF Alike
<1>8. Kept(U) \subseteq U
  BY DEF Kept
<1>. QED
  BY <1>3, <1>7, <1>8 DEF U, Spans

\* The nodes kept stand for all that the slots so far reach.
PruneInv ==
    /\ stage = "replay" => depth = 0
    /\ stage = "search" =>
        /\ depth \in 0 .. Len(Slots)
        /\ IsFiniteSet(nodes) /\ nodes # {}
        /\ \A t \in Reach[1 .. depth] : Searched(t) /\ CostNode(Slots, depth, t)
        /\ StoredQuantum = 1 /\ PremiumQuantum = 1 => Spans(nodes, Reach[1 .. depth])
        /\ nodes \subseteq Reach[1 .. depth]

\* Pruning keeps some nodes of finitely many.
LEMMA KeptFew ==
    ASSUME NEW S, IsFiniteSet(S), S # {}, \A n \in S : Comparable(n)
    PROVE  IsFiniteSet(Kept(S)) /\ Kept(S) # {} /\ Kept(S) \subseteq S
<1>1. Kept(S) \subseteq S
  BY DEF Kept
<1>2. PICK b \in S : \A m \in S : ~Better(m, b)
  BY BestExists
<1>. DEFINE c == CHOOSE m \in Cheapest(S, Key(b)) : TRUE
<1>3. b \in Cheapest(S, Key(b))
  BY <1>2 DEF Cheapest
<1>4. c \in Cheapest(S, Key(b))
  BY <1>3
<1>. HIDE DEF c
<1>5. c \in S /\ Key(c) = Key(b)
  BY <1>4 DEF Cheapest
<1>6. c \in Kept(S)
  BY <1>5 DEF Kept, c
<1>. QED
  BY <1>1, <1>6, FS_Subset

\* Nothing has been searched yet.
LEMMA InitPrune == Init => PruneInv
BY DEF Init, PruneInv

\* The root can be searched on from.
LEMMA RootSearched ==
    ASSUME ScenarioOK
    PROVE  Searched(Root) /\ CostNode(Slots, 0, Root)
<1>1. Root.stored \in Int
  BY StartBounds DEF Root
<1>2. Root.path = <<>> /\ Root.cost = 0 /\ Root.fixed = 0 /\ Root.premium = 0
  BY DEF Root
<1>3. <<>> \in Seq(SafeSet)
  OBVIOUS
<1>. QED
  BY <1>1, <1>2, <1>3, RootCosts DEF Searched, NodeOK, Comparable

\* A slot searched with pruning still stands for all that the slots reach without.
LEMMA ExtendPrunes ==
    ASSUME SafeInv, PruneInv, Extend
    PROVE  PruneInv'
<1>. DEFINE slot == Slots[depth + 1]
            T == Reach[1 .. depth]
            U == Successors(nodes, slot)
<1>1. /\ stage = "search" /\ stage' = "search" /\ depth < Len(Slots) /\ depth' = depth + 1
      /\ nodes' = Kept(U) /\ scenario' = scenario
  BY DEF Extend
<1>2. /\ ScenarioOK /\ Slots \in Seq(SlotSet) /\ Len(Slots) \in Nat
      /\ \A i, j \in DOMAIN Slots : i < j => Slots[i].day <= Slots[j].day
  BY DEF SafeInv, ScenarioOK, Proper, Slots
<1>3. /\ depth \in Nat /\ depth + 1 \in 1 .. Len(Slots) /\ (depth + 1) - 1 = depth
      /\ slot \in SlotSet
  <2>1. depth \in Nat /\ depth + 1 \in 1 .. Len(Slots) /\ (depth + 1) - 1 = depth
    BY <1>1, <1>2 DEF SafeInv
  <2>. QED
    BY <1>2, <2>1
<1>4. /\ IsFiniteSet(nodes) /\ nodes # {} /\ nodes \subseteq T
      /\ \A t \in T : Searched(t) /\ CostNode(Slots, depth, t)
      /\ StoredQuantum = 1 /\ PremiumQuantum = 1 => Spans(nodes, T)
  BY <1>1 DEF PruneInv
<1>5. Reach[1 .. depth + 1] = Successors(T, slot)
  BY <1>2, <1>3, ReachSteps
<1>. HIDE DEF T, slot
<1>6. \A t \in Successors(T, slot) : Searched(t)
  BY <1>2, <1>3, <1>4, SuccessorsSearched
<1>7. ASSUME NEW t \in Successors(T, slot) PROVE CostNode(Slots, depth + 1, t)
  <2>1. PICK p \in T : \E d \in Dispatches(slot, p.stored) : t = After(p, slot, d)
    BY DEF Successors
  <2>2. PICK d \in Dispatches(slot, p.stored) : t = After(p, slot, d)
    BY <2>1
  <2>3. Searched(p) /\ CostNode(Slots, depth, p)
    BY <1>4
  <2>4. d \in DispatchSet
    BY <1>2, <1>3, <2>2, <2>3, SearchedAfter
  <2>5. t = After(p, Slots[depth + 1], d)
    BY <2>2 DEF slot
  <2>. QED
    BY <1>1, <1>2, <1>3, <2>3, <2>4, <2>5, AfterCosts
<1>8. U \subseteq Successors(T, slot)
  BY <1>4 DEF Successors
<1>9. IsFiniteSet(U) /\ U # {} /\ \A m \in U : Comparable(m)
  BY <1>4, <1>6, <1>8, SuccessorsFew DEF Searched
<1>10. StoredQuantum = 1 /\ PremiumQuantum = 1 => Spans(Kept(U), Successors(T, slot))
  BY <1>2, <1>3, <1>4, SpansNext
<1>. HIDE DEF U
<1>11. IsFiniteSet(Kept(U)) /\ Kept(U) # {} /\ Kept(U) \subseteq U
  BY <1>9, KeptFew
<1>12. Slots' = Slots /\ Reach' = Reach
  BY <1>1 DEF Slots, Reach, Grown, Successors, Root, Start, Dispatches, ExportMinimum
<1>13. \A t : Searched(t)' = Searched(t)
  BY <1>1 DEF Searched, NodeOK, SafeSet, Safe, ExportMinimum
<1>14. PruneInv' =
         /\ depth + 1 \in 0 .. Len(Slots)
         /\ IsFiniteSet(Kept(U)) /\ Kept(U) # {}
         /\ \A t \in Reach[1 .. depth + 1] : Searched(t) /\ CostNode(Slots, depth + 1, t)
         /\ StoredQuantum = 1 /\ PremiumQuantum = 1 => Spans(Kept(U), Reach[1 .. depth + 1])
         /\ Kept(U) \subseteq Reach[1 .. depth + 1]
  BY <1>1, <1>12, <1>13 DEF PruneInv
<1>15. depth + 1 \in 0 .. Len(Slots)
  BY <1>2, <1>3
<1>. QED
  BY <1>5, <1>6, <1>7, <1>8, <1>10, <1>11, <1>14, <1>15

\* Every step of a simulation keeps the nodes standing for all.
LEMMA NextPrune == SafeInv /\ PruneInv /\ [Next]_vars => PruneInv'
<1>. SUFFICES ASSUME SafeInv, PruneInv, [Next]_vars PROVE PruneInv'
  OBVIOUS
<1>1. ASSUME NEW sc \in Scenarios, Begin(sc) PROVE PruneInv'
  BY <1>1 DEF Begin, PruneInv
<1>2. CASE Replay \/ Choose
  <2>1. depth' = depth /\ stage' # "search" /\ (stage' = "replay" => stage = "replay")
    BY <1>2 DEF Replay, Choose
  <2>. QED
    BY <2>1 DEF PruneInv
<1>3. CASE StartSearch
  <2>1. /\ stage' = "search" /\ nodes' = {Root} /\ depth' = 0 /\ scenario' = scenario
    BY <1>3 DEF StartSearch, PruneInv
  <2>2. /\ ScenarioOK /\ Len(Slots) \in Nat
    BY DEF SafeInv, ScenarioOK, Proper, Slots
  <2>3. Reach[1 .. 0] = {Root}
    BY <2>2, ReachSteps
  <2>4. Searched(Root) /\ CostNode(Slots, 0, Root)
    BY <2>2, RootSearched
  <2>5. Slots' = Slots /\ Reach' = Reach
    BY <2>1 DEF Slots, Reach, Grown, Successors, Root, Start, Dispatches, ExportMinimum
  <2>6. \A t : Searched(t)' = Searched(t)
    BY <2>1 DEF Searched, NodeOK, SafeSet, Safe, ExportMinimum
  <2>7. PruneInv' =
           /\ 0 \in 0 .. Len(Slots)
           /\ IsFiniteSet({Root}) /\ {Root} # {}
           /\ \A t \in Reach[1 .. 0] : Searched(t) /\ CostNode(Slots, 0, t)
           /\ StoredQuantum = 1 /\ PremiumQuantum = 1 => Spans({Root}, Reach[1 .. 0])
           /\ {Root} \subseteq Reach[1 .. 0]
    BY <2>1, <2>5, <2>6 DEF PruneInv
  <2>8. Spans({Root}, {Root})
    <3>1. Root.cost = 0
      BY DEF Root
    <3>. QED
      BY <3>1 DEF Spans, Alike
  <2>9. IsFiniteSet({Root})
    BY FS_Singleton
  <2>. QED
    BY <2>2, <2>3, <2>4, <2>7, <2>8, <2>9
<1>4. CASE Extend
  BY <1>4, ExtendPrunes
<1>5. CASE UNCHANGED vars
  <2>1. /\ Slots' = Slots /\ Reach' = Reach /\ nodes' = nodes /\ depth' = depth /\ stage' = stage
    BY <1>5 DEF vars, Slots, Reach, Grown, Successors, Root, Start, Dispatches, ExportMinimum
  <2>2. \A t : Searched(t)' = Searched(t)
    BY <1>5 DEF vars, Searched, NodeOK, SafeSet, Safe, ExportMinimum
  <2>. QED
    BY <2>1, <2>2 DEF PruneInv
<1>. QED
  BY <1>1, <1>2, <1>3, <1>4, <1>5 DEF Next, SearchStep

\* With equal terminal conditions the cheapest node kept costs what the cheapest of all does.
LEMMA PruneInvImplies == SafeInv /\ PruneInv => PruningLossless
<1>. SUFFICES ASSUME SafeInv, PruneInv, stage = "search", depth = Len(Slots),
                     StoredQuantum = 1, PremiumQuantum = 1
              PROVE  Totals(Terminal(nodes), Energy) = Totals(Terminal(Trajectories), Energy)
  BY DEF PruningLossless
<1>. DEFINE T == Trajectories
            A == {Energy(n.path) + n.penalty : n \in Terminal(nodes)}
            B == {Energy(n.path) + n.penalty : n \in Terminal(T)}
<1>1. T = Reach[1 .. depth]
  BY ReachSteps DEF SafeInv
<1>2. /\ IsFiniteSet(nodes) /\ nodes # {} /\ nodes \subseteq T /\ Spans(nodes, T)
      /\ \A t \in T : Comparable(t) /\ CostNode(Slots, depth, t)
  BY <1>1 DEF PruneInv, Searched
<1>. HIDE DEF T
<1>3. \A t \in T : Energy(t.path) + t.penalty = t.cost /\ t.cost \in Int
  BY <1>2, EnergyIsCosts DEF CostNode, Comparable, Slots
<1>4. /\ Terminal(nodes) \subseteq Terminal(T) /\ Terminal(T) \subseteq T
      /\ \A t \in Terminal(T) : \E n \in Terminal(nodes) : n.cost <= t.cost
  <2>1. \A t \in T : \E n \in nodes : n.stored = t.stored /\ n.cost <= t.cost
    BY <1>2 DEF Spans, Alike
  <2>. QED
    BY <1>2, <2>1 DEF Terminal
<1>5. Terminal(nodes) # {} /\ IsFiniteSet(Terminal(nodes))
      /\ \A n \in Terminal(nodes) : Comparable(n)
  <2>1. Terminal(nodes) \subseteq nodes /\ Terminal(nodes) # {}
    BY <1>2 DEF Terminal
  <2>. QED
    BY <1>2, <2>1, FS_Subset
<1>6. PICK b \in Terminal(nodes) : \A m \in Terminal(nodes) : ~Better(m, b)
  BY <1>5, BestExists
<1>7. \A m \in Terminal(nodes) : b.cost <= m.cost
  BY <1>5, <1>6, BetterOrder
<1>8. \A t \in Terminal(T) : b.cost <= t.cost
  <2>. SUFFICES ASSUME NEW t \in Terminal(T) PROVE b.cost <= t.cost
    OBVIOUS
  <2>1. PICK n \in Terminal(nodes) : n.cost <= t.cost
    BY <1>4
  <2>2. b.cost <= n.cost /\ b.cost \in Int /\ n.cost \in Int /\ t.cost \in Int
    BY <1>3, <1>4, <1>7
  <2>. QED
    BY <2>1, <2>2
<1>9. A \subseteq B /\ B \subseteq Int /\ b.cost \in A /\ \A x \in B : b.cost <= x
  BY <1>3, <1>4, <1>6, <1>8
<1>10. Totals(Terminal(nodes), Energy) = Min(A) /\ Totals(Terminal(Trajectories), Energy) = Min(B)
  BY DEF Totals, T
<1>. HIDE DEF A, B
<1>. QED
  BY <1>9, <1>10, MinSame

\* Where the quanta are one unit the keys tell all states apart, and keeping one node per key
\* loses nothing: before the credit the cheapest of all trajectories that end high enough is
\* among the last nodes, whatever the prices, the limits and the horizon.
THEOREM PruningIsLossless == Spec => []PruningLossless
BY InitSafe, NextSafe, InitPrune, NextPrune, PruneInvImplies, PTL DEF Spec

-----------------------------------------------------------------------------
(* The worker.  A simulation always starts from one of the Scenarios, and whatever ends it *)
(* forgets it: what holds of every simulation holds while the worker runs them.            *)

ClockOK == clock \in 0 .. MaxClock

SearchInv == SafeInv /\ EnergyInv /\ CostInv /\ PruneInv

\* The first simulation of the worker starts like any other.
LEMMA InitWorkerSearch == WorkerInit => ClockOK /\ SearchInv
<1>. SUFFICES ASSUME WorkerInit PROVE ClockOK /\ SearchInv
  OBVIOUS
<1>1. ClockOK
  BY WorkerAssumption DEF WorkerInit, ClockOK
<1>2. Init
  BY InputAssumption DEF WorkerInit, Init
<1>. QED
  BY <1>1, <1>2, InitSafe, InitEnergy, InitCosts, InitPrune DEF SearchInv

\* What a step of the worker does to the simulation.
LEMMA WorkerSearchStep ==
    ASSUME ClockOK, [WorkerNext]_allVars
    PROVE  ClockOK' /\ ([Next]_vars \/ Init')
<1>1. CASE Tick \/ PlanNothing \/ PlanEnds \/ RecordFails \/ RecordPlan \/ CheckLatest
           \/ RecordPredictions \/ UNCHANGED allVars
  <2>1. UNCHANGED vars
    BY <1>1 DEF Tick, PlanNothing, PlanEnds, RecordFails, RecordPlan, CheckLatest,
       RecordPredictions, RecordPart, allVars
  <2>2. clock' = clock \/ (clock < MaxClock /\ clock' = clock + 1)
    BY <1>1 DEF Tick, PlanNothing, PlanEnds, RecordFails, RecordPlan, CheckLatest,
       RecordPredictions, RecordPart, allVars, workerVars
  <2>. QED
    BY <2>1, <2>2, WorkerAssumption DEF ClockOK
<1>2. CASE PlanOnce
  <2>1. PICK in \in Inputs : Begin(ScenarioOf(in, clock))
    BY <1>2 DEF PlanOnce
  <2>2. ScenarioOf(in, clock) \in Scenarios
    BY InputAssumption DEF ClockOK
  <2>. QED
    BY <1>2, <2>1, <2>2 DEF PlanOnce, Next, ClockOK
<1>3. CASE Simulate
  BY <1>3 DEF Simulate, Next, ClockOK, workerVars
<1>4. CASE PublishPlan \/ Crash
  <2>1. ForgetSearch /\ clock' = clock
    BY <1>4 DEF PublishPlan, Crash
  <2>. QED
    BY <2>1, InputAssumption DEF ForgetSearch, Init, ClockOK
<1>. QED
  BY <1>1, <1>2, <1>3, <1>4 DEF WorkerNext

\* Every step of the worker preserves what holds of a simulation.
LEMMA NextWorkerSearch ==
    ClockOK /\ SearchInv /\ [WorkerNext]_allVars
        => ClockOK' /\ SearchInv'
<1>1. Init' => SearchInv'
  BY InitSafe, InitEnergy, InitCosts, InitPrune, PTL DEF SearchInv
<1>. QED
  BY <1>1, WorkerSearchStep, NextSafe, NextEnergy, NextCosts, NextPrune DEF SearchInv

\* Whatever the worker plans from, and however often it fails or is killed, no node and no
\* plan leaves the SOC bounds, the effective reserve or the site limits.
THEOREM WorkerSearchIsSafe == WorkerSpec => []SearchSafe
BY InitWorkerSearch, NextWorkerSearch, SafeInvImplies, PTL DEF WorkerSpec, SearchInv

\* Nor does any replay or search of the worker make or lose energy.
THEOREM WorkerEnergyIsAccounted == WorkerSpec => []EnergyAccounted
BY InitWorkerSearch, NextWorkerSearch, EnergyInvImplies, PTL DEF WorkerSpec, SearchInv

\* And every cost it compares is that of the whole path.
THEOREM WorkerCostsAreExact == WorkerSpec => []CostsExact
BY InitWorkerSearch, NextWorkerSearch, CostInvImplies, PTL DEF WorkerSpec, SearchInv

\* And whenever the worker's quanta are one unit, what the pruning drops is never missed.
THEOREM WorkerPruningIsLossless == WorkerSpec => []PruningLossless
BY InitWorkerSearch, NextWorkerSearch, PruneInvImplies, PTL DEF WorkerSpec, SearchInv

-----------------------------------------------------------------------------
(* What the database keeps of the plans. *)

Idling    == pc \in {"wait", "simulate", "ended"}
Part(p)   == [id |-> published.id, at |-> published.at, part |-> p]
Own       == {v \in vintages : v.id = published.id}

WorkerTypes ==
    /\ clock \in Nat /\ count \in Nat
    /\ published.id \in {0, count} /\ published.at \in 0 .. clock
    /\ vintages \subseteq [id : 1 .. count, at : Nat, part : Parts]
    /\ pc \in {"wait", "simulate", "ended", "record_plan", "latest", "load", "native", "shadow"}

\* Once plan_history has been seen to, it says what is published.
HistoryKept ==
    pc \in {"latest", "load", "native", "shadow"} \/ (Idling /\ recorded /\ published.id # 0) =>
        /\ history.key = published.key
        /\ published.at - history.at < ArchiveInterval

\* A publication writes its parts in turn, and no other publication writes them.
PartsInTurn ==
    /\ ~Idling => published.id = count /\ count # 0
    /\ pc \in {"record_plan", "latest", "load"} => Own = {}
    /\ pc = "native" => Own = {Part("load")}
    /\ pc = "shadow" => Own = {Part("load"), Part("native")}

\* It starts only when the last whole vintage is old, and nothing becomes whole in between.
VintageDue ==
    pc \in {"load", "native", "shadow"} =>
        \A v \in Complete : published.at - v.at >= ArchiveInterval

VintageThere ==
    Idling /\ recorded /\ published.key.action # "none" =>
        \E v \in Complete : published.at - v.at < ArchiveInterval

VintagesApart == \A v, w \in Complete : v.id < w.id => w.at - v.at >= ArchiveInterval

WorkerInv ==
    WorkerTypes /\ HistoryKept /\ PartsInTurn /\ VintageDue /\ VintageThere /\ VintagesApart

\* Nothing is published or stored at the start.
LEMMA InitWorkerInv == WorkerInit => WorkerInv
BY DEF WorkerInit, WorkerInv, WorkerTypes, HistoryKept, PartsInTurn, VintageDue, VintageThere,
   VintagesApart, Idling, Own, Starting, Complete

\* A vintage is whole when each of its parts is there.
LEMMA WholeVintage ==
    ASSUME NEW n \in Nat, NEW V \in SUBSET [id : 1 .. n, at : Nat, part : Parts], NEW v \in V
    PROVE  /\ v.id \in 1 .. n /\ v.at \in Nat
           /\ \A p \in Parts : [v EXCEPT !.part = p] = [id |-> v.id, at |-> v.at, part |-> p]
           /\ v = [id |-> v.id, at |-> v.at, part |-> v.part]
OBVIOUS

\* A part that leaves its vintage incomplete completes none.
LEMMA StillIncomplete ==
    ASSUME WorkerTypes, NEW p \in Parts, vintages' = vintages \cup {Part(p)},
           published.id \in 1 .. count, NEW q \in Parts, q # p, Part(q) \notin vintages,
           \A v \in Own : v.at = published.at
    PROVE  Complete' = Complete
<1>1. \A v \in vintages' : /\ v.id \in 1 .. count /\ v.at \in Nat
                           /\ \A r \in Parts : [v EXCEPT !.part = r] =
                                                  [id |-> v.id, at |-> v.at, part |-> r]
  <2>1. vintages' \in SUBSET [id : 1 .. count, at : Nat, part : Parts] /\ count \in Nat
    BY DEF WorkerTypes, Part
  <2>. QED
    BY <2>1, WholeVintage
<1>2. ASSUME NEW v \in Complete' PROVE v.id # published.id
  <2>1. v \in vintages' /\ [v EXCEPT !.part = q] \in vintages'
    BY <1>2 DEF Complete
  <2>2. [id |-> v.id, at |-> v.at, part |-> q] \in vintages'
    BY <1>1, <2>1
  <2>3. v.id = published.id => v.at = published.at
    BY <2>1 DEF Own, Part
  <2>4. v.id = published.id => Part(q) \in vintages'
    BY <2>2, <2>3 DEF Part
  <2>5. Part(q) # Part(p)
    BY DEF Part
  <2>. QED
    BY <2>4, <2>5
<1>3. ASSUME NEW v \in Complete' PROVE v \in Complete
  <2>1. v \in vintages' /\ \A r \in Parts : [v EXCEPT !.part = r] \in vintages'
    BY <1>3 DEF Complete
  <2>2. \A r \in Parts : [v EXCEPT !.part = r] # Part(p) /\ v # Part(p)
    BY <1>1, <1>2, <1>3, <2>1 DEF Part
  <2>. QED
    BY <2>1, <2>2 DEF Complete
<1>4. Complete \subseteq Complete'
  BY DEF Complete
<1>. QED
  BY <1>3, <1>4

\* A publication reaches the store before it reaches the database.
LEMMA PublishKeeps ==
    ASSUME WorkerInv, pc \in {"wait", "simulate"}, NEW key, Publish(key),
           UNCHANGED <<clock, history, vintages>>
    PROVE  WorkerInv'
<1>. USE DEF WorkerInv
<1>1. /\ count' = count + 1 /\ published' = [id |-> count + 1, at |-> clock, key |-> key]
      /\ pc' = "record_plan" /\ count \in Nat /\ clock \in Nat
  BY DEF Publish, WorkerTypes
<1>2. \A v \in vintages : v.id \in 1 .. count
  BY DEF WorkerTypes
<1>3. WorkerTypes'
  BY <1>1 DEF WorkerTypes
<1>4. PartsInTurn'
  BY <1>1, <1>2 DEF PartsInTurn, Own, Idling
<1>5. Complete' = Complete
  BY DEF Complete
<1>. QED
  BY <1>1, <1>3, <1>4, <1>5 DEF HistoryKept, VintageDue, VintageThere, VintagesApart, Idling

\* Steps that leave the publication and the tables alone.
LEMMA IdleKeeps ==
    ASSUME WorkerInv, UNCHANGED <<count, published, history, vintages>>,
           clock' = clock \/ clock' = clock + 1,
           \/ UNCHANGED <<pc, recorded>>
           \/ recorded' = recorded /\ Idling /\ Idling'
           \/ ~recorded' /\ Idling'
    PROVE  WorkerInv'
<1>. USE DEF WorkerInv
<1>1. Complete' = Complete /\ Own' = Own
  BY DEF Complete, Own
<1>2. WorkerTypes'
  BY DEF WorkerTypes, Idling
<1>3. HistoryKept'
  BY DEF HistoryKept, Idling
<1>4. PartsInTurn'
  BY <1>1 DEF PartsInTurn, Idling, Part
<1>5. VintageDue' /\ VintageThere' /\ VintagesApart'
  BY <1>1 DEF VintageDue, VintageThere, VintagesApart, Idling
<1>. QED
  BY <1>2, <1>3, <1>4, <1>5

\* The row of plan_history is written, or an unchanged young one left, before the vintages.
LEMMA RecordPlanKeeps ==
    ASSUME WorkerInv, RecordPlan
    PROVE  WorkerInv'
<1>. USE DEF WorkerInv
<1>1. /\ UNCHANGED <<clock, input, count, published, recorded, vintages>>
      /\ pc = "record_plan" /\ pc' \in {"wait", "latest"}
      /\ published.key.action # "none" => pc' = "latest"
  BY DEF RecordPlan
<1>2. Complete' = Complete /\ Own' = Own
  BY <1>1 DEF Complete, Own
<1>3. history'.key = published.key /\ published.at - history'.at < ArchiveInterval
  BY WorkerAssumption DEF RecordPlan, Unchanged, WorkerTypes
<1>4. WorkerTypes'
  BY <1>1 DEF WorkerTypes
<1>5. PartsInTurn'
  BY <1>1, <1>2 DEF PartsInTurn, Idling
<1>. QED
  BY <1>1, <1>2, <1>3, <1>4, <1>5
     DEF HistoryKept, VintageDue, VintageThere, VintagesApart, Idling

\* A vintage is begun only when the last whole one is old.
LEMMA CheckLatestKeeps ==
    ASSUME WorkerInv, CheckLatest
    PROVE  WorkerInv'
<1>. USE DEF WorkerInv
<1>1. /\ UNCHANGED <<clock, input, count, published, recorded, history, vintages>>
      /\ pc = "latest" /\ pc' \in {"wait", "load"}
      /\ pc' = "wait" <=> \E v \in Complete : published.at - v.at < ArchiveInterval
  BY DEF CheckLatest
<1>2. Complete' = Complete /\ Own' = Own
  BY <1>1 DEF Complete, Own
<1>3. WorkerTypes'
  BY <1>1 DEF WorkerTypes
<1>4. PartsInTurn' /\ HistoryKept'
  BY <1>1, <1>2 DEF PartsInTurn, HistoryKept, Idling
<1>5. \A v \in Complete : published.at - v.at \in Int
  BY WholeVintage DEF WorkerTypes, Complete
<1>6. VintageDue' /\ VintageThere' /\ VintagesApart'
  BY <1>1, <1>2, <1>5, WorkerAssumption DEF VintageDue, VintageThere, VintagesApart, Idling
<1>. QED
  BY <1>3, <1>4, <1>6

\* The last part completes the vintage, the others none.
LEMMA RecordPredictionsKeeps ==
    ASSUME WorkerInv, RecordPredictions
    PROVE  WorkerInv'
<1>. USE DEF WorkerInv
<1>1. /\ UNCHANGED <<clock, input, count, published, recorded, history>>
      /\ pc \in {"load", "native", "shadow"} /\ pc \in Parts
      /\ vintages' = vintages \cup {Part(pc)}
      /\ pc = "load" => pc' = "native"
      /\ pc = "native" => pc' = "shadow"
      /\ pc = "shadow" => pc' = "wait"
      /\ pc' \in {"native", "shadow", "wait"}
  BY DEF RecordPredictions, RecordPart, Part, Parts
<1>2. /\ published.id \in 1 .. count /\ count \in Nat
      /\ published.at \in Nat /\ clock \in Nat /\ published.at <= clock
  BY <1>1 DEF PartsInTurn, Idling, WorkerTypes
<1>3. WorkerTypes'
  BY <1>1, <1>2 DEF WorkerTypes, Part
<1>4. HistoryKept'
  BY <1>1 DEF HistoryKept, Idling
<1>5. PartsInTurn'
  <2>1. Own' = Own \cup {Part(pc)}
    BY <1>1 DEF Own, Part
  <2>2. Part("load")' = Part("load") /\ Part("native")' = Part("native")
    BY <1>1 DEF Part
  <2>. QED
    BY <1>1, <1>2, <2>1, <2>2 DEF PartsInTurn, Idling
<1>6. CASE pc \in {"load", "native"}
  <2>1. Part("shadow") \notin vintages /\ \A v \in Own : v.at = published.at
    BY <1>6 DEF PartsInTurn, Own, Part
  <2>2. Complete' = Complete
    BY <1>1, <1>2, <1>6, <2>1, StillIncomplete DEF Parts
  <2>. QED
    BY <1>1, <1>3, <1>4, <1>5, <1>6, <2>2 DEF VintageDue, VintageThere, VintagesApart, Idling
<1>7. CASE pc = "shadow"
  <2>1. \A p \in Parts : Part(p) \in vintages'
    BY <1>1, <1>7 DEF PartsInTurn, Own, Parts
  <2>2. Part("shadow") \in Complete'
    <3>1. \A p \in Parts : [Part("shadow") EXCEPT !.part = p] = Part(p)
      BY DEF Part
    <3>2. "shadow" \in Parts
      BY DEF Parts
    <3>. QED
      BY <2>1, <3>1, <3>2 DEF Complete
  <2>3. ASSUME NEW v \in Complete' PROVE v \in Complete \/ (v.id = published.id /\ v.at = published.at)
    <3>1. v \in vintages' /\ \A r \in Parts : [v EXCEPT !.part = r] \in vintages'
      BY <2>3 DEF Complete
    <3>2. vintages' \in SUBSET [id : 1 .. count, at : Nat, part : Parts]
      BY <1>1, <1>3 DEF WorkerTypes
    <3>3. v.id = published.id => v.at = published.at
      BY <1>1, <1>7, <3>1 DEF PartsInTurn, Own, Part
    <3>4. ASSUME v.id # published.id, NEW r \in Parts PROVE [v EXCEPT !.part = r] \in vintages
      <4>1. [v EXCEPT !.part = r] = [id |-> v.id, at |-> v.at, part |-> r]
        BY <1>2, <3>1, <3>2, WholeVintage
      <4>2. [v EXCEPT !.part = r] # Part("shadow")
        BY <3>4, <4>1 DEF Part
      <4>. QED
        BY <1>1, <1>7, <3>1, <4>2
    <3>5. v.id # published.id => v \in vintages
      BY <1>1, <3>1 DEF Part
    <3>. QED
      BY <3>3, <3>4, <3>5 DEF Complete
  <2>4. \A v \in Complete : v.id \in 1 .. count /\ v.at \in Nat
    BY <1>2, WholeVintage DEF Complete, WorkerTypes
  <2>5. VintagesApart'
    <3>. SUFFICES ASSUME NEW v \in Complete', NEW w \in Complete', v.id < w.id
                  PROVE  w.at - v.at >= ArchiveInterval
      BY DEF VintagesApart
    <3>1. CASE v \in Complete /\ w \in Complete
      BY <3>1 DEF VintagesApart
    <3>2. CASE v \in Complete /\ w.id = published.id /\ w.at = published.at
      BY <1>7, <3>2 DEF VintageDue
    <3>3. CASE v.id = published.id
      <4>1. published.id = count /\ w.id <= count
        BY <1>2, <1>7, <2>3, <2>4 DEF PartsInTurn, Idling
      <4>. QED
        BY <1>2, <2>3, <2>4, <3>3, <4>1
    <3>. QED
      BY <2>3, <3>1, <3>2, <3>3
  <2>6. VintageThere'
    BY <1>1, <1>2, <2>2, WorkerAssumption DEF VintageThere, Part
  <2>. QED
    BY <1>1, <1>3, <1>4, <1>5, <1>7, <2>5, <2>6 DEF VintageDue
<1>. QED
  BY <1>1, <1>6, <1>7

\* A new process knows of no plan; the tables are as the last one left them.
LEMMA CrashKeeps ==
    ASSUME WorkerInv, Crash
    PROVE  WorkerInv'
<1>. USE DEF WorkerInv
<1>1. /\ UNCHANGED <<clock, count, history, vintages>> /\ pc' = "wait"
      /\ published' = Starting /\ published'.id = 0 /\ published'.at = 0
      /\ published'.key.action = "none"
  BY DEF Crash, Starting
<1>2. Complete' = Complete
  BY <1>1 DEF Complete
<1>. QED
  BY <1>1, <1>2 DEF WorkerTypes, HistoryKept, PartsInTurn, VintageDue, VintageThere,
     VintagesApart, Idling

\* Every step of the worker preserves what holds of the tables.
LEMMA NextWorkerInv == WorkerInv /\ [WorkerNext]_allVars => WorkerInv'
<1>. SUFFICES ASSUME WorkerInv, [WorkerNext]_allVars PROVE WorkerInv'
  OBVIOUS
<1>1. CASE Tick \/ PlanOnce \/ PlanEnds \/ Simulate \/ RecordFails \/ UNCHANGED allVars
  BY <1>1, IdleKeeps DEF Tick, PlanOnce, PlanEnds, Simulate, RecordFails, allVars, workerVars, Idling
<1>2. CASE PlanNothing
  BY <1>2, PublishKeeps DEF PlanNothing
<1>3. CASE PublishPlan
  BY <1>3, PublishKeeps DEF PublishPlan
<1>. QED
  BY <1>1, <1>2, <1>3, RecordPlanKeeps, CheckLatestKeeps, RecordPredictionsKeeps, CrashKeeps
     DEF WorkerNext

\* When nothing of the last publication failed, the last row of plan_history says what is
\* published and is young, whatever failed or was killed before.
THEOREM WorkerHistoryFaithful == WorkerSpec => []HistoryFaithful
<1>1. WorkerInv => HistoryFaithful
  BY DEF WorkerInv, HistoryKept, HistoryFaithful, Idling
<1>. QED
  BY <1>1, InitWorkerInv, NextWorkerInv, PTL DEF WorkerSpec

\* A whole vintage at least every interval, and never two closer than it: one cut short by an
\* error or a kill is made up for and counts for nothing.
THEOREM WorkerVintagesRegular == WorkerSpec => []VintagesRegular
<1>1. WorkerInv => VintagesRegular
  BY DEF WorkerInv, VintageThere, VintagesApart, VintagesRegular, Idling
<1>. QED
  BY <1>1, InitWorkerInv, NextWorkerInv, PTL DEF WorkerSpec
=============================================================================
