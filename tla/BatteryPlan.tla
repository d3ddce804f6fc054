----------------------------- MODULE BatteryPlan -----------------------------
(***************************************************************************)
(* simulate_plan (optimisation.py): the replay of the native policy, the   *)
(* search over fixed windows slot by slot, the choice among its last nodes *)
(* and the recommendations and windows made of it.                         *)
(*                                                                         *)
(* Slots last an hour, powers are whole units and money is in thousandths  *)
(* of a dollar; where the code divides, as in (stored - minimum) *         *)
(* efficiency, the division floors.  A unit charged adds ChargeGain units  *)
(* of stored energy, a unit discharged takes DischargeDraw.  Where nodes   *)
(* tie the code keeps the first, the model any.                            *)
(***************************************************************************)
EXTENDS Integers, Sequences, SequencesExt, FiniteSetsExt

CONSTANTS Scenarios,        \* inputs of simulate_plan
          MinStored,        \* stored energy at the configured reserve
          MaxStored,        \* and at the configured maximum
          ChargeGain, DischargeDraw,
          ChargeLimit, DischargeLimit,
          SiteImport, SiteExport,
          StoredQuantum, PremiumQuantum,
          SuperCap,         \* daily cap of the super export price
          Penalty,          \* half the minimum arbitrage margin
          LoadDraw          \* stored energy per unit of load uncertainty

ASSUME PlanAssumption ==
    /\ {MinStored, MaxStored, ChargeLimit, DischargeLimit, SiteImport, SiteExport,
        SuperCap, Penalty, LoadDraw} \subseteq Nat
    /\ {ChargeGain, DischargeDraw, StoredQuantum, PremiumQuantum} \subseteq Nat \ {0}
    /\ MinStored <= MaxStored

Modes == {"custom_self_consumption", "self_consumption", "reserve",
          "charge_window", "discharge_window", "unknown"}

\* The slots are sorted by their time.
ASSUME ScenarioAssumption ==
    \A sc \in Scenarios :
        /\ sc.slots \in Seq([day : Nat, hour : 0 .. 23, load : Nat, pv : Nat, margin : Nat])
        /\ sc.slots # <<>>
        /\ \A j, k \in DOMAIN sc.slots : j < k => sc.slots[j].day <= sc.slots[k].day
        /\ {sc.stored, sc.reserve, sc.min, sc.max, sc.power} \subseteq Nat
        /\ sc.min <= sc.max
        /\ sc.mode \in Modes
        /\ \A w \in sc.schedule : w \in [mode : {"charge", "discharge"}, power : Nat,
                                         starts : 0 .. 23, ends : 0 .. 23]

VARIABLES
    scenario,  \* the inputs of this call
    stage,     \* "idle", "replay", "search", "choose" or "done"
    native,    \* baseline_dispatches so far
    nodes,     \* the search nodes kept after the slots so far
    depth,     \* slots searched
    plan       \* the result

vars == <<scenario, stage, native, nodes, depth, plan>>

-----------------------------------------------------------------------------
(* tariff.py *)

SuperExport(hour) == hour \in 18 .. 20

ImportPrice(hour) == IF hour \in 11 .. 13 THEN 0 ELSE IF hour \in 16 .. 22 THEN 572 ELSE 462

ExportPrice(hour) == IF SuperExport(hour) THEN 150 ELSE IF hour \in 16 .. 22 THEN 50 ELSE 0

-----------------------------------------------------------------------------
(* One slot. *)

Least(a, b)     == IF a <= b THEN a ELSE b
Most(a, b)      == IF a >= b THEN a ELSE b
Clamp(x, lo, hi) == Least(hi, Most(lo, x))

Imported(d) == Most(0, d.grid)
Exported(d) == Most(0, -d.grid)

\* What fits into and what can be drawn from the battery in an hour.
Room(stored, hi)      == Most(0, (hi - stored) \div ChargeGain)
\* Mutant for EnergyAccounted: the draw of a unit is forgotten in what is available.
Mutant_Available(stored, lo) == Most(0, stored - lo)

Available(stored, lo) == Most(0, (stored - lo) \div DischargeDraw)

Charged(action, window, power, natural, stored, lo, hi) ==
    [action |-> action, window |-> window, command |-> IF window = "none" THEN 0 ELSE power,
     battery |-> -power, grid |-> natural + power,
     stored |-> Clamp(stored + power * ChargeGain, lo, hi)]

Discharged(action, window, power, natural, stored, lo, hi) ==
    [action |-> action, window |-> window, command |-> IF window = "none" THEN 0 ELSE power,
     battery |-> power, grid |-> natural - power,
     stored |-> Clamp(stored - power * DischargeDraw, lo, hi)]

SelfConsumption(natural, stored, lo, hi, limit) ==
    IF natural > 0
      THEN Discharged("self_consumption", "none",
                      Least(natural, Least(limit, Available(stored, lo))), natural, stored, lo, hi)
      ELSE Charged("self_consumption", "none",
                   Least(-natural, Least(ChargeLimit, Room(stored, hi))), natural, stored, lo, hi)

FixedWindow(direction, command, natural, stored, lo, hi) ==
    IF direction = "charge"
      THEN Charged("grid_charge", "charge",
                   Least(command, Least(ChargeLimit, Room(stored, hi))), natural, stored, lo, hi)
      ELSE Discharged("export_discharge", "discharge",
                      Least(command, Least(DischargeLimit, Available(stored, lo))),
                      natural, stored, lo, hi)

Idle(action, natural, stored) ==
    [action |-> action, window |-> "none", command |-> 0,
     battery |-> 0, grid |-> natural, stored |-> stored]

Natural(slot) == slot.load - slot.pv

-----------------------------------------------------------------------------
(* The native policy. *)

Active(window, hour) ==
    IF window.starts < window.ends THEN window.starts <= hour /\ hour < window.ends
                                   ELSE hour >= window.starts \/ hour < window.ends

ActiveWindows(hour) == {w \in scenario.schedule : Active(w, hour)}

NativeDispatch(slot, stored) ==
    LET mode  == scenario.mode
        lo    == scenario.min
        hi    == scenario.max
        self(limit) == SelfConsumption(Natural(slot), stored, lo, hi, limit)
        fixed(direction, power) == FixedWindow(direction, power, Natural(slot), stored, lo, hi)
    IN  CASE mode = "custom_self_consumption" /\ ActiveWindows(slot.hour) # {} ->
               LET w == CHOOSE w \in ActiveWindows(slot.hour) : TRUE IN fixed(w.mode, w.power)
          [] mode = "charge_window"    -> fixed("charge", scenario.power)
          [] mode = "discharge_window" -> fixed("discharge", scenario.power)
          [] mode = "reserve" -> IF Natural(slot) < 0 THEN self(0)
                                                      ELSE Idle("reserve", Natural(slot), stored)
          [] mode = "unknown" -> Idle("hold", Natural(slot), stored)
          [] OTHER -> self(DischargeLimit)

NativeStart == Clamp(scenario.stored, scenario.min, scenario.max)

StoredAfter(dispatches, start) ==
    IF dispatches = <<>> THEN start ELSE dispatches[Len(dispatches)].stored

-----------------------------------------------------------------------------
(* The search. *)

Start == Clamp(scenario.stored, MinStored, MaxStored)

Root == [stored |-> Start, cost |-> 0, penalty |-> 0, day |-> -1, premium |-> 0,
         fixed |-> 0, path |-> <<>>]

\* The effective reserve, never below the configured one.
ExportMinimum == Clamp(scenario.reserve, MinStored, MaxStored)

\* Mutant for SearchSafe: a discharge goes down to the configured reserve.
Mutant_Dispatches(slot, stored) ==
    LET natural == Natural(slot)
        charge    == FixedWindow("charge", ChargeLimit, natural, stored, MinStored, MaxStored)
        discharge == FixedWindow("discharge", DischargeLimit, natural, stored,
                                 MinStored, MaxStored)
    IN  {SelfConsumption(natural, stored, MinStored, MaxStored, DischargeLimit)}
          \cup {d \in {charge} : d.command > 0 /\ d.grid > 0 /\ d.grid <= SiteImport}
          \cup {d \in {discharge} : /\ d.command > 0 /\ d.grid < 0 /\ d.grid >= -SiteExport
                                    /\ ExportPrice(slot.hour) > 0}

Dispatches(slot, stored) ==
    LET natural == Natural(slot)
        charge    == FixedWindow("charge", ChargeLimit, natural, stored, MinStored, MaxStored)
        discharge == FixedWindow("discharge", DischargeLimit, natural, stored,
                                 ExportMinimum, MaxStored)
    IN  {SelfConsumption(natural, stored, MinStored, MaxStored, DischargeLimit)}
          \cup {d \in {charge} : d.command > 0 /\ d.grid > 0 /\ d.grid <= SiteImport}
          \cup {d \in {discharge} : /\ d.command > 0 /\ d.grid < 0 /\ d.grid >= -SiteExport
                                    /\ ExportPrice(slot.hour) > 0}

\* _slot_financial_cost; premium: what was exported of the day's cap before.
SlotCost(slot, d, premium) ==
    Imported(d) * ImportPrice(slot.hour)
      - (IF SuperExport(slot.hour)
           THEN LET paid == Least(Exported(d), Most(0, SuperCap - premium))
                IN  paid * 150 + (Exported(d) - paid) * 50
           ELSE Exported(d) * ExportPrice(slot.hour))

\* Mutant for CostsExact after midnight: what is used of the cap is not reset with the day.
Mutant_After(node, slot, d) ==
    LET intervention == IF d.window = "none" THEN 0 ELSE d.command * Penalty
    IN  [stored  |-> d.stored,
         cost    |-> node.cost + SlotCost(slot, d, node.premium) + intervention,
         penalty |-> node.penalty + intervention,
         day     |-> slot.day,
         premium |-> IF SuperExport(slot.hour) THEN Least(SuperCap, node.premium + Exported(d))
                                               ELSE node.premium,
         fixed   |-> node.fixed + (IF d.window = "none" THEN 0 ELSE 1),
         path    |-> Append(node.path, d)]

After(node, slot, d) ==
    LET premium      == IF node.day = slot.day THEN node.premium ELSE 0
        intervention == IF d.window = "none" THEN 0 ELSE d.command * Penalty
    IN  [stored  |-> d.stored,
         cost    |-> node.cost + SlotCost(slot, d, premium) + intervention,
         penalty |-> node.penalty + intervention,
         day     |-> slot.day,
         premium |-> IF SuperExport(slot.hour) THEN Least(SuperCap, premium + Exported(d))
                                               ELSE premium,
         fixed   |-> node.fixed + (IF d.window = "none" THEN 0 ELSE 1),
         path    |-> Append(node.path, d)]

Successors(S, slot) ==
    UNION {{After(n, slot, d) : d \in Dispatches(slot, n.stored)} : n \in S}

\* round(): halves go to the even neighbour.
Rounded(n, quantum) ==
    LET down == n \div quantum
        rest == 2 * (n % quantum)
    IN  IF rest > quantum \/ (rest = quantum /\ down % 2 = 1) THEN down + 1 ELSE down

\* Mutant for PruningLossless: what is left of the day's cap is not told apart.
Mutant_Key(node) == <<Rounded(node.stored - MinStored, StoredQuantum)>>

Key(node) == <<Rounded(node.stored - MinStored, StoredQuantum),
               Rounded(node.premium, PremiumQuantum)>>

Better(a, b) == a.cost < b.cost \/ (a.cost = b.cost /\ a.fixed < b.fixed)

\* Per key the cheapest node.
Cheapest(S, key) == {n \in S : Key(n) = key /\ \A m \in S : Key(m) = key => ~Better(m, n)}

Kept(S) == {n \in S : n = CHOOSE m \in Cheapest(S, Key(n)) : TRUE}

-----------------------------------------------------------------------------
(* The bill of a whole trajectory. *)

Slots == scenario.slots

\* Exports of the same day's super export slots before slot k.
PremiumBefore(path, k) ==
    SumFunctionOnSet([j \in DOMAIN path |-> Exported(path[j])],
                     {j \in 1 .. k - 1 : Slots[j].day = Slots[k].day /\ SuperExport(Slots[j].hour)})

\* A day earns the credit when it has all its ZEROHERO hours and imports in none of them.
CreditDays(path) ==
    {day \in {Slots[k].day : k \in DOMAIN path} :
        \A hour \in 18 .. 20 :
            LET here == {k \in DOMAIN path : Slots[k].day = day /\ Slots[k].hour = hour}
            IN  here # {} /\ \A k \in here : Imported(path[k]) = 0}

Energy(path) ==
    SumFunction([k \in DOMAIN path |-> SlotCost(Slots[k], path[k], PremiumBefore(path, k))])

Bill(path) == Energy(path) - 1000 * Cardinality(CreditDays(path))

-----------------------------------------------------------------------------
(* The choice and what is made of it. *)

TerminalFloor == Least(StoredAfter(native, NativeStart), MaxStored) - StoredQuantum

Terminal(S) == IF \E n \in S : n.stored >= TerminalFloor
                 THEN {n \in S : n.stored >= TerminalFloor} ELSE S

Objective(n) == <<Bill(n.path) + n.penalty, n.fixed, -n.stored>>

Precedes(a, b) == \/ a[1] < b[1]
                  \/ a[1] = b[1] /\ a[2] < b[2]
                  \/ a[1] = b[1] /\ a[2] = b[2] /\ a[3] < b[3]

Winners(S) == LET least == [n \in Terminal(S) |-> Objective(n)]
              IN  {n \in Terminal(S) : \A m \in Terminal(S) : ~Precedes(least[m], least[n])}

Dearest == Max({ImportPrice(Slots[k].hour) : k \in DOMAIN Slots})

\* What the plan saves once the energy it ends short of is bought, times DischargeDraw.
Improvement(path) ==
    DischargeDraw * (Bill(native) - Bill(path))
      - Dearest * Most(0, StoredAfter(native, NativeStart) - StoredAfter(path, Start))

Preserved == [k \in DOMAIN native |->
                [native[k] EXCEPT !.action = "preserve_native", !.window = "none", !.command = 0]]

\* Runs of slots with the same window and command.
ScheduledWindows(path) ==
    FoldLeft(LAMBDA windows, k :
               IF path[k].window = "none" THEN windows
               ELSE IF /\ windows # <<>>
                       /\ Last(windows).last = k - 1
                       /\ Last(windows).window = path[k].window
                       /\ Last(windows).command = path[k].command
                 THEN [windows EXCEPT ![Len(windows)].last = k]
                 ELSE Append(windows, [window |-> path[k].window, command |-> path[k].command,
                                       first |-> k, last |-> k]),
             <<>>, [k \in 1 .. Len(path) |-> k])

Uncertainty(k) == LoadDraw * MapThenSumSet(LAMBDA j : Slots[j].margin, 1 .. k)

\* The band around the expected SOC of slot k.
Lowest(d)  == CASE d.action = "preserve_native"  -> scenario.min
                [] d.action = "export_discharge" -> ExportMinimum
                [] OTHER                         -> MinStored
Highest(d) == IF d.action = "preserve_native" THEN scenario.max ELSE MaxStored

Band(path, k) == [lower |-> Most(Lowest(path[k]), path[k].stored - Uncertainty(k)),
                  upper |-> Least(Highest(path[k]), path[k].stored + Uncertainty(k))]

Feasible(path) == \A k \in DOMAIN path : -SiteExport <= path[k].grid /\ path[k].grid <= SiteImport

Result(path, improvement) ==
    [path |-> path, improvement |-> improvement, feasible |-> Feasible(path),
     windows |-> ScheduledWindows(path), bands |-> [k \in DOMAIN path |-> Band(path, k)]]

-----------------------------------------------------------------------------
(* simulate_plan, loop by loop. *)

NoPlan == [path |-> <<>>, improvement |-> 0, feasible |-> FALSE, windows |-> <<>>, bands |-> <<>>]

Init ==
    /\ scenario \in Scenarios
    /\ stage = "idle"
    /\ native = <<>> /\ nodes = {} /\ depth = 0
    /\ plan = NoPlan

Begin(sc) ==
    /\ stage \in {"idle", "done"}
    /\ scenario' = sc
    /\ stage' = "replay"
    /\ native' = <<>> /\ nodes' = {} /\ depth' = 0
    /\ plan' = NoPlan

Replay ==
    /\ stage = "replay" /\ Len(native) < Len(Slots)
    /\ native' = Append(native, NativeDispatch(Slots[Len(native) + 1],
                                               StoredAfter(native, NativeStart)))
    /\ UNCHANGED <<scenario, stage, nodes, depth, plan>>

StartSearch ==
    /\ stage = "replay" /\ Len(native) = Len(Slots)
    /\ stage' = "search"
    /\ nodes' = {Root}
    /\ UNCHANGED <<scenario, native, depth, plan>>

Extend ==
    /\ stage = "search" /\ depth < Len(Slots)
    /\ nodes' = Kept(Successors(nodes, Slots[depth + 1]))
    /\ depth' = depth + 1
    /\ UNCHANGED <<scenario, stage, native, plan>>

Choose ==
    /\ stage = "search" /\ depth = Len(Slots)
    /\ stage' = "done"
    /\ \E n \in Winners(nodes) :
          plan' = IF Improvement(n.path) > 0 THEN Result(n.path, Improvement(n.path))
                                             ELSE Result(Preserved, 0)
    /\ UNCHANGED <<scenario, native, nodes, depth>>

SearchStep == Replay \/ StartSearch \/ Extend \/ Choose

Next == (\E sc \in Scenarios : Begin(sc)) \/ SearchStep

Spec == Init /\ [][Next]_vars

-----------------------------------------------------------------------------
(* Properties *)

\* No fixed window leaves the site limits or merely serves the site: a charge imports and a
\* discharge exports; no discharge reaches below the effective reserve, and nothing the search
\* considers leaves the configured SOC bounds.
Safe(d) ==
    /\ d.stored \in MinStored .. MaxStored
    /\ d.action = "grid_charge"      => 0 < d.grid /\ d.grid <= SiteImport
    /\ d.action = "export_discharge" => /\ -SiteExport <= d.grid /\ d.grid < 0
                                        /\ ExportMinimum <= d.stored

\* docs/asw-operating-modes.md: "A fixed discharge window is never used merely to serve site
\* load".  Every node kept, and every plan that is not the native schedule itself, is safe.
SearchSafe ==
    /\ \A n \in nodes : Start \in MinStored .. MaxStored /\ \A k \in DOMAIN n.path : Safe(n.path[k])
    /\ plan.improvement > 0 => \A k \in DOMAIN plan.path : Safe(plan.path[k])

Conserved(path, start) ==
    \A k \in DOMAIN path :
        LET before == IF k = 1 THEN start ELSE path[k - 1].stored
            flow   == path[k].battery
        IN  path[k].stored = before - flow * (IF flow > 0 THEN DischargeDraw ELSE ChargeGain)

\* The clamps of the two dispatches never make or lose energy, in the native replay and in
\* every trajectory searched: SOC changes by what passes through the battery.
EnergyAccounted == /\ Conserved(native, NativeStart)
                   /\ \A n \in nodes : Conserved(n.path, Start)

\* The cost that _slot_financial_cost adds up slot by slot, the day's cap carried along, is
\* what _bill says of the whole trajectory before the credit, plus the penalties.
CostsExact == \A n \in nodes : n.cost = Energy(n.path) + n.penalty

Trajectories == FoldLeft(Successors, {Root}, Slots)

Totals(S, Cost(_)) == Min({Cost(n.path) + n.penalty : n \in S})

\* Keeping one node per key loses nothing when the quanta tell all states apart: before the
\* credit the cheapest of all trajectories that end high enough is among the last nodes.
PruningLossless ==
    stage = "search" /\ depth = Len(Slots) /\ StoredQuantum = 1 /\ PremiumQuantum = 1 =>
        Totals(Terminal(nodes), Energy) = Totals(Terminal(Trajectories), Energy)

\* docs/asw-operating-modes.md: "The schedule search compares whole-horizon alternatives".
\* With the credit, which the pruning does not see, the cheapest may be gone.
CheapestFound ==
    stage = "search" /\ depth = Len(Slots) =>
        Totals(Terminal(nodes), Bill) = Totals(Terminal(Trajectories), Bill)
=============================================================================
