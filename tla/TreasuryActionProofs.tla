------------------------ MODULE TreasuryActionProofs ------------------------
(***************************************************************************)
(* FundsAreControlled, DepositWithinCap and ImplementsApproval hold of     *)
(* TreasuryAction for any sessions and roles, any venues, any policy and   *)
(* any number of actions, commands and faults.                             *)
(***************************************************************************)
EXTENDS TreasuryAction, ListTheorems

Roles == {"viewer", "operator", "admin"}

(* What the evaluation recommends. *)
Recs == [type : {"deposit", "redeem"}, venue : VenueIds, amount : Nat, reason : Reasons]

Command == [id : Nat, status : {"pending", "running", "completed", "failed"},
            execution : {"none", "executing", "completed", "failed"}, effects : {0, 1}]

Steps == Try \cup {"mark", "fail_execution", "fail_action", "fail_command"}

(* The values of the variables, and that references between rows hold. *)
Types ==
  /\ action \in Seq(Row) /\ Len(action) <= MaxActions
  /\ command \in Seq(Command) /\ Len(command) <= MaxCommands
  /\ \A c \in DOMAIN command : command[c].id \in DOMAIN action
  /\ cash \in Int
  /\ venue \in [allocation : [VenueIds -> Nat], withdrawable : [VenueIds -> Nat]]
  /\ \A v \in VenueIds : venue.withdrawable[v] <= venue.allocation[v]
  /\ session \in [Sessions -> [pc : {"idle", "approve", "insert", "queue"}, id : Nat]]
  /\ \A s \in Sessions : session[s].pc # "idle" => session[s].id \in DOMAIN action
  /\ worker \in [pc : Steps \cup {"idle"}, cmd : Nat, idle : Int]
  /\ worker.pc = "idle" <=> worker.cmd = 0
  /\ worker.pc # "idle" => worker.cmd \in DOMAIN command
  /\ faults \in Nat
  /\ stranded \subseteq DOMAIN command

(* An approval is held by every row that left recommended, and it is worth *)
(* what the row's venue requires.                                          *)
RowInv(row) ==
  /\ row.rec.type # "none" =>
       /\ row.rec.venue \in VenueIds
       /\ row.required = ApprovalRequirement(Capabilities[row.rec.venue].mode)
  /\ row.approver # "none" => CanSatisfyApprovalRequirement(row.approver, row.required)
  /\ row.status # "recommended" => row.approver # "none"
  /\ row.rec.type = "none" => row.status # "executing"

SessionInv(s) ==
  LET row == action[session[s].id]
  IN /\ session[s].pc = "approve" => CanSatisfyApprovalRequirement(RoleOf[s], row.required)
     /\ session[s].pc \in {"insert", "queue"} => row.status # "recommended"

CommandInv(c) ==
  LET row == action[command[c].id]
  IN /\ row.status # "recommended"
     /\ command[c].status = "pending" => command[c].execution = "none" /\ command[c].effects = 0
     /\ command[c].effects = 1 => row.rec.type # "none"
     /\ command[c].execution = "completed" /\ row.rec.type # "none" => command[c].effects = 1

(* Where the worker is, for its command. *)
WorkerInv ==
  LET cmd == command[worker.cmd]
      rec == action[cmd.id].rec
  IN worker.pc # "idle" =>
       /\ cmd.status = "running"
       /\ worker.pc \in {"mark", "venue"} =>
            rec.type # "none" /\ cmd.execution = "executing" /\ cmd.effects = 0
       /\ worker.pc \in {"cash", "follow_up"} =>
            rec.type # "none" /\ cmd.execution = "executing" /\ cmd.effects = 1
       /\ worker.pc = "complete_execution" => (rec.type # "none" => cmd.effects = 1)
       /\ worker.pc \in {"complete_action", "audit"} => cmd.execution = "completed"
       /\ worker.pc = "fail_action" => cmd.execution # "executing"
       /\ worker.pc = "fail_command" => cmd.execution # "executing" \/ worker.cmd \in stranded

(* Some command on the action was given up. *)
Stranded(a) == \E c \in stranded : command[c].id = a

(* NoOrphans, and that the worker lets go of its action before it lets go  *)
(* of its command.                                                         *)
OrphanInv ==
  /\ \A c \in DOMAIN command :
       command[c].execution = "executing" => c \in stranded \/ worker.cmd = c
  /\ \A a \in DOMAIN action :
       action[a].status = "executing" =>
         \/ Stranded(a)
         \/ worker.cmd # 0 /\ Current = a /\ worker.pc \notin {"audit", "fail_command"}

(* The plan made before execution is still good when the venue is called. *)
PlanInv == worker.pc \in {"mark", "venue"} => ~StillBlocked(worker.cmd)

IInv ==
  /\ Types
  /\ \A a \in DOMAIN action : RowInv(action[a])
  /\ \A s \in Sessions : SessionInv(s)
  /\ \A c \in DOMAIN command : CommandInv(c)
  /\ WorkerInv
  /\ OrphanInv
  /\ PlanInv

-----------------------------------------------------------------------------
(***************************************************************************)
(* The policy engine: its amounts are well-defined, its passes end, and    *)
(* every recommendation is about a configured venue.                       *)
(***************************************************************************)
VenueList == Seq(Snapshot(VenueIds))

(* Rounding to cents keeps an amount's sign and is monotone. *)
LEMMA ToFixedFacts ==
  /\ \A x \in Int : ToFixed(x) \in Int
  /\ \A x \in Nat : ToFixed(x) \in Nat
  /\ \A x, y \in Int : x <= y => ToFixed(x) <= ToFixed(y)
BY DEF ToFixed, Cent

LEMMA AtLeastZeroType ==
  ASSUME NEW x \in Int
  PROVE  AtLeastZero(x) \in Nat /\ x <= AtLeastZero(x) /\ (0 <= x => AtLeastZero(x) = x)
<1>1. 0 \in Int
  OBVIOUS
<1>2. Max({x, 0}) \in {x, 0} /\ x <= Max({x, 0}) /\ 0 <= Max({x, 0})
  BY <1>1, PairBounds, Zenon
<1> QED BY <1>2 DEF AtLeastZero

LEMMA ListFacts ==
  ASSUME NEW venues \in VenueList
  PROVE  /\ Len(venues) \in Nat /\ DOMAIN venues = 1..Len(venues)
         /\ \A i \in 1..Len(venues) :
              /\ venues[i] \in Snapshot(VenueIds)
              /\ venues[i].id \in VenueIds /\ venues[i].tier \in {"instant", "same_day", "delayed"}
              /\ venues[i].apr \in Int /\ venues[i].capacity \in Nat
              /\ venues[i].allocation \in Nat /\ venues[i].withdrawable \in Nat
<1>1. Len(venues) \in Nat /\ DOMAIN venues = 1..Len(venues)
  BY DEF VenueList
<1>2. \A i \in 1..Len(venues) : venues[i] \in Snapshot(VenueIds)
  BY ElementOfSeq DEF VenueList
<1> QED BY <1>1, <1>2 DEF Snapshot

(* The sum over the venues is defined and a natural number. *)
LEMMA AllocatedType ==
  ASSUME NEW venues \in VenueList
  PROVE  Allocated(venues) \in Nat
<1> DEFINE N == Len(venues)
           F == [n \in 1..N |-> [x \in Nat |-> x + venues[n].allocation]]
           V == [n \in 0..N |-> Nat]
           Def(f) == f = [n \in 0..N |-> IF n = 0 THEN 0 ELSE f[n - 1] + venues[n].allocation]
           sum == CHOOSE f : Def(f)
<1>1. N \in Nat /\ V \in [0..N -> SUBSET Nat] /\ 0 \in V[0] /\ Leads(F, N, V)
  <2>1. N \in Nat /\ \A n \in 1..N : venues[n].allocation \in Nat
    BY ListFacts
  <2>2. V \in [0..N -> SUBSET Nat] /\ 0 \in V[0]
    BY <2>1
  <2>3. ASSUME NEW n \in 1..N, NEW x \in V[n - 1] PROVE F[n][x] \in V[n]
    <3>1. x \in Nat /\ V[n] = Nat
      BY <2>1
    <3> QED BY <2>1, <3>1
  <2> QED BY <2>1, <2>2, <2>3 DEF Leads
<1>2. PICK f \in [0..N -> Nat] : IsLoop(f, N, 0, F)
  <2> HIDE DEF N, F, V
  <2> QED BY <1>1, Recursion
<1>3. Def(f)
  <2>1. \A n \in 1..N : f[n] = f[n - 1] + venues[n].allocation
    <3> SUFFICES ASSUME NEW n \in 1..N PROVE f[n] = f[n - 1] + venues[n].allocation
      OBVIOUS
    <3>1. f[n - 1] \in Nat
      <4> HIDE DEF N, F
      <4> QED BY <1>1, <1>2
    <3>2. f[n] = F[n][f[n - 1]]
      <4> HIDE DEF N, F
      <4> QED BY <1>1, <1>2 DEF IsLoop
    <3> QED BY <3>1, <3>2
  <2> HIDE DEF F, V, N
  <2> QED BY <1>1, <1>2, <2>1 DEF IsLoop
<1>4. Def(sum)
  <2> HIDE DEF Def
  <2> QED BY <1>3
<1>5. \A n \in 0..N : sum[n] \in Nat
  <2>1. sum[0] \in V[0] /\ \A n \in 1..N : sum[n - 1] \in V[n - 1] => sum[n] \in V[n]
    <3>1. \A n \in 0..N : sum[n] = IF n = 0 THEN 0 ELSE sum[n - 1] + venues[n].allocation
      <4> HIDE DEF sum
      <4> QED BY <1>4
    <3>2. sum[0] = 0 /\ \A n \in 1..N : sum[n] = sum[n - 1] + venues[n].allocation
      <4> HIDE DEF sum, N
      <4> QED BY <1>1, <3>1
    <3>3. \A n \in 1..N : venues[n].allocation \in Nat /\ n \in 0..N /\ n - 1 \in 0..N
      BY ListFacts
    <3>4. ASSUME NEW n \in 1..N, sum[n - 1] \in V[n - 1] PROVE sum[n] \in V[n]
      <4>1. V[n - 1] = Nat /\ V[n] = Nat
        BY <3>3
      <4> HIDE DEF sum, N, V
      <4> QED BY <3>2, <3>3, <3>4, <4>1
    <3> HIDE DEF sum, N, V
    <3> QED BY <1>1, <3>2, <3>4
  <2>2. \A n \in 0..N : sum[n] \in V[n]
    <3> HIDE DEF sum, V, N
    <3> QED BY <1>1, <2>1, LoopInvariant
  <2> QED BY <2>2
<1>6. Allocated(venues) = sum[N]
  BY DEF Allocated
<1> QED BY <1>1, <1>5, <1>6

LEMMA PctOfType ==
  ASSUME NEW x \in Int, NEW pct \in Int
  PROVE  PctOf(x, pct) \in Int
BY DEF PctOf

(* The sleeve's totals are numbers, its shortfall and surplus not negative. *)
LEMMA ReserveStatusType ==
  ASSUME NEW idle \in Int, NEW venues \in VenueList
  PROVE  LET status == ReserveStatus(idle, venues, Policy)
         IN /\ status.total \in Int /\ status.allocated \in Nat
            /\ status.idle = idle /\ status.total = idle + status.allocated
            /\ status.shortfall \in Nat /\ status.surplus \in Nat
<1> DEFINE total == idle + Allocated(venues)
           required == Max({Policy.minReserve, PctOf(total, Policy.reserveFloorPct)})
<1>1. total \in Int /\ Allocated(venues) \in Nat
  BY AllocatedType
<1>2. required \in Int
  <2>1. PctOf(total, Policy.reserveFloorPct) \in Int
    BY <1>1, PctOfType, PolicyAssumption
  <2>2. Policy.minReserve \in Int
    BY PolicyAssumption
  <2> QED BY <2>1, <2>2, PairBounds
<1>3. AtLeastZero(required - idle) \in Nat /\ AtLeastZero(idle - required) \in Nat
  <2> HIDE DEF required
  <2>1. required - idle \in Int /\ idle - required \in Int
    BY <1>2
  <2> QED BY <2>1, AtLeastZeroType
<1> QED BY <1>1, <1>3 DEF ReserveStatus

LEMMA RecommendationType ==
  ASSUME NEW v \in Snapshot(VenueIds), NEW amount \in Nat, NEW type \in {"deposit", "redeem"},
         NEW reason \in Reasons
  PROVE  Recommendation(type, v, amount, reason) \in Recs
<1>1. ToFixed(amount) \in Nat
  BY ToFixedFacts
<1> QED BY <1>1 DEF Recommendation, Recs, Snapshot

LEMMA VenueRedemptionsType ==
  ASSUME NEW v \in Snapshot(VenueIds), NEW status, status.total \in Int
  PROVE  VenueRedemptions(v, status, Policy) \in Seq(Recs)
<1> DEFINE excess == v.allocation - PctOf(status.total, Policy.maxPctPerVenue)
           i == IF v.id \notin Policy.eligible /\ v.allocation > 0
                THEN <<Recommendation("redeem", v, v.allocation, "venue_ineligible")>>
                ELSE <<>>
           c == IF PctFixed(v.allocation, status.total) > 100 * Policy.maxPctPerVenue /\ excess > 0
                THEN <<Recommendation("redeem", v, excess, "venue_concentration")>>
                ELSE <<>>
<1>1. v.allocation \in Nat /\ excess \in Int
  <2>1. v.allocation \in Nat
    BY DEF Snapshot
  <2>2. PctOf(status.total, Policy.maxPctPerVenue) \in Int
    BY PctOfType, PolicyAssumption
  <2> QED BY <2>1, <2>2
<1>0. "redeem" \in {"deposit", "redeem"} /\ "venue_ineligible" \in Reasons
      /\ "venue_concentration" \in Reasons
  BY DEF Reasons
<1>2. i \in Seq(Recs)
  <2>1. Recommendation("redeem", v, v.allocation, "venue_ineligible") \in Recs
    BY <1>0, <1>1, RecommendationType
  <2> QED BY <2>1
<1>3. c \in Seq(Recs)
  <2>1. excess > 0 => Recommendation("redeem", v, excess, "venue_concentration") \in Recs
    <3> HIDE DEF excess
    <3> QED BY <1>0, <1>1, RecommendationType
  <2> HIDE DEF excess
  <2> QED BY <2>1
<1>4. VenueRedemptions(v, status, Policy) = i \o c
  BY DEF VenueRedemptions
<1> QED
  <2> HIDE DEF i, c
  <2> QED BY <1>2, <1>3, <1>4, ConcatProperties

(* The pass over all venues recommends redemptions of configured venues. *)
LEMMA PerVenueRedemptionsType ==
  ASSUME NEW venues \in VenueList, NEW status, status.total \in Int
  PROVE  PerVenueRedemptions(venues, status, Policy) \in Seq(Recs)
<1> DEFINE N == Len(venues)
           VR(n) == VenueRedemptions(venues[n], status, Policy)
           F == [n \in 1..N |-> [x \in Seq(Recs) |-> x \o VR(n)]]
           V == [n \in 0..N |-> Seq(Recs)]
           Body(f, n) == IF n = 0 THEN <<>> ELSE f[n - 1] \o VR(n)
           Def(f) == f = [n \in 0..N |-> Body(f, n)]
           recs == CHOOSE f : Def(f)
<1>0. N \in Nat /\ \A n \in 1..N : VR(n) \in Seq(Recs) /\ n \in 0..N /\ n - 1 \in 0..N
  BY ListFacts, VenueRedemptionsType
<1> HIDE DEF N, VR
<1>1. V \in [0..N -> SUBSET Seq(Recs)] /\ <<>> \in V[0] /\ Leads(F, N, V)
  <2>1. V \in [0..N -> SUBSET Seq(Recs)] /\ <<>> \in V[0]
    BY <1>0
  <2>2. ASSUME NEW n \in 1..N, NEW x \in V[n - 1] PROVE F[n][x] \in V[n]
    <3>1. x \in Seq(Recs) /\ V[n] = Seq(Recs)
      BY <1>0
    <3>2. x \o VR(n) \in Seq(Recs)
      BY <1>0, <3>1, ConcatProperties
    <3> QED BY <3>1, <3>2
  <2> QED BY <2>1, <2>2 DEF Leads
<1>2. PICK f \in [0..N -> Seq(Recs)] : IsLoop(f, N, <<>>, F)
  <2> HIDE DEF F, V
  <2> QED BY <1>0, <1>1, Recursion
<1>3. Def(f)
  <2>1. \A n \in 1..N : f[n] = f[n - 1] \o VR(n)
    <3> SUFFICES ASSUME NEW n \in 1..N PROVE f[n] = f[n - 1] \o VR(n)
      OBVIOUS
    <3>1. f[n - 1] \in Seq(Recs) /\ f[n] = F[n][f[n - 1]]
      <4> HIDE DEF F
      <4> QED BY <1>0, <1>2 DEF IsLoop
    <3> QED BY <3>1
  <2>2. \A n \in 0..N : f[n] = Body(f, n)
    <3> SUFFICES ASSUME NEW n \in 0..N PROVE f[n] = Body(f, n)
      OBVIOUS
    <3>1. CASE n = 0
      BY <1>2, <3>1 DEF IsLoop
    <3>2. CASE n # 0
      <4>1. n \in 1..N
        BY <1>0, <3>2
      <4> QED BY <2>1, <3>2, <4>1
    <3> QED BY <3>1, <3>2
  <2> HIDE DEF F, V, Body
  <2> QED BY <1>2, <2>2
<1>4. Def(recs)
  <2> HIDE DEF Def
  <2> QED BY <1>3
<1>5. \A n \in 0..N : recs[n] \in V[n]
  <2> HIDE DEF recs
  <2>1. recs[0] = <<>> /\ \A n \in 1..N : recs[n] = recs[n - 1] \o VR(n)
    <3>1. \A n \in 0..N : recs[n] = Body(recs, n)
      <4> HIDE DEF Body
      <4> QED BY <1>4
    <3>2. Body(recs, 0) = <<>> /\ \A n \in 1..N : Body(recs, n) = recs[n - 1] \o VR(n)
      OBVIOUS
    <3>3. 0 \in 0..N
      BY <1>0
    <3> HIDE DEF Body
    <3> QED BY <1>0, <3>1, <3>2, <3>3
  <2>2. ASSUME NEW n \in 1..N, recs[n - 1] \in V[n - 1] PROVE recs[n] \in V[n]
    <3>1. V[n - 1] = Seq(Recs) /\ V[n] = Seq(Recs)
      BY <1>0
    <3> HIDE DEF V
    <3> QED BY <1>0, <2>1, <2>2, <3>1, ConcatProperties
  <2> HIDE DEF V
  <2> QED BY <1>0, <1>1, <2>1, <2>2, LoopInvariant
<1>6. PerVenueRedemptions(venues, status, Policy) = recs[N]
  BY DEF PerVenueRedemptions, VR, N
<1>7. N \in 0..N /\ V[N] = Seq(Recs)
  BY <1>0
<1> QED BY <1>5, <1>6, <1>7

(* Both comparators, with ties broken by position, order the list. *)
LEMMA ComparatorsOrder ==
  ASSUME NEW venues \in VenueList
  PROVE  /\ StrictOrder(ByYieldDescending(venues), 1..Len(venues))
         /\ StrictOrder(ByLiquidityAscending(venues), 1..Len(venues))
<1> DEFINE N == Len(venues)
           apr == [i \in 1..N |-> venues[i].apr]
           w == [i \in 1..N |-> venues[i].withdrawable]
           tier == [i \in 1..N |-> LiquidityPriority[venues[i].tier]]
<1>1. N \in Nat /\ DOMAIN venues = 1..N
      /\ apr \in [1..N -> Int] /\ w \in [1..N -> Int] /\ tier \in [1..N -> Int]
  BY ListFacts DEF LiquidityPriority
<1>2. \A i, j \in 1..N :
        <<i, j>> \in ByYieldDescending(venues) <=> apr[i] > apr[j] \/ (apr[i] = apr[j] /\ i < j)
  BY <1>1 DEF ByYieldDescending
<1>3. \A i, j \in 1..N :
        <<i, j>> \in ByLiquidityAscending(venues) <=>
          \/ tier[i] - tier[j] < 0
          \/ tier[i] - tier[j] = 0 /\ w[i] > w[j]
          \/ tier[i] - tier[j] = 0 /\ w[i] = w[j] /\ i < j
  BY <1>1 DEF ByLiquidityAscending
<1> HIDE DEF N, apr, w, tier
<1>4. StrictOrder(ByYieldDescending(venues), 1..N)
  <2> DEFINE R == ByYieldDescending(venues)
  <2>1. ASSUME NEW i \in 1..N PROVE <<i, i>> \notin R
    BY <1>1, <1>2
  <2>2. ASSUME NEW i \in 1..N, NEW j \in 1..N, NEW k \in 1..N, <<i, j>> \in R, <<j, k>> \in R
        PROVE  <<i, k>> \in R
    <3>1. apr[i] \in Int /\ apr[j] \in Int /\ apr[k] \in Int /\ i \in Int /\ j \in Int /\ k \in Int
      BY <1>1
    <3>2. /\ apr[i] > apr[j] \/ (apr[i] = apr[j] /\ i < j)
          /\ apr[j] > apr[k] \/ (apr[j] = apr[k] /\ j < k)
      BY <1>2, <2>2
    <3>3. apr[i] > apr[k] \/ (apr[i] = apr[k] /\ i < k)
      BY <3>1, <3>2
    <3> QED BY <1>2, <3>3
  <2>3. ASSUME NEW i \in 1..N, NEW j \in 1..N, i # j PROVE <<i, j>> \in R \/ <<j, i>> \in R
    BY <1>1, <1>2, <2>3
  <2> HIDE DEF R
  <2>4. StrictOrder(R, 1..N)
    BY <2>1, <2>2, <2>3 DEF StrictOrder
  <2> QED BY <2>4 DEF R
<1>5. StrictOrder(ByLiquidityAscending(venues), 1..N)
  <2> DEFINE R == ByLiquidityAscending(venues)
  <2>1. ASSUME NEW i \in 1..N PROVE <<i, i>> \notin R
    BY <1>1, <1>3
  <2>2. ASSUME NEW i \in 1..N, NEW j \in 1..N, NEW k \in 1..N, <<i, j>> \in R, <<j, k>> \in R
        PROVE  <<i, k>> \in R
    <3> DEFINE Before(a, b) == \/ tier[a] - tier[b] < 0
                               \/ tier[a] - tier[b] = 0 /\ w[a] > w[b]
                               \/ tier[a] - tier[b] = 0 /\ w[a] = w[b] /\ a < b
    <3>1. /\ tier[i] \in Int /\ tier[j] \in Int /\ tier[k] \in Int
          /\ w[i] \in Int /\ w[j] \in Int /\ w[k] \in Int /\ i \in Int /\ j \in Int /\ k \in Int
      BY <1>1
    <3>2. Before(i, j) /\ Before(j, k)
      BY <1>3, <2>2
    <3>3. Before(i, k)
      BY <3>1, <3>2
    <3> QED BY <1>3, <3>3
  <2>3. ASSUME NEW i \in 1..N, NEW j \in 1..N, i # j PROVE <<i, j>> \in R \/ <<j, i>> \in R
    BY <1>1, <1>3, <2>3
  <2> HIDE DEF R
  <2>4. StrictOrder(R, 1..N)
    BY <2>1, <2>2, <2>3 DEF StrictOrder
  <2> QED BY <2>4 DEF R
<1> QED BY <1>4, <1>5 DEF N

(* What a greedy pass needs of its parameters, and what it keeps. *)
IsPass(pass, venues) ==
  /\ pass.venues = venues
  /\ StrictOrder(pass.order, 1..Len(venues))
  /\ pass.least \in Nat
  /\ pass.room \in [1..Len(venues) -> Nat]
  /\ pass.type \in {"deposit", "redeem"}
  /\ pass.reason \in Reasons

Greeds(candidates) == [rest : SUBSET candidates, left : Nat, recs : Seq(Recs)]

(* One candidate leaves the pass, and at most what is left is allotted. *)
LEMMA GreedyStepType ==
  ASSUME NEW venues \in VenueList, NEW pass, IsPass(pass, venues),
         NEW candidates \in SUBSET (1..Len(venues)),
         NEW acc \in Greeds(candidates), acc.rest # {}
  PROVE  /\ GreedyStep(acc, pass) \in Greeds(candidates)
         /\ \E i \in acc.rest : GreedyStep(acc, pass).rest = acc.rest \ {i}
<1> DEFINE i == First(acc.rest, pass.order)
           part == Min({acc.left, pass.room[i]})
           rec == Recommendation(pass.type, pass.venues[i], part, pass.reason)
           taken == acc.left >= pass.least /\ part >= pass.least
<1>1. acc.rest \subseteq 1..Len(venues) /\ acc.left \in Nat /\ acc.recs \in Seq(Recs)
      /\ acc.rest \subseteq candidates
  BY DEF Greeds
<1>2. i \in acc.rest
  <2>1. IsFiniteSet(acc.rest)
    <3>1. IsFiniteSet(1..Len(venues))
      BY FS_Interval, ListFacts
    <3> QED BY <1>1, <3>1, FS_Subset
  <2>2. StrictOrder(pass.order, acc.rest)
    BY <1>1 DEF StrictOrder, IsPass
  <2>3. \E k \in acc.rest : \A j \in acc.rest \ {k} : <<k, j>> \in pass.order
    BY <2>1, <2>2, FirstExists
  <2> QED BY <2>3 DEF First
<1> HIDE DEF i
<1>3. pass.room[i] \in Nat /\ pass.venues[i] \in Snapshot(VenueIds)
  <2>1. i \in 1..Len(venues)
    BY <1>1, <1>2
  <2> QED BY <2>1, ListFacts DEF IsPass
<1>4. part \in Nat /\ part <= acc.left
  <2>1. acc.left \in Int /\ pass.room[i] \in Int
    BY <1>1, <1>3
  <2>2. part \in {acc.left, pass.room[i]} /\ part <= acc.left
    BY <2>1, PairBounds
  <2> QED BY <1>1, <1>3, <2>2
<1> HIDE DEF part
<1>5. rec \in Recs
  BY <1>3, <1>4, RecommendationType DEF IsPass
<1> HIDE DEF rec
<1>6. Append(acc.recs, rec) \in Seq(Recs)
  BY <1>1, <1>5
<1>7. GreedyStep(acc, pass) =
        [rest |-> acc.rest \ {i},
         left |-> IF taken THEN acc.left - part ELSE acc.left,
         recs |-> IF taken THEN Append(acc.recs, rec) ELSE acc.recs]
  BY DEF GreedyStep, i, part, rec
<1>8. /\ (IF taken THEN acc.left - part ELSE acc.left) \in Nat
      /\ (IF taken THEN Append(acc.recs, rec) ELSE acc.recs) \in Seq(Recs)
      /\ acc.rest \ {i} \in SUBSET candidates
  BY <1>1, <1>4, <1>6
<1> HIDE DEF taken
<1> QED BY <1>2, <1>7, <1>8 DEF Greeds

(* The pass visits each candidate once and then stops. *)
LEMMA GreedyType ==
  ASSUME NEW venues \in VenueList, NEW pass, IsPass(pass, venues),
         NEW candidates \in SUBSET (1..Len(venues)), NEW amount \in Nat
  PROVE  Greedy(candidates, amount, pass) \in Seq(Recs)
<1> DEFINE N == Cardinality(candidates)
           G == Greeds(candidates)
           v0 == [rest |-> candidates, left |-> amount, recs |-> <<>>]
           F == [n \in 1..N |-> [x \in G |-> GreedyStep(x, pass)]]
           V == [n \in 0..N |-> {x \in G : Cardinality(x.rest) = N - n}]
           Body(f, n) == IF n = 0 THEN v0 ELSE GreedyStep(f[n - 1], pass)
           Def(f) == f = [n \in 0..N |-> Body(f, n)]
           acc == CHOOSE f : Def(f)
<1>0. IsFiniteSet(candidates) /\ N \in Nat
  <2>1. IsFiniteSet(1..Len(venues))
    BY FS_Interval, ListFacts
  <2> QED BY <2>1, FS_Subset, FS_CardinalityType
<1>1. \A n \in 1..N : n \in 0..N /\ n - 1 \in 0..N /\ (n - 1) + 1 = n
  BY <1>0
<1>2. ASSUME NEW n \in 1..N, NEW x \in V[n - 1]
      PROVE  GreedyStep(x, pass) \in V[n] /\ x \in G
  <2>1. x \in G /\ Cardinality(x.rest) = N - (n - 1)
    BY <1>1
  <2>2. x.rest \subseteq candidates
    BY <2>1 DEF Greeds
  <2>3. IsFiniteSet(x.rest)
    BY <1>0, <2>2, FS_Subset
  <2>4. x.rest # {}
    BY <1>0, <2>1, FS_EmptySet
  <2>5. PICK i \in x.rest : GreedyStep(x, pass).rest = x.rest \ {i}
    BY <2>1, <2>4, GreedyStepType
  <2>6. Cardinality(x.rest \ {i}) = Cardinality(x.rest) - 1
    BY <2>3, FS_RemoveElement
  <2>7. Cardinality(GreedyStep(x, pass).rest) = N - n
    BY <1>0, <2>1, <2>5, <2>6
  <2>8. GreedyStep(x, pass) \in G
    BY <2>1, <2>4, GreedyStepType
  <2> QED BY <1>1, <2>1, <2>7, <2>8
<1>3. v0 \in V[0] /\ V \in [0..N -> SUBSET G] /\ Leads(F, N, V)
  <2>1. v0 \in G
    BY DEF Greeds
  <2>2. v0 \in V[0] /\ V \in [0..N -> SUBSET G]
    BY <1>0, <2>1
  <2>3. ASSUME NEW n \in 1..N, NEW x \in V[n - 1] PROVE F[n][x] \in V[n]
    <3> HIDE DEF V, G
    <3> QED BY <1>2
  <2> HIDE DEF F, V, G, v0
  <2> QED BY <2>2, <2>3 DEF Leads
<1> HIDE DEF N, V, G, v0
<1>4. PICK f \in [0..N -> G] : IsLoop(f, N, v0, F) /\ \A n \in 0..N : f[n] \in V[n]
  <2> HIDE DEF F
  <2> QED BY <1>0, <1>3, Recursion
<1>5. Def(f)
  <2>1. ASSUME NEW n \in 0..N PROVE f[n] = Body(f, n)
    <3>1. CASE n = 0
      BY <1>4, <3>1 DEF IsLoop
    <3>2. CASE n # 0
      <4>1. n \in 1..N
        BY <1>0, <3>2
      <4>2. f[n] = F[n][f[n - 1]] /\ f[n - 1] \in G
        <5> HIDE DEF F
        <5> QED BY <1>1, <1>4, <4>1 DEF IsLoop
      <4> QED BY <3>2, <4>1, <4>2
    <3> QED BY <3>1, <3>2
  <2> HIDE DEF Body
  <2> QED BY <1>4, <2>1
<1>6. Def(acc)
  <2> HIDE DEF Def
  <2> QED BY <1>5
<1>7. \A n \in 0..N : acc[n] \in V[n]
  <2> HIDE DEF acc
  <2>1. \A n \in 0..N : acc[n] = Body(acc, n)
    <3> HIDE DEF Body
    <3> QED BY <1>6
  <2>2. acc[0] = v0
    BY <1>0, <2>1
  <2>3. ASSUME NEW n \in 1..N, acc[n - 1] \in V[n - 1] PROVE acc[n] \in V[n]
    <3>1. acc[n] = GreedyStep(acc[n - 1], pass)
      BY <1>1, <2>1
    <3> QED BY <1>2, <2>3, <3>1
  <2> QED BY <1>0, <1>3, <2>2, <2>3, LoopInvariant
<1>8. acc[N].recs \in Seq(Recs)
  <2> HIDE DEF acc
  <2>1. acc[N] \in V[N] /\ N \in 0..N
    BY <1>0, <1>7
  <2>2. acc[N] \in G
    BY <1>3, <2>1
  <2> QED BY <2>2 DEF G, Greeds
<1>9. Greedy(candidates, amount, pass) = acc[N].recs
  BY DEF Greedy, N, v0
<1> QED BY <1>8, <1>9

(* Whatever the cash and the books, the evaluation is a list of deposits   *)
(* and redemptions of configured venues, of amounts that are not negative. *)
LEMMA EvaluateType ==
  ASSUME NEW idle \in Int, NEW venues \in VenueList
  PROVE  /\ Evaluate(idle, venues, Policy).recs \in Seq(Recs)
         /\ Evaluate(idle, venues, Policy).venues = venues
         /\ Evaluate(idle, venues, Policy).status = ReserveStatus(idle, venues, Policy)
<1> DEFINE N == Len(venues)
           status == ReserveStatus(idle, venues, Policy)
           cap == PctOf(status.total, Policy.maxPctPerVenue)
           room(i) == Min({AtLeastZero(cap - venues[i].allocation), venues[i].capacity})
           p1 == PerVenueRedemptions(venues, status, Policy)
           p2 == ShortfallRedemptions(venues, status)
           p3 == SurplusDeposits(venues, status, Policy)
           pass2 == [venues |-> venues, order |-> ByLiquidityAscending(venues), least |-> 1,
                     room   |-> [i \in DOMAIN venues |-> venues[i].withdrawable],
                     type   |-> "redeem", reason |-> "reserve_shortfall"]
           pass3 == [venues |-> venues, order |-> ByYieldDescending(venues),
                     least  |-> Policy.minDeployable,
                     room   |-> [i \in DOMAIN venues |-> room(i)],
                     type   |-> "deposit", reason |-> "surplus_deployable"]
<1>1. status.total \in Int /\ status.shortfall \in Nat /\ status.surplus \in Nat
  BY ReserveStatusType
<1>2. N \in Nat /\ DOMAIN venues = 1..N
  BY ListFacts
<1> HIDE DEF status
<1>3. p1 \in Seq(Recs)
  BY <1>1, PerVenueRedemptionsType
<1>4. p2 \in Seq(Recs)
  <2>1. [i \in DOMAIN venues |-> venues[i].withdrawable] \in [1..N -> Nat]
    BY ListFacts
  <2>2. StrictOrder(ByLiquidityAscending(venues), 1..N)
    BY ComparatorsOrder
  <2>3. IsPass(pass2, venues)
    BY <2>1, <2>2 DEF IsPass, Reasons
  <2>4. {i \in DOMAIN venues : venues[i].withdrawable > 0} \in SUBSET (1..N)
    BY <1>2
  <2> HIDE DEF pass2
  <2>5. Greedy({i \in DOMAIN venues : venues[i].withdrawable > 0}, status.shortfall, pass2)
          \in Seq(Recs)
    BY <1>1, <2>3, <2>4, GreedyType
  <2> QED BY <2>5 DEF ShortfallRedemptions, pass2
<1>5. p3 \in Seq(Recs)
  <2>0. ASSUME NEW i \in 1..N PROVE room(i) \in Nat
    <3>1. venues[i].allocation \in Nat /\ venues[i].capacity \in Nat
      BY ListFacts
    <3>2. cap \in Int
      BY <1>1, PctOfType, PolicyAssumption
    <3>3. AtLeastZero(cap - venues[i].allocation) \in Nat
      <4> HIDE DEF cap
      <4>1. cap - venues[i].allocation \in Int
        BY <3>1, <3>2
      <4> QED BY <4>1, AtLeastZeroType
    <3>4. AtLeastZero(cap - venues[i].allocation) \in Int /\ venues[i].capacity \in Int
      BY <3>1, <3>3
    <3>5. room(i) \in {AtLeastZero(cap - venues[i].allocation), venues[i].capacity}
      BY <3>4, PairBounds
    <3> QED BY <3>1, <3>3, <3>5
  <2> HIDE DEF room
  <2>1. [i \in DOMAIN venues |-> room(i)] \in [1..N -> Nat]
    BY <1>2, <2>0
  <2>2. StrictOrder(ByYieldDescending(venues), 1..N)
    BY ComparatorsOrder
  <2>3. IsPass(pass3, venues)
    BY <2>1, <2>2, PolicyAssumption DEF IsPass, Reasons
  <2>4. {i \in DOMAIN venues : venues[i].id \in Policy.eligible /\ venues[i].healthy} \in SUBSET (1..N)
    BY <1>2
  <2> HIDE DEF pass3
  <2>5. Greedy({i \in DOMAIN venues : venues[i].id \in Policy.eligible /\ venues[i].healthy},
               status.surplus, pass3) \in Seq(Recs)
    BY <1>1, <2>3, <2>4, GreedyType
  <2> QED BY <2>5 DEF SurplusDeposits, pass3, room
<1>6. p1 \o p2 \o p3 \in Seq(Recs)
  <2> HIDE DEF p1, p2, p3
  <2> QED BY <1>3, <1>4, <1>5, ConcatProperties
<1>7. Evaluate(idle, venues, Policy) =
        [status |-> status, venues |-> venues, recs |-> p1 \o p2 \o p3]
  BY DEF Evaluate, status
<1> HIDE DEF p1, p2, p3
<1> QED BY <1>6, <1>7 DEF status

-----------------------------------------------------------------------------
(***************************************************************************)
(* What the steps do to the tables.                                        *)
(***************************************************************************)
LEMMA ConfigFacts ==
  /\ DOMAIN VenueConfig = 1..Len(VenueConfig)
  /\ \A i \in DOMAIN VenueConfig :
       /\ VenueConfig[i] \in Snapshot(STRING)
       /\ VenueConfig[i].id \in VenueIds
       /\ VenueConfig[i].allocation \in Nat /\ VenueConfig[i].withdrawable \in Nat
       /\ VenueConfig[i].withdrawable <= VenueConfig[i].allocation
<1>1. DOMAIN VenueConfig = 1..Len(VenueConfig)
  BY VenueAssumption
<1>2. \A i \in DOMAIN VenueConfig : VenueConfig[i] \in Snapshot(STRING)
  BY <1>1, VenueAssumption, ElementOfSeq
<1> QED BY <1>1, <1>2, VenueAssumption DEF Snapshot, VenueIds

LEMMA InitiallyType ==
  /\ [allocation |-> Initially("allocation"), withdrawable |-> Initially("withdrawable")]
       \in [allocation : [VenueIds -> Nat], withdrawable : [VenueIds -> Nat]]
  /\ \A v \in VenueIds : Initially("withdrawable")[v] <= Initially("allocation")[v]
<1> DEFINE pick(v) == CHOOSE i \in DOMAIN VenueConfig : VenueConfig[i].id = v
<1>1. \A v \in VenueIds : pick(v) \in DOMAIN VenueConfig
  BY DEF VenueIds
<1>2. \A v \in VenueIds : /\ Initially("allocation")[v] = VenueConfig[pick(v)].allocation
                          /\ Initially("withdrawable")[v] = VenueConfig[pick(v)].withdrawable
  BY DEF Initially
<1> HIDE DEF pick
<1>3. \A v \in VenueIds : /\ Initially("allocation")[v] \in Nat
                          /\ Initially("withdrawable")[v] \in Nat
                          /\ Initially("withdrawable")[v] <= Initially("allocation")[v]
  BY <1>1, <1>2, ConfigFacts
<1>4. /\ Initially("allocation") \in [VenueIds -> Nat]
      /\ Initially("withdrawable") \in [VenueIds -> Nat]
  BY <1>3 DEF Initially
<1> QED BY <1>3, <1>4

(* The snapshots that an evaluation reads are well-formed. *)
LEMMA SnapshotsType ==
  ASSUME Types
  PROVE  /\ Snapshots \in VenueList
         /\ \A i \in DOMAIN Snapshots : Snapshots[i].allocation = venue.allocation[Snapshots[i].id]
<1>1. \A v \in VenueIds : venue.allocation[v] \in Nat /\ venue.withdrawable[v] \in Nat
  BY DEF Types
<1>2. DOMAIN Snapshots = 1..Len(VenueConfig) /\ Len(VenueConfig) \in Nat
  BY ConfigFacts, VenueAssumption DEF Snapshots
<1>3. ASSUME NEW i \in DOMAIN Snapshots
      PROVE  /\ Snapshots[i] \in Snapshot(VenueIds)
             /\ Snapshots[i].allocation = venue.allocation[Snapshots[i].id]
  <2>1. i \in DOMAIN VenueConfig
    BY DEF Snapshots
  <2>2. Snapshots[i] = [VenueConfig[i] EXCEPT !.allocation = venue.allocation[VenueConfig[i].id],
                                              !.withdrawable = venue.withdrawable[VenueConfig[i].id]]
    BY <2>1 DEF Snapshots
  <2>3. VenueConfig[i].id \in VenueIds /\ VenueConfig[i] \in Snapshot(STRING)
    BY <2>1, ConfigFacts
  <2> QED BY <1>1, <2>2, <2>3 DEF Snapshot
<1>4. Snapshots \in Seq(Snapshot(VenueIds))
  <2>1. Snapshots = [i \in 1..Len(VenueConfig) |-> Snapshots[i]]
    BY <1>2 DEF Snapshots
  <2>2. Snapshots \in [1..Len(VenueConfig) -> Snapshot(VenueIds)]
    BY <1>2, <1>3, <2>1
  <2> QED BY <1>2, <2>2, SeqDef
<1> QED BY <1>3, <1>4 DEF VenueList

(* New rows, recommended and unapproved, at the end of treasury_actions. *)
RowsAppended ==
  /\ action' \in Seq(Row) /\ Len(action') <= MaxActions
  /\ \A a \in DOMAIN action : a \in DOMAIN action' /\ action'[a] = action[a]
  /\ \A a \in DOMAIN action' : a \notin DOMAIN action =>
       RowInv(action'[a]) /\ action'[a].status = "recommended"

LEMMA PlannedRow ==
  ASSUME NEW rec \in Recs, NEW evaluation
  PROVE  /\ Planned(rec, evaluation) \in Row
         /\ RowInv(Planned(rec, evaluation))
         /\ Planned(rec, evaluation).status = "recommended"
<1> DEFINE row == Planned(rec, evaluation)
           cap == Capabilities[rec.venue]
<1>1. row = [rec        |-> rec,
             status     |-> "recommended",
             executable |-> BlockedReasons(rec, evaluation, Policy, cap, Mode) = {},
             required   |-> ApprovalRequirement(cap.mode),
             approver   |-> "none"]
  BY DEF Planned
<1>2. ApprovalRequirement(cap.mode) \in {"operator", "admin"}
  BY DEF ApprovalRequirement
<1>3. rec.type # "none" /\ rec.venue \in VenueIds
  BY DEF Recs
<1>4. rec \in [type : {"none", "deposit", "redeem"}, venue : VenueIds \cup {"none"},
               amount : Nat, reason : Reasons \cup {"none"}]
  BY DEF Recs
<1>5. row \in Row
  BY <1>1, <1>2, <1>4 DEF Row, Status
<1>6. RowInv(row)
  BY <1>1, <1>3 DEF RowInv
<1> QED BY <1>1, <1>5, <1>6

LEMMA PersistFacts ==
  ASSUME Types, NEW idle \in Int, Persist(idle)
  PROVE  RowsAppended /\ cash' \in Int
<1> DEFINE evaluation == Evaluate(idle, Snapshots, Policy)
           recs == evaluation.recs
           kept == Min({MaxActions - Len(action), Len(recs)})
           new == [i \in 1..kept |-> Planned(recs[i], evaluation)]
<1>1. recs \in Seq(Recs) /\ Len(recs) \in Nat
  BY EvaluateType, SnapshotsType
<1>2. action \in Seq(Row) /\ Len(action) \in Nat /\ Len(action) <= MaxActions /\ MaxActions \in Nat
  BY BoundsAssumption DEF Types
<1>3. action' = action \o new /\ cash' = ToFixed(idle)
  BY DEF Persist
<1> HIDE DEF evaluation
<1>4. kept \in Nat /\ kept <= Len(recs) /\ kept <= MaxActions - Len(action)
  <2> HIDE DEF recs
  <2>1. MaxActions - Len(action) \in Int /\ Len(recs) \in Int
    BY <1>1, <1>2
  <2>2. /\ kept \in {MaxActions - Len(action), Len(recs)}
        /\ kept <= Len(recs) /\ kept <= MaxActions - Len(action)
    BY <2>1, PairBounds
  <2> HIDE DEF kept
  <2> QED BY <1>1, <1>2, <2>2
<1> HIDE DEF kept
<1>5. \A i \in 1..kept : recs[i] \in Recs
  <2> HIDE DEF recs
  <2> QED BY <1>1, <1>4, ElementOfSeq
<1> HIDE DEF recs
<1>6. \A i \in 1..kept : new[i] \in Row /\ RowInv(new[i]) /\ new[i].status = "recommended"
  BY <1>5, PlannedRow
<1>7. new \in Seq(Row) /\ Len(new) = kept
  <2>1. new \in [1..kept -> Row]
    BY <1>6
  <2> HIDE DEF new
  <2> QED BY <1>4, <2>1, SeqDef
<1> HIDE DEF new
<1>8. /\ action' \in Seq(Row) /\ Len(action') = Len(action) + kept
      /\ \A i \in 1..Len(action) + kept :
           action'[i] = IF i <= Len(action) THEN action[i] ELSE new[i - Len(action)]
  BY <1>2, <1>3, <1>7, ConcatProperties
<1>9. DOMAIN action' = 1..Len(action) + kept /\ DOMAIN action = 1..Len(action)
  BY <1>2, <1>8
<1>10. RowsAppended
  <2>1. Len(action') <= MaxActions
    BY <1>2, <1>4, <1>8
  <2>2. ASSUME NEW a \in DOMAIN action PROVE a \in DOMAIN action' /\ action'[a] = action[a]
    BY <1>2, <1>4, <1>8, <1>9
  <2>3. ASSUME NEW a \in DOMAIN action', a \notin DOMAIN action
        PROVE  RowInv(action'[a]) /\ action'[a].status = "recommended"
    <3>1. a - Len(action) \in 1..kept /\ action'[a] = new[a - Len(action)]
      BY <1>2, <1>4, <1>8, <1>9, <2>3
    <3> QED BY <1>6, <3>1
  <2> QED BY <1>8, <2>1, <2>2, <2>3 DEF RowsAppended
<1> QED BY <1>3, <1>10, ToFixedFacts

(* What no step takes back from a row. *)
RowsGrow ==
  \A a \in DOMAIN action :
    /\ a \in DOMAIN action'
    /\ action'[a].rec = action[a].rec
    /\ action'[a].required = action[a].required
    /\ action[a].status # "recommended" => action'[a].status # "recommended"

LEMMA AppendedGrow == ASSUME RowsAppended PROVE RowsGrow
BY DEF RowsAppended, RowsGrow

LEMMA RowFacts ==
  ASSUME Types, NEW i \in DOMAIN action
  PROVE  /\ action[i] \in Row
         /\ action[i].rec \in [type : {"none", "deposit", "redeem"}, venue : VenueIds \cup {"none"},
                               amount : Nat, reason : Reasons \cup {"none"}]
<1>1. action[i] \in Row
  BY ElementOfSeq DEF Types
<1> QED BY <1>1 DEF Row

LEMMA CommandFacts ==
  ASSUME Types, NEW c \in DOMAIN command
  PROVE  command[c] \in Command /\ command[c].id \in DOMAIN action
BY ElementOfSeq DEF Types

(* A row's status is overwritten. *)
LEMMA StatusFacts ==
  ASSUME Types, \A a \in DOMAIN action : RowInv(action[a]),
         NEW i \in DOMAIN action, NEW st \in Status \ {"recommended"},
         action[i].status # "recommended", st = "executing" => action[i].rec.type # "none",
         action' = [action EXCEPT ![i].status = st]
  PROVE  /\ action' \in Seq(Row) /\ Updated(action, action', i, [action[i] EXCEPT !.status = st])
         /\ RowsGrow /\ \A a \in DOMAIN action' : RowInv(action'[a])
<1> DEFINE row == [action[i] EXCEPT !.status = st]
<1>1. action[i] \in Row
  BY RowFacts
<1>2. row \in Row /\ row.rec = action[i].rec /\ row.required = action[i].required
      /\ row.approver = action[i].approver /\ row.status = st
  BY <1>1 DEF Row
<1>3. action' = [action EXCEPT ![i] = row]
  OBVIOUS
<1> HIDE DEF row
<1>4. action' \in Seq(Row) /\ Updated(action, action', i, row)
  <2>1. action \in Seq(Row)
    BY DEF Types
  <2> QED BY <1>2, <1>3, <2>1, UpdatedTable
<1>5. RowsGrow
  BY <1>2, <1>4 DEF RowsGrow, Updated
<1>6. RowInv(row)
  BY <1>2 DEF RowInv
<1>7. \A a \in DOMAIN action' : RowInv(action'[a])
  BY <1>4, <1>6 DEF Updated
<1> QED BY <1>4, <1>5, <1>7 DEF row

(* A command and its execution get a new status. *)
LEMMA SetCommandFacts ==
  ASSUME Types, NEW c \in DOMAIN command,
         NEW st \in {"pending", "running", "completed", "failed"},
         NEW ex \in {"none", "executing", "completed", "failed"},
         SetCommand(c, st, ex)
  PROVE  /\ command' \in Seq(Command) /\ Len(command') = Len(command)
         /\ DOMAIN command' = DOMAIN command
         /\ \A d \in DOMAIN command : d # c => command'[d] = command[d]
         /\ command'[c].id = command[c].id /\ command'[c].effects = command[c].effects
         /\ command'[c].status = st /\ command'[c].execution = ex
<1> DEFINE row == [command[c] EXCEPT !.status = st, !.execution = ex]
<1>1. command[c] \in Command
  BY CommandFacts
<1>2. /\ row \in Command /\ row.id = command[c].id /\ row.effects = command[c].effects
      /\ row.status = st /\ row.execution = ex
  BY <1>1 DEF Command
<1>3. command' = [command EXCEPT ![c] = row]
  BY DEF SetCommand, Types
<1> HIDE DEF row
<1>4. command' \in Seq(Command) /\ Updated(command, command', c, row)
  <2>1. command \in Seq(Command)
    BY DEF Types
  <2> QED BY <1>2, <1>3, <2>1, UpdatedTable
<1> QED BY <1>2, <1>4 DEF Updated

-----------------------------------------------------------------------------
(***************************************************************************)
(* Frames: what a step leaves alone keeps its part of the invariant.       *)
(***************************************************************************)
LEMMA SessionFrame ==
  ASSUME IInv, RowsGrow, NEW s \in Sessions, session'[s] = session[s]
  PROVE  SessionInv(s)'
<1>1. SessionInv(s) /\ (session[s].pc # "idle" => session[s].id \in DOMAIN action)
  BY DEF IInv, Types
<1> QED BY <1>1 DEF SessionInv, RowsGrow

LEMMA CommandFrame ==
  ASSUME IInv, RowsGrow, NEW c \in DOMAIN command, command'[c] = command[c]
  PROVE  CommandInv(c)'
<1>1. CommandInv(c) /\ command[c].id \in DOMAIN action
  BY DEF IInv, Types
<1> QED BY <1>1 DEF CommandInv, RowsGrow

LEMMA WorkerFrame ==
  ASSUME IInv, RowsGrow, worker' = worker, stranded' = stranded,
         worker.pc # "idle" => command'[worker.cmd] = command[worker.cmd]
  PROVE  WorkerInv'
<1> SUFFICES ASSUME worker.pc # "idle" PROVE WorkerInv'
  BY DEF WorkerInv
<1>1. WorkerInv /\ worker.cmd \in DOMAIN command /\ command[worker.cmd].id \in DOMAIN action
  BY DEF IInv, Types
<1>2. action'[command[worker.cmd].id].rec = action[command[worker.cmd].id].rec
  BY <1>1 DEF RowsGrow
<1> QED BY <1>1, <1>2 DEF WorkerInv

LEMMA BlockedFrame ==
  ASSUME IInv, RowsGrow, venue' = venue, NEW c \in DOMAIN command, command'[c].id = command[c].id
  PROVE  StillBlocked(c)' <=> StillBlocked(c)
<1>1. action'[command'[c].id].rec = action[command[c].id].rec
  BY DEF RowsGrow, IInv, Types
<1>2. Snapshots' = Snapshots
  BY DEF Snapshots
<1> QED BY <1>1, <1>2 DEF StillBlocked, Replanned

LEMMA PlanFrame ==
  ASSUME IInv, RowsGrow, venue' = venue, worker'.cmd = worker.cmd,
         worker'.pc \in {"mark", "venue"} => worker.pc \in {"mark", "venue"},
         worker.pc # "idle" => command'[worker.cmd].id = command[worker.cmd].id
  PROVE  PlanInv'
<1> SUFFICES ASSUME worker.pc \in {"mark", "venue"} PROVE ~StillBlocked(worker.cmd)'
  BY DEF PlanInv
<1>1. worker.cmd \in DOMAIN command /\ worker.pc # "idle" /\ ~StillBlocked(worker.cmd)
  BY DEF IInv, Types, PlanInv
<1>2. ~StillBlocked(worker.cmd)' <=> ~StillBlocked(worker.cmd)
  BY <1>1, BlockedFrame
<1> QED BY <1>1, <1>2

LEMMA StrandedFrame ==
  ASSUME IInv, stranded \subseteq stranded',
         \A c \in DOMAIN command : command'[c].id = command[c].id
  PROVE  \A a : Stranded(a) => Stranded(a)'
BY DEF Stranded, IInv, Types

LEMMA OrphanFrame ==
  ASSUME IInv, stranded' = stranded, worker' = worker,
         \A c \in DOMAIN command' : command'[c].execution = "executing" =>
           c \in DOMAIN command /\ command[c].execution = "executing",
         \A a \in DOMAIN action' : action'[a].status = "executing" =>
           a \in DOMAIN action /\ action[a].status = "executing",
         \A c \in DOMAIN command : command'[c].id = command[c].id
  PROVE  OrphanInv'
<1>1. /\ OrphanInv /\ (worker.pc = "idle" <=> worker.cmd = 0)
      /\ (worker.pc # "idle" => worker.cmd \in DOMAIN command)
  BY DEF IInv, Types
<1>2. \A a : Stranded(a) => Stranded(a)'
  BY StrandedFrame
<1> QED BY <1>1, <1>2 DEF OrphanInv, Current

-----------------------------------------------------------------------------
LEMMA InitInv == Init => IInv
<1> SUFFICES ASSUME Init PROVE IInv
  OBVIOUS
<1>1. Types
  <2>1. action \in Seq(Row) /\ command \in Seq(Command) /\ Len(action) = 0 /\ Len(command) = 0
    BY DEF Init
  <2>2. DOMAIN command = {}
    BY DEF Init
  <2>3. /\ venue \in [allocation : [VenueIds -> Nat], withdrawable : [VenueIds -> Nat]]
        /\ \A v \in VenueIds : venue.withdrawable[v] <= venue.allocation[v]
    BY InitiallyType DEF Init
  <2>4. session \in [Sessions -> [pc : {"idle", "approve", "insert", "queue"}, id : Nat]]
        /\ \A s \in Sessions : session[s].pc = "idle"
    BY DEF Init
  <2>5. worker \in [pc : Steps \cup {"idle"}, cmd : Nat, idle : Int]
        /\ worker.pc = "idle" /\ worker.cmd = 0
    BY DEF Init
  <2>6. cash \in Int /\ faults \in Nat /\ stranded \subseteq DOMAIN command
    BY DEF Init
  <2> QED BY <2>1, <2>2, <2>3, <2>4, <2>5, <2>6, BoundsAssumption DEF Types
<1>2. DOMAIN action = {} /\ DOMAIN command = {} /\ worker.pc = "idle"
  BY DEF Init
<1>3. \A s \in Sessions : SessionInv(s)
  BY DEF Init, SessionInv
<1>4. WorkerInv /\ OrphanInv /\ PlanInv
  BY <1>2 DEF WorkerInv, OrphanInv, PlanInv
<1> QED BY <1>1, <1>2, <1>3, <1>4 DEF IInv

(* An evaluation or a rebalance adds rows. *)
LEMMA RowsAppendedStep ==
  ASSUME IInv, RowsAppended, cash' \in Int, UNCHANGED <<command, venue, session, worker, faults, stranded>>
  PROVE  IInv'
<1>1. RowsGrow
  BY AppendedGrow
<1>2. Types'
  <2>1. /\ action' \in Seq(Row) /\ Len(action') <= MaxActions
        /\ \A a \in DOMAIN action : a \in DOMAIN action'
    BY DEF RowsAppended
  <2> QED BY <2>1 DEF IInv, Types
<1>3. \A a \in DOMAIN action' : RowInv(action'[a])
  BY DEF IInv, RowsAppended
<1>4. \A s \in Sessions : SessionInv(s)'
  BY <1>1, SessionFrame
<1>5. \A c \in DOMAIN command' : CommandInv(c)'
  BY <1>1, CommandFrame
<1>6. WorkerInv'
  BY <1>1, WorkerFrame
<1>7. OrphanInv'
  BY OrphanFrame DEF RowsAppended
<1>8. PlanInv'
  BY <1>1, PlanFrame
<1> QED BY <1>2, <1>3, <1>4, <1>5, <1>6, <1>7, <1>8 DEF IInv

LEMMA EvaluationStep == ASSUME IInv, RunTreasuryEvaluation PROVE IInv'
<1>1. (IF cash = -1 THEN Liquidity ELSE cash) \in Int
  BY PolicyAssumption DEF IInv, Types
<1>2. RowsAppended /\ cash' \in Int
  BY <1>1, PersistFacts DEF RunTreasuryEvaluation, IInv
<1> QED BY <1>2, RowsAppendedStep DEF RunTreasuryEvaluation

LEMMA CreateAppends == ASSUME IInv, CreateTreasuryAction PROVE RowsAppended
<1> DEFINE row == [rec |-> NoRec, status |-> "recommended", executable |-> TRUE,
                   required |-> "operator", approver |-> "none"]
<1>1. row \in Row /\ RowInv(row) /\ row.status = "recommended"
  BY DEF Row, NoRec, RowInv, Status
<1>2. action' = Append(action, row) /\ Len(action) < MaxActions /\ action \in Seq(Row)
  BY DEF CreateTreasuryAction, IInv, Types
<1> HIDE DEF row
<1>3. action' \in Seq(Row) /\ Extended(action, action', row)
  BY <1>1, <1>2, ExtendedTable
<1>4. RowsAppended
  BY <1>1, <1>2, <1>3, BoundsAssumption DEF RowsAppended, Extended
<1> QED BY <1>4

LEMMA CreateStep == ASSUME IInv, CreateTreasuryAction PROVE IInv'
BY CreateAppends, RowsAppendedStep DEF CreateTreasuryAction, IInv, Types

-----------------------------------------------------------------------------
(***************************************************************************)
(* The control plane's handlers.                                           *)
(***************************************************************************)
LEMMA SameRows == ASSUME action' = action PROVE RowsGrow
BY DEF RowsGrow

LEMMA AtStepFacts ==
  ASSUME Types, NEW s \in Sessions, NEW pc \in {"idle", "approve", "insert", "queue"},
         NEW id \in Nat, AtStep(s, pc, id)
  PROVE  /\ session' \in [Sessions -> [pc : {"idle", "approve", "insert", "queue"}, id : Nat]]
         /\ session'[s].pc = pc /\ session'[s].id = id
         /\ \A t \in Sessions : t # s => session'[t] = session[t]
BY DEF Types, AtStep

(* A handler has read a row and goes on to write. *)
LEMMA ReadStep ==
  ASSUME IInv, NEW s \in Sessions, NEW a \in DOMAIN action, ApproveRead(s, a) \/ EnqueueRead(s, a)
  PROVE  IInv'
<1>1. a \in Nat
  BY DEF IInv, Types
<1>2. PICK pc \in {"approve", "insert"} :
        /\ AtStep(s, pc, a)
        /\ pc = "approve" => CanSatisfyApprovalRequirement(RoleOf[s], action[a].required)
        /\ pc = "insert" => action[a].status # "recommended"
  BY DEF ApproveRead, EnqueueRead, Enabled
<1>3. UNCHANGED <<action, command, cash, venue, worker, faults, stranded>>
  BY DEF ApproveRead, EnqueueRead
<1>4. /\ session' \in [Sessions -> [pc : {"idle", "approve", "insert", "queue"}, id : Nat]]
      /\ session'[s].pc = pc /\ session'[s].id = a
      /\ \A t \in Sessions : t # s => session'[t] = session[t]
  BY <1>1, <1>2, AtStepFacts DEF IInv
<1>5. RowsGrow
  BY <1>3, SameRows
<1>6. Types'
  <2>1. \A t \in Sessions : session'[t].pc # "idle" => session'[t].id \in DOMAIN action
    BY <1>4 DEF IInv, Types
  <2> QED BY <1>3, <1>4, <2>1 DEF IInv, Types
<1>7. ASSUME NEW t \in Sessions PROVE SessionInv(t)'
  <2>1. CASE t # s
    BY <1>4, <1>5, <2>1, SessionFrame
  <2>2. CASE t = s
    BY <1>2, <1>3, <1>4, <2>2 DEF SessionInv
  <2> QED BY <2>1, <2>2
<1>8. \A c \in DOMAIN command' : CommandInv(c)'
  BY <1>3, <1>5, CommandFrame
<1>9. WorkerInv' /\ OrphanInv' /\ PlanInv'
  BY <1>3, <1>5, WorkerFrame, OrphanFrame, PlanFrame
<1> QED BY <1>3, <1>6, <1>7, <1>8, <1>9 DEF IInv

(* A handler writes a row's status and returns. *)
(* A row is approved by a session whose role its venue accepts. *)
LEMMA ApproveWrites ==
  ASSUME IInv, NEW s \in Sessions, ApproveWrite(s)
  PROVE  /\ action' \in Seq(Row) /\ RowsGrow /\ \A a \in DOMAIN action' : RowInv(action'[a])
         /\ \E row : Updated(action, action', session[s].id, row) /\ row.status = "approved"
<1> DEFINE i == session[s].id
           role == RoleOf[s]
           row == [action[i] EXCEPT !.status = "approved", !.approver = role]
<1>0. i \in DOMAIN action /\ SessionInv(s) /\ Types /\ \A a \in DOMAIN action : RowInv(action[a])
  BY DEF IInv, Types, ApproveWrite
<1>1. action[i] \in Row /\ role \in Roles
  BY <1>0, RowFacts, RoleAssumption DEF Roles
<1>2. row \in Row /\ row.rec = action[i].rec /\ row.required = action[i].required
      /\ row.approver = role /\ row.status = "approved"
  <2> HIDE DEF i, role
  <2> QED BY <1>1 DEF Row, Roles, Status
<1>3. action' = [action EXCEPT ![i] = row] /\ CanSatisfyApprovalRequirement(role, action[i].required)
  BY <1>0 DEF ApproveWrite, SessionInv, Types
<1> HIDE DEF row, i, role
<1>4. action' \in Seq(Row) /\ Updated(action, action', i, row)
  <2>1. action \in Seq(Row)
    BY <1>0 DEF Types
  <2> QED BY <1>0, <1>2, <1>3, <2>1, UpdatedTable
<1>5. RowsGrow
  BY <1>2, <1>4 DEF RowsGrow, Updated
<1>6. RowInv(row)
  <2>1. RowInv(action[i])
    BY <1>0
  <2> QED BY <1>1, <1>2, <1>3, <2>1 DEF RowInv, Roles
<1>7. \A a \in DOMAIN action' : RowInv(action'[a])
  BY <1>0, <1>4, <1>6 DEF Updated
<1> QED BY <1>2, <1>4, <1>5, <1>7 DEF i

LEMMA WriteStep ==
  ASSUME IInv, NEW s \in Sessions, ApproveWrite(s) \/ EnqueueWrite(s)
  PROVE  IInv'
<1> DEFINE i == session[s].id
<1>1. UNCHANGED <<command, cash, venue, worker, faults, stranded>> /\ AtStep(s, "idle", 0)
  BY DEF ApproveWrite, EnqueueWrite
<1>2. /\ session' \in [Sessions -> [pc : {"idle", "approve", "insert", "queue"}, id : Nat]]
      /\ session'[s].pc = "idle" /\ session'[s].id = 0
      /\ \A t \in Sessions : t # s => session'[t] = session[t]
  <2>1. 0 \in Nat /\ "idle" \in {"idle", "approve", "insert", "queue"}
    OBVIOUS
  <2> QED BY <1>1, <2>1, AtStepFacts DEF IInv
<1>3. i \in DOMAIN action /\ SessionInv(s) /\ Types /\ \A a \in DOMAIN action : RowInv(action[a])
  BY DEF IInv, Types, ApproveWrite, EnqueueWrite
<1> HIDE DEF i
<1>4. /\ action' \in Seq(Row) /\ RowsGrow /\ \A a \in DOMAIN action' : RowInv(action'[a])
      /\ \E row : Updated(action, action', i, row) /\ row.status # "executing"
  <2>1. CASE ApproveWrite(s)
    BY <2>1, ApproveWrites DEF i
  <2>2. CASE EnqueueWrite(s)
    <3>1. action' = [action EXCEPT ![i].status = "queued"] /\ action[i].status # "recommended"
      BY <1>3, <2>2 DEF EnqueueWrite, SessionInv, i
    <3> DEFINE row == [action[i] EXCEPT !.status = "queued"]
    <3>2. "queued" \in Status \ {"recommended"} /\ "queued" # "executing"
      BY DEF Status
    <3>3. /\ action' \in Seq(Row) /\ Updated(action, action', i, row)
          /\ RowsGrow /\ \A a \in DOMAIN action' : RowInv(action'[a])
      BY <1>3, <3>1, <3>2, StatusFacts
    <3>4. row.status # "executing"
      BY <1>3, RowFacts DEF Row
    <3> HIDE DEF row
    <3> QED BY <3>3, <3>4
  <2> QED BY <2>1, <2>2
<1>5. Types'
  <2>1. Len(action') = Len(action) /\ DOMAIN action' = DOMAIN action
    BY <1>4 DEF Updated
  <2>2. \A t \in Sessions : session'[t].pc # "idle" => session'[t].id \in DOMAIN action
    BY <1>2, <1>3 DEF Types
  <2> QED BY <1>1, <1>2, <1>3, <1>4, <2>1, <2>2 DEF Types
<1>6. ASSUME NEW t \in Sessions PROVE SessionInv(t)'
  <2>1. CASE t # s
    BY <1>2, <1>4, <2>1, SessionFrame
  <2>2. CASE t = s
    BY <1>2, <2>2 DEF SessionInv
  <2> QED BY <2>1, <2>2
<1>7. \A c \in DOMAIN command' : CommandInv(c)'
  BY <1>1, <1>4, CommandFrame
<1>8. WorkerInv' /\ PlanInv'
  BY <1>1, <1>4, WorkerFrame, PlanFrame
<1>9. OrphanInv'
  <2>1. \A a \in DOMAIN action' : action'[a].status = "executing" =>
          a \in DOMAIN action /\ action[a].status = "executing"
    BY <1>4 DEF Updated
  <2> QED BY <1>1, <2>1, OrphanFrame
<1> QED BY <1>4, <1>5, <1>6, <1>7, <1>8, <1>9 DEF IInv

(* A command is inserted for an approved row. *)
LEMMA InsertStep == ASSUME IInv, NEW s \in Sessions, EnqueueInsert(s) PROVE IInv'
<1> DEFINE i == session[s].id
           cmd == [id |-> i, status |-> "pending", execution |-> "none", effects |-> 0]
<1>1. /\ UNCHANGED <<action, cash, venue, worker, faults, stranded>>
      /\ AtStep(s, "queue", i) /\ command' = Append(command, cmd)
      /\ session[s].pc = "insert" /\ Len(command) < MaxCommands
  BY DEF EnqueueInsert
<1>2. i \in DOMAIN action /\ i \in Nat /\ SessionInv(s) /\ command \in Seq(Command)
  BY <1>1 DEF IInv, Types
<1>3. action[i].status # "recommended"
  BY <1>1, <1>2 DEF SessionInv
<1>4. cmd \in Command
  BY <1>2 DEF Command
<1>5. command' \in Seq(Command) /\ Extended(command, command', cmd)
  <2> HIDE DEF cmd
  <2> QED BY <1>1, <1>2, <1>4, ExtendedTable
<1>6. /\ session' \in [Sessions -> [pc : {"idle", "approve", "insert", "queue"}, id : Nat]]
      /\ session'[s].pc = "queue" /\ session'[s].id = i
      /\ \A t \in Sessions : t # s => session'[t] = session[t]
  <2> HIDE DEF i
  <2>1. "queue" \in {"idle", "approve", "insert", "queue"}
    OBVIOUS
  <2> QED BY <1>1, <1>2, <2>1, AtStepFacts DEF IInv
<1>7. RowsGrow
  BY <1>1, SameRows
<1>8. Types'
  <2>1. \A t \in Sessions : session'[t].pc # "idle" => session'[t].id \in DOMAIN action
    BY <1>2, <1>6 DEF IInv, Types
  <2>2. Len(command') <= MaxCommands
    BY <1>1, <1>2, <1>5, BoundsAssumption DEF Extended
  <2>3. \A c \in DOMAIN command' : command'[c].id \in DOMAIN action
    BY <1>2, <1>5 DEF Extended, IInv, Types
  <2>4. \A c \in DOMAIN command : c \in DOMAIN command'
    BY <1>5 DEF Extended
  <2> QED BY <1>1, <1>5, <1>6, <2>1, <2>2, <2>3, <2>4 DEF IInv, Types
<1>9. ASSUME NEW t \in Sessions PROVE SessionInv(t)'
  <2>1. CASE t # s
    BY <1>6, <1>7, <2>1, SessionFrame
  <2>2. CASE t = s
    BY <1>1, <1>3, <1>6, <2>2 DEF SessionInv
  <2> QED BY <2>1, <2>2
<1>10. ASSUME NEW c \in DOMAIN command' PROVE CommandInv(c)'
  <2>1. CASE c \in DOMAIN command
    BY <1>5, <1>7, <2>1, CommandFrame DEF Extended
  <2>2. CASE c \notin DOMAIN command
    <3>1. command'[c] = cmd
      BY <1>5, <2>2 DEF Extended
    <3> QED BY <1>1, <1>3, <3>1 DEF CommandInv
  <2> QED BY <2>1, <2>2
<1>11. worker.pc # "idle" => command'[worker.cmd] = command[worker.cmd]
  BY <1>5 DEF Extended, IInv, Types
<1>12. WorkerInv' /\ PlanInv'
  BY <1>1, <1>7, <1>11, WorkerFrame, PlanFrame
<1>13. OrphanInv'
  <2>1. \A c \in DOMAIN command' : command'[c].execution = "executing" =>
          c \in DOMAIN command /\ command[c].execution = "executing"
    BY <1>5 DEF Extended
  <2>2. \A c \in DOMAIN command : command'[c].id = command[c].id
    BY <1>5 DEF Extended
  <2> QED BY <1>1, <2>1, <2>2, OrphanFrame
<1> QED BY <1>1, <1>8, <1>9, <1>10, <1>12, <1>13 DEF IInv

-----------------------------------------------------------------------------
(***************************************************************************)
(* The worker.  A step of it changes at most one row and one command, k.   *)
(***************************************************************************)
RowsStep ==
  /\ action' \in Seq(Row) /\ Len(action') <= MaxActions
  /\ RowsGrow
  /\ \A a \in DOMAIN action' : RowInv(action'[a])

CommandsStep(k) ==
  /\ command' \in Seq(Command) /\ Len(command') = Len(command) /\ DOMAIN command' = DOMAIN command
  /\ k \in DOMAIN command => command'[k].id = command[k].id
  /\ \A c \in DOMAIN command : c # k => command'[c] = command[c]

WorkerType ==
  /\ worker \in [pc : Steps \cup {"idle"}, cmd : Nat, idle : Int]
  /\ worker.pc = "idle" <=> worker.cmd = 0
  /\ worker.pc # "idle" => worker.cmd \in DOMAIN command

VenueType ==
  /\ venue \in [allocation : [VenueIds -> Nat], withdrawable : [VenueIds -> Nat]]
  /\ \A v \in VenueIds : venue.withdrawable[v] <= venue.allocation[v]

LEMMA WorkerStepInv ==
  ASSUME IInv, NEW k, RowsStep, CommandsStep(k), session' = session, faults' \in Nat,
         stranded' \subseteq DOMAIN command, cash' \in Int, VenueType', WorkerType',
         k \in DOMAIN command => CommandInv(k)', WorkerInv', OrphanInv', PlanInv'
  PROVE  IInv'
<1>1. \A c \in DOMAIN command : command'[c].id = command[c].id
  BY DEF CommandsStep
<1>2. Types'
  <2>1. \A c \in DOMAIN command' : command'[c].id \in DOMAIN action'
    BY <1>1 DEF IInv, Types, CommandsStep, RowsStep, RowsGrow
  <2>2. \A s \in Sessions : session'[s].pc # "idle" => session'[s].id \in DOMAIN action'
    BY DEF IInv, Types, RowsStep, RowsGrow
  <2>3. action' \in Seq(Row) /\ Len(action') <= MaxActions
    BY DEF RowsStep
  <2>4. command' \in Seq(Command) /\ Len(command') <= MaxCommands
    BY DEF CommandsStep, IInv, Types
  <2>5. session' \in [Sessions -> [pc : {"idle", "approve", "insert", "queue"}, id : Nat]]
        /\ faults' \in Nat /\ stranded' \subseteq DOMAIN command'
    BY DEF IInv, Types, CommandsStep
  <2> QED BY <2>1, <2>2, <2>3, <2>4, <2>5 DEF Types, VenueType, WorkerType
<1>3. \A s \in Sessions : SessionInv(s)'
  BY SessionFrame DEF RowsStep
<1>4. ASSUME NEW c \in DOMAIN command' PROVE CommandInv(c)'
  <2>1. CASE c # k
    BY <2>1, CommandFrame DEF RowsStep, CommandsStep
  <2> QED BY <2>1 DEF CommandsStep
<1> QED BY <1>2, <1>3, <1>4 DEF IInv, RowsStep

LEMMA SameTables ==
  ASSUME IInv
  PROVE  /\ action' = action => RowsStep
         /\ command' = command => \A k : CommandsStep(k)
         /\ venue' = venue => VenueType'
         /\ cash' = cash => cash' \in Int
         /\ faults' = faults => faults' \in Nat
         /\ stranded' = stranded => stranded' \subseteq DOMAIN command
         /\ \A pc \in Steps : worker.pc # "idle" /\ command' = command
              /\ worker' = [worker EXCEPT !.pc = pc] => WorkerType'
<1>1. action' = action => RowsStep
  BY SameRows DEF RowsStep, IInv, Types
<1>2. command' = command => \A k : CommandsStep(k)
  BY DEF CommandsStep, IInv, Types
<1>3. venue' = venue => VenueType'
  BY DEF VenueType, IInv, Types
<1>4. /\ cash' = cash => cash' \in Int
      /\ faults' = faults => faults' \in Nat
      /\ stranded' = stranded => stranded' \subseteq DOMAIN command
  BY DEF IInv, Types
<1>5. ASSUME NEW pc \in Steps, worker.pc # "idle", command' = command,
             worker' = [worker EXCEPT !.pc = pc]
      PROVE  WorkerType'
  <2>1. /\ worker \in [pc : Steps \cup {"idle"}, cmd : Nat, idle : Int]
        /\ worker.cmd # 0 /\ worker.cmd \in DOMAIN command
    BY <1>5 DEF IInv, Types
  <2>2. pc # "idle"
    BY DEF Steps, Try
  <2> QED BY <1>5, <2>1, <2>2 DEF WorkerType
<1> QED BY <1>1, <1>2, <1>3, <1>4, <1>5

LEMMA CurrentFacts ==
  ASSUME IInv, worker.pc # "idle"
  PROVE  /\ worker.cmd \in DOMAIN command /\ worker.cmd # 0
         /\ Current \in DOMAIN action /\ Current = command[worker.cmd].id
         /\ action[Current].status # "recommended"
         /\ CommandInv(worker.cmd) /\ WorkerInv
         /\ command[worker.cmd] \in Command /\ action[Current] \in Row
<1>1. worker.cmd \in DOMAIN command /\ worker.cmd # 0
  BY DEF IInv, Types
<1>2. command[worker.cmd].id \in DOMAIN action /\ CommandInv(worker.cmd) /\ WorkerInv
  BY <1>1 DEF IInv, Types
<1>3. action[command[worker.cmd].id].status # "recommended"
  BY <1>2 DEF CommandInv
<1> QED BY <1>1, <1>2, <1>3, CommandFacts, RowFacts DEF Current, IInv

(* The worker writes the status of its action. *)
LEMMA SetActionFacts ==
  ASSUME IInv, worker.pc # "idle", NEW st \in Status \ {"recommended"}, SetAction(st),
         st = "executing" => action[Current].rec.type # "none"
  PROVE  /\ RowsStep /\ DOMAIN action' = DOMAIN action
         /\ action'[Current].status = st
         /\ \A a \in DOMAIN action : a # Current => action'[a] = action[a]
<1>1. Current \in DOMAIN action /\ action[Current].status # "recommended" /\ action[Current] \in Row
  BY CurrentFacts
<1>2. /\ action' \in Seq(Row) /\ RowsGrow /\ \A a \in DOMAIN action' : RowInv(action'[a])
      /\ Updated(action, action', Current, [action[Current] EXCEPT !.status = st])
  BY <1>1, StatusFacts DEF IInv, SetAction
<1>3. [action[Current] EXCEPT !.status = st].status = st
  BY <1>1 DEF Row
<1> QED BY <1>1, <1>2, <1>3 DEF RowsStep, Updated, IInv, Types

LEMMA SetCommandStep ==
  ASSUME IInv, NEW c \in DOMAIN command,
         NEW st \in {"pending", "running", "completed", "failed"},
         NEW ex \in {"none", "executing", "completed", "failed"},
         SetCommand(c, st, ex)
  PROVE  /\ CommandsStep(c)
         /\ command'[c].id = command[c].id /\ command'[c].effects = command[c].effects
         /\ command'[c].status = st /\ command'[c].execution = ex
BY SetCommandFacts DEF CommandsStep, IInv

(* While the worker is idle, what is executing was given up. *)
LEMMA IdleFacts ==
  ASSUME IInv, NEW c \in DOMAIN command, OldestPending(c)
  PROVE  /\ worker.pc = "idle" /\ worker.cmd = 0 /\ c \in Nat /\ c # 0
         /\ command[c].status = "pending" /\ command[c].execution = "none" /\ command[c].effects = 0
         /\ command[c] \in Command /\ CommandInv(c)
         /\ command[c].id \in DOMAIN action /\ action[command[c].id] \in Row
         /\ \A d \in DOMAIN command : command[d].execution = "executing" => d \in stranded
         /\ \A a \in DOMAIN action : action[a].status = "executing" => Stranded(a)
<1>1. worker.pc = "idle" /\ command[c].status = "pending"
  BY DEF OldestPending
<1>2. CommandInv(c) /\ c \in Nat /\ c # 0 /\ worker.cmd = 0 /\ OrphanInv /\ 0 \notin DOMAIN command
  BY <1>1 DEF IInv, Types
<1>3. command[c] \in Command /\ command[c].id \in DOMAIN action
  BY CommandFacts DEF IInv
<1>4. action[command[c].id] \in Row
  BY <1>3, RowFacts DEF IInv
<1>5. command[c].execution = "none" /\ command[c].effects = 0
  BY <1>1, <1>2 DEF CommandInv
<1>6. /\ \A d \in DOMAIN command : command[d].execution = "executing" => d \in stranded
      /\ \A a \in DOMAIN action : action[a].status = "executing" => Stranded(a)
  BY <1>2 DEF OrphanInv
<1> QED BY <1>1, <1>2, <1>3, <1>4, <1>5, <1>6

LEMMA NotExecutableStep == ASSUME IInv, NEW c \in DOMAIN command, NotExecutable(c) PROVE IInv'
<1>1. OldestPending(c) /\ SetCommand(c, "failed", "none")
      /\ UNCHANGED <<action, cash, venue, session, worker, moved, faults, stranded>>
  BY DEF NotExecutable
<1>2. CommandsStep(c) /\ command'[c].effects = command[c].effects
      /\ command'[c].status = "failed" /\ command'[c].execution = "none"
  BY <1>1, SetCommandStep
<1>3. /\ RowsStep /\ VenueType' /\ cash' \in Int
      /\ faults' \in Nat /\ stranded' \subseteq DOMAIN command
  BY <1>1, SameTables
<1>4. WorkerType' /\ worker.pc = "idle"
  BY <1>1, IdleFacts DEF WorkerType, IInv, Types
<1>5. CommandInv(c)'
  BY <1>1, <1>2, IdleFacts DEF CommandInv, CommandsStep
<1>6. WorkerInv' /\ PlanInv'
  BY <1>1, <1>4 DEF WorkerInv, PlanInv
<1>7. OrphanInv'
  <2>1. \A d \in DOMAIN command' : command'[d].execution = "executing" =>
          d \in DOMAIN command /\ command[d].execution = "executing"
    BY <1>2 DEF CommandsStep
  <2>2. \A d \in DOMAIN command : command'[d].id = command[d].id
    BY <1>2 DEF CommandsStep
  <2> QED BY <1>1, <2>1, <2>2, OrphanFrame
<1> QED BY <1>1, <1>2, <1>3, <1>4, <1>5, <1>6, <1>7, WorkerStepInv

(* The worker takes up a command. *)
LEMMA TakeUpOrphans ==
  ASSUME IInv, NEW c \in DOMAIN command, OldestPending(c), CommandsStep(c), worker'.cmd = c,
         UNCHANGED <<action, stranded>>
  PROVE  OrphanInv'
<1>1. /\ \A d \in DOMAIN command : command[d].execution = "executing" => d \in stranded
      /\ \A a \in DOMAIN action : action[a].status = "executing" => Stranded(a)
  BY IdleFacts
<1>2. \A a : Stranded(a) => Stranded(a)'
  BY StrandedFrame DEF CommandsStep
<1> QED BY <1>1, <1>2 DEF OrphanInv, CommandsStep

LEMMA ExecuteBlockedStep == ASSUME IInv, NEW c \in DOMAIN command, ExecuteBlocked(c) PROVE IInv'
<1>1. /\ OldestPending(c) /\ SetCommand(c, "running", "failed")
      /\ action[command[c].id].rec.type # "none"
      /\ worker' = [pc |-> "fail_action", cmd |-> c, idle |-> 0]
      /\ UNCHANGED <<action, cash, venue, session, moved, faults, stranded>>
  BY DEF ExecuteBlocked, Executable
<1>2. CommandsStep(c) /\ command'[c].effects = command[c].effects /\ command'[c].id = command[c].id
      /\ command'[c].status = "running" /\ command'[c].execution = "failed"
  BY <1>1, SetCommandStep
<1>3. c \in Nat /\ c # 0 /\ command[c].effects = 0 /\ CommandInv(c)
  BY <1>1, IdleFacts
<1>4. /\ RowsStep /\ VenueType' /\ cash' \in Int
      /\ faults' \in Nat /\ stranded' \subseteq DOMAIN command
  BY <1>1, SameTables
<1>5. WorkerType'
  BY <1>1, <1>2, <1>3 DEF WorkerType, CommandsStep, Steps, Try
<1>6. CommandInv(c)'
  BY <1>1, <1>2, <1>3 DEF CommandInv
<1>7. WorkerInv' /\ PlanInv'
  BY <1>1, <1>2 DEF WorkerInv, PlanInv
<1>8. OrphanInv'
  BY <1>1, <1>2, TakeUpOrphans
<1> QED BY <1>1, <1>2, <1>4, <1>5, <1>6, <1>7, <1>8, WorkerStepInv

LEMMA ExecuteBudgetStep == ASSUME IInv, NEW c \in DOMAIN command, ExecuteBudget(c) PROVE IInv'
<1>1. /\ OldestPending(c) /\ SetCommand(c, "running", "executing")
      /\ action[command[c].id].rec.type = "none"
      /\ worker' = [pc |-> "complete_execution", cmd |-> c, idle |-> 0]
      /\ UNCHANGED <<action, cash, venue, session, moved, faults, stranded>>
  BY DEF ExecuteBudget, Executable
<1>2. CommandsStep(c) /\ command'[c].effects = command[c].effects /\ command'[c].id = command[c].id
      /\ command'[c].status = "running" /\ command'[c].execution = "executing"
  BY <1>1, SetCommandStep
<1>3. c \in Nat /\ c # 0 /\ command[c].effects = 0 /\ CommandInv(c)
  BY <1>1, IdleFacts
<1>4. /\ RowsStep /\ VenueType' /\ cash' \in Int
      /\ faults' \in Nat /\ stranded' \subseteq DOMAIN command
  BY <1>1, SameTables
<1>5. WorkerType'
  BY <1>1, <1>2, <1>3 DEF WorkerType, CommandsStep, Steps, Try
<1>6. CommandInv(c)'
  BY <1>1, <1>2, <1>3 DEF CommandInv
<1>7. WorkerInv' /\ PlanInv'
  BY <1>1, <1>2 DEF WorkerInv, PlanInv
<1>8. OrphanInv'
  BY <1>1, <1>2, TakeUpOrphans
<1> QED BY <1>1, <1>2, <1>4, <1>5, <1>6, <1>7, <1>8, WorkerStepInv

LEMMA EffectsIdleType ==
  ASSUME IInv, NEW c \in DOMAIN command
  PROVE  Effects(action[command[c].id].rec, Replanned(c)).idle \in Int
<1> DEFINE rec == action[command[c].id].rec
           sign == IF rec.type = "deposit" THEN 1 ELSE -1
           status == Replanned(c).status
<1>1. rec.amount \in Nat
  BY CommandFacts, RowFacts DEF IInv
<1>2. ToFixed(status.idle) \in Int
  <2>1. Liquidity \in Int /\ Snapshots \in VenueList
    BY PolicyAssumption, SnapshotsType DEF IInv
  <2>2. status = ReserveStatus(Liquidity, Snapshots, Policy)
    BY <2>1, EvaluateType DEF Replanned
  <2>3. ReserveStatus(Liquidity, Snapshots, Policy).idle = Liquidity
    BY <2>1, ReserveStatusType
  <2> HIDE DEF status
  <2> QED BY <2>1, <2>2, <2>3, ToFixedFacts
<1>3. Effects(rec, Replanned(c)).idle = ToFixed(status.idle) - sign * rec.amount
  BY DEF Effects
<1>4. sign * rec.amount \in Int
  <2> HIDE DEF rec
  <2> QED BY <1>1
<1> HIDE DEF rec, sign, status
<1>5. ToFixed(status.idle) - sign * rec.amount \in Int
  BY <1>2, <1>4
<1> QED BY <1>3, <1>5 DEF rec

LEMMA ExecuteCreateStep == ASSUME IInv, NEW c \in DOMAIN command, ExecuteCreate(c) PROVE IInv'
<1> DEFINE idle == Effects(action[command[c].id].rec, Replanned(c)).idle
<1>1. /\ OldestPending(c) /\ SetCommand(c, "running", "executing")
      /\ action[command[c].id].rec.type # "none"
      /\ ~StillBlocked(c)
      /\ worker' = [pc |-> "mark", cmd |-> c, idle |-> idle]
      /\ UNCHANGED <<action, cash, venue, session, moved, faults, stranded>>
  BY DEF ExecuteCreate, Executable
<1>2. CommandsStep(c) /\ command'[c].effects = command[c].effects /\ command'[c].id = command[c].id
      /\ command'[c].status = "running" /\ command'[c].execution = "executing"
  BY <1>1, SetCommandStep
<1>3. c \in Nat /\ c # 0 /\ command[c].effects = 0 /\ CommandInv(c)
  BY <1>1, IdleFacts
<1>4. /\ RowsStep /\ VenueType' /\ cash' \in Int
      /\ faults' \in Nat /\ stranded' \subseteq DOMAIN command
  BY <1>1, SameTables
<1>5. idle \in Int
  BY EffectsIdleType
<1> HIDE DEF idle
<1>6. WorkerType'
  BY <1>1, <1>2, <1>3, <1>5 DEF WorkerType, CommandsStep, Steps, Try
<1>7. CommandInv(c)'
  BY <1>1, <1>2, <1>3 DEF CommandInv
<1>8. WorkerInv'
  BY <1>1, <1>2, <1>3 DEF WorkerInv
<1>9. PlanInv'
  <2>1. ~StillBlocked(c)'
    BY <1>1, <1>2, <1>4, BlockedFrame DEF RowsStep
  <2> QED BY <1>1, <2>1 DEF PlanInv
<1>10. OrphanInv'
  BY <1>1, <1>2, TakeUpOrphans
<1> QED BY <1>1, <1>2, <1>4, <1>6, <1>7, <1>8, <1>9, <1>10, WorkerStepInv

(* Steps that only move the worker on: between two writes, or by throwing. *)
LEMMA MoveOn ==
  ASSUME IInv, worker.pc # "idle", NEW pc \in Steps, WorkerAt(pc),
         UNCHANGED <<command, venue, session>>, RowsStep, cash' \in Int,
         faults' \in Nat, stranded' \subseteq DOMAIN command
  PROVE  /\ worker'.pc = pc /\ worker'.cmd = worker.cmd
         /\ WorkerInv' /\ OrphanInv' /\ PlanInv' => IInv'
<1>1. PICK k \in DOMAIN command : k = worker.cmd
  BY CurrentFacts
<1>2. WorkerType' /\ CommandsStep(k) /\ VenueType'
  BY SameTables DEF WorkerAt
<1>3. CommandInv(k)'
  BY CommandFrame DEF RowsStep
<1>4. worker'.pc = pc /\ worker'.cmd = worker.cmd
  BY DEF WorkerAt, IInv, Types
<1>5. WorkerInv' /\ OrphanInv' /\ PlanInv' => IInv'
  BY <1>2, <1>3, WorkerStepInv
<1> QED BY <1>4, <1>5

LEMMA SameStranded ==
  ASSUME stranded' = stranded, command' = command
  PROVE  \A a : Stranded(a)' <=> Stranded(a)
BY DEF Stranded

LEMMA ExecuteMarkStep == ASSUME IInv, ExecuteMark PROVE IInv'
<1>1. /\ worker.pc = "mark" /\ SetAction("executing") /\ WorkerAt("venue")
      /\ UNCHANGED <<command, cash, venue, session, faults, stranded>>
  BY DEF ExecuteMark
<1>2. worker.pc # "idle" /\ "venue" \in Steps /\ "executing" \in Status \ {"recommended"}
  BY <1>1 DEF Steps, Try, Status
<1>3. /\ worker.cmd \in DOMAIN command /\ worker.cmd # 0 /\ WorkerInv
      /\ Current = command[worker.cmd].id /\ Current \in DOMAIN action
  BY <1>2, CurrentFacts
<1>4. action[Current].rec.type # "none"
  BY <1>1, <1>3 DEF WorkerInv
<1>5. /\ RowsStep /\ DOMAIN action' = DOMAIN action
      /\ \A a \in DOMAIN action : a # Current => action'[a] = action[a]
  BY <1>1, <1>2, <1>4, SetActionFacts
<1>6. worker'.pc = "venue" /\ worker'.cmd = worker.cmd /\ (WorkerInv' /\ OrphanInv' /\ PlanInv' => IInv')
  BY <1>1, <1>2, <1>5, SameTables, MoveOn
<1>7. WorkerInv'
  <2>1. action'[Current].rec = action[Current].rec
    BY <1>3, <1>5 DEF RowsStep, RowsGrow
  <2> QED BY <1>1, <1>3, <1>6, <2>1 DEF WorkerInv
<1>8. OrphanInv'
  BY <1>1, <1>3, <1>5, <1>6, SameStranded DEF OrphanInv, Current, IInv
<1>9. PlanInv'
  BY <1>1, <1>5, <1>6, PlanFrame DEF RowsStep
<1> QED BY <1>6, <1>7, <1>8, <1>9

LEMMA CashStep == ASSUME IInv, SetTreasuryCashBalance PROVE IInv'
<1>1. /\ worker.pc = "cash" /\ cash' = worker.idle /\ WorkerAt("follow_up")
      /\ UNCHANGED <<action, command, venue, session, faults, stranded>>
  BY DEF SetTreasuryCashBalance
<1>2. worker.pc # "idle" /\ "follow_up" \in Steps /\ cash' \in Int /\ RowsStep
  BY <1>1, SameTables DEF Steps, Try, IInv, Types
<1>3. worker'.pc = "follow_up" /\ worker'.cmd = worker.cmd
      /\ (WorkerInv' /\ OrphanInv' /\ PlanInv' => IInv')
  BY <1>1, <1>2, SameTables, MoveOn
<1>4. WorkerInv' /\ PlanInv'
  BY <1>1, <1>3 DEF WorkerInv, PlanInv, IInv
<1>5. OrphanInv'
  BY <1>1, <1>3, SameStranded DEF OrphanInv, Current, IInv
<1> QED BY <1>3, <1>4, <1>5

LEMMA FollowUpStep == ASSUME IInv, FollowUpEvaluation PROVE IInv'
<1>1. /\ worker.pc = "follow_up" /\ Persist(worker.idle) /\ WorkerAt("complete_execution")
      /\ UNCHANGED <<command, venue, session, faults, stranded>>
  BY DEF FollowUpEvaluation
<1>2. worker.pc # "idle" /\ "complete_execution" \in Steps /\ worker.idle \in Int
  BY <1>1 DEF Steps, Try, IInv, Types
<1>3. RowsAppended /\ cash' \in Int
  BY <1>1, <1>2, PersistFacts DEF IInv
<1>4. RowsStep
  BY <1>3, AppendedGrow DEF RowsStep, RowsAppended, IInv
<1>5. worker'.pc = "complete_execution" /\ worker'.cmd = worker.cmd
      /\ (WorkerInv' /\ OrphanInv' /\ PlanInv' => IInv')
  BY <1>1, <1>2, <1>3, <1>4, SameTables, MoveOn
<1>6. worker.cmd \in DOMAIN command /\ WorkerInv /\ Current \in DOMAIN action
      /\ Current = command[worker.cmd].id
  BY <1>2, CurrentFacts
<1>7. WorkerInv'
  <2>1. action'[Current].rec = action[Current].rec
    BY <1>4, <1>6 DEF RowsStep, RowsGrow
  <2> QED BY <1>1, <1>5, <1>6, <2>1 DEF WorkerInv
<1>8. OrphanInv'
  BY <1>1, <1>3, <1>5, SameStranded DEF OrphanInv, Current, IInv, RowsAppended
<1>9. PlanInv'
  BY <1>5 DEF PlanInv
<1> QED BY <1>5, <1>7, <1>8, <1>9

LEMMA CompleteActionStep == ASSUME IInv, CompleteAction PROVE IInv'
<1>1. /\ worker.pc = "complete_action" /\ SetAction("completed") /\ WorkerAt("audit")
      /\ UNCHANGED <<command, cash, venue, session, faults, stranded>>
  BY DEF CompleteAction
<1>2. worker.pc # "idle" /\ "audit" \in Steps /\ "completed" \in Status \ {"recommended"}
      /\ "completed" # "executing"
  BY <1>1 DEF Steps, Try, Status
<1>3. /\ worker.cmd \in DOMAIN command /\ WorkerInv
      /\ Current = command[worker.cmd].id /\ Current \in DOMAIN action
  BY <1>2, CurrentFacts
<1>4. /\ RowsStep /\ DOMAIN action' = DOMAIN action /\ action'[Current].status = "completed"
      /\ \A a \in DOMAIN action : a # Current => action'[a] = action[a]
  BY <1>1, <1>2, SetActionFacts
<1>5. worker'.pc = "audit" /\ worker'.cmd = worker.cmd /\ (WorkerInv' /\ OrphanInv' /\ PlanInv' => IInv')
  BY <1>1, <1>2, <1>4, SameTables, MoveOn
<1>6. WorkerInv'
  BY <1>1, <1>3, <1>5 DEF WorkerInv
<1>7. OrphanInv'
  BY <1>1, <1>3, <1>4, <1>5, SameStranded DEF OrphanInv, Current, IInv
<1>8. PlanInv'
  BY <1>5 DEF PlanInv
<1> QED BY <1>5, <1>6, <1>7, <1>8

(* An exception in the try block, where the catch block follows. *)
LEMMA ThrowStep == ASSUME IInv, Throw PROVE IInv'
<1>1. /\ worker.pc \in Try /\ WorkerAt("fail_execution")
      /\ UNCHANGED <<action, command, cash, venue, session, faults, stranded>>
  BY DEF Throw
<1>2. worker.pc # "idle" /\ "fail_execution" \in Steps
  BY <1>1 DEF Steps, Try
<1>3. worker.pc \notin {"fail_execution", "fail_action", "fail_command"}
  BY <1>1 DEF Try
<1>4. worker'.pc = "fail_execution" /\ worker'.cmd = worker.cmd
      /\ (WorkerInv' /\ OrphanInv' /\ PlanInv' => IInv')
  BY <1>1, <1>2, SameTables, MoveOn
<1>5. WorkerInv'
  BY <1>1, <1>2, <1>4 DEF WorkerInv, IInv
<1>6. OrphanInv'
  BY <1>1, <1>4, SameStranded DEF OrphanInv, Current, IInv
<1>7. PlanInv'
  BY <1>4 DEF PlanInv
<1> QED BY <1>4, <1>5, <1>6, <1>7

(* An exception nothing catches before the worker: the command is given up. *)
LEMMA ThrowUncaughtStep == ASSUME IInv, ThrowUncaught PROVE IInv'
<1>1. /\ WorkerAt("fail_command") /\ faults' = faults + 1 /\ stranded' = stranded \cup {worker.cmd}
      /\ UNCHANGED <<action, command, cash, venue, session>>
  BY DEF ThrowUncaught
<1>2. worker.pc # "idle" /\ "fail_command" \in Steps
  BY DEF ThrowUncaught, Steps, Try
<1>3. worker.cmd \in DOMAIN command /\ Current = command[worker.cmd].id /\ WorkerInv
  BY <1>2, CurrentFacts
<1>4. faults' \in Nat /\ stranded' \subseteq DOMAIN command
  BY <1>1, <1>3 DEF IInv, Types
<1>5. worker'.pc = "fail_command" /\ worker'.cmd = worker.cmd
      /\ (WorkerInv' /\ OrphanInv' /\ PlanInv' => IInv')
  BY <1>1, <1>2, <1>4, SameTables, MoveOn
<1>6. WorkerInv'
  BY <1>1, <1>2, <1>3, <1>5 DEF WorkerInv
<1>7. OrphanInv'
  <2>1. \A a : Stranded(a) => Stranded(a)'
    BY <1>1, StrandedFrame
  <2>2. ASSUME NEW a \in DOMAIN action, action[a].status = "executing" PROVE Stranded(a)'
    <3>1. Stranded(a) \/ Current = a
      BY <2>2 DEF OrphanInv, IInv
    <3>2. CASE Current = a
      BY <1>1, <1>3, <3>2 DEF Stranded
    <3> QED BY <2>1, <3>1, <3>2
  <2> QED BY <1>1, <1>5, <2>2 DEF OrphanInv, IInv
<1>8. PlanInv'
  BY <1>5 DEF PlanInv
<1> QED BY <1>5, <1>6, <1>7, <1>8

LEMMA FailActionStep == ASSUME IInv, FailAction PROVE IInv'
<1>1. /\ worker.pc = "fail_action" /\ SetAction("failed") /\ WorkerAt("fail_command")
      /\ UNCHANGED <<command, cash, venue, session, faults, stranded>>
  BY DEF FailAction
<1>2. worker.pc # "idle" /\ "fail_command" \in Steps /\ "failed" \in Status \ {"recommended"}
      /\ "failed" # "executing"
  BY <1>1 DEF Steps, Try, Status
<1>3. /\ worker.cmd \in DOMAIN command /\ WorkerInv
      /\ Current = command[worker.cmd].id /\ Current \in DOMAIN action
  BY <1>2, CurrentFacts
<1>4. /\ RowsStep /\ DOMAIN action' = DOMAIN action /\ action'[Current].status = "failed"
      /\ \A a \in DOMAIN action : a # Current => action'[a] = action[a]
  BY <1>1, <1>2, SetActionFacts
<1>5. worker'.pc = "fail_command" /\ worker'.cmd = worker.cmd
      /\ (WorkerInv' /\ OrphanInv' /\ PlanInv' => IInv')
  BY <1>1, <1>2, <1>4, SameTables, MoveOn
<1>6. WorkerInv'
  BY <1>1, <1>3, <1>5 DEF WorkerInv
<1>7. OrphanInv'
  BY <1>1, <1>3, <1>4, <1>5, SameStranded DEF OrphanInv, Current, IInv
<1>8. PlanInv'
  BY <1>5 DEF PlanInv
<1> QED BY <1>5, <1>6, <1>7, <1>8

(* Steps that write the worker's command. *)
LEMMA WriteCommand ==
  ASSUME IInv, worker.pc # "idle", NEW k \in DOMAIN command, k = worker.cmd,
         NEW st \in {"running", "completed", "failed"},
         NEW ex \in {"none", "executing", "completed", "failed"},
         SetCommand(worker.cmd, st, ex), UNCHANGED <<action, cash, venue, session, faults, stranded>>,
         ex = "completed" /\ action[Current].rec.type # "none" => command[k].effects = 1
  PROVE  /\ CommandsStep(k) /\ command'[k].id = command[k].id
         /\ command'[k].effects = command[k].effects
         /\ command'[k].status = st /\ command'[k].execution = ex
         /\ \A a : Stranded(a) => Stranded(a)'
         /\ WorkerType' /\ WorkerInv' /\ OrphanInv' /\ PlanInv' => IInv'
<1>1. CommandsStep(k) /\ command'[k].id = command[k].id /\ command'[k].effects = command[k].effects
      /\ command'[k].status = st /\ command'[k].execution = ex
  BY SetCommandStep
<1>2. CommandInv(k) /\ Current = command[k].id
  BY CurrentFacts
<1>3. CommandInv(k)'
  BY <1>1, <1>2 DEF CommandInv
<1>4. /\ RowsStep /\ VenueType' /\ cash' \in Int
      /\ faults' \in Nat /\ stranded' \subseteq DOMAIN command
  BY SameTables
<1>5. WorkerType' /\ WorkerInv' /\ OrphanInv' /\ PlanInv' => IInv'
  BY <1>1, <1>3, <1>4, WorkerStepInv
<1>6. \A a : Stranded(a) => Stranded(a)'
  BY <1>1, StrandedFrame DEF CommandsStep
<1> QED BY <1>1, <1>5, <1>6

LEMMA CompleteExecutionStep == ASSUME IInv, CompleteExecution PROVE IInv'
<1>1. /\ worker.pc = "complete_execution" /\ SetCommand(worker.cmd, "running", "completed")
      /\ WorkerAt("complete_action")
      /\ UNCHANGED <<action, cash, venue, session, faults, stranded>>
  BY DEF CompleteExecution
<1>2. PICK k \in DOMAIN command : k = worker.cmd
  BY <1>1, CurrentFacts
<1>3. k # 0 /\ WorkerInv /\ Current = command[k].id
      /\ (action[Current].rec.type # "none" => command[k].effects = 1)
  BY <1>1, <1>2, CurrentFacts DEF WorkerInv
<1>4. /\ CommandsStep(k) /\ command'[k].id = command[k].id
      /\ command'[k].effects = command[k].effects
      /\ command'[k].status = "running" /\ command'[k].execution = "completed"
      /\ \A a : Stranded(a) => Stranded(a)'
      /\ WorkerType' /\ WorkerInv' /\ OrphanInv' /\ PlanInv' => IInv'
  BY <1>1, <1>2, <1>3, WriteCommand
<1>5. worker' \in [pc : Steps \cup {"idle"}, cmd : Nat, idle : Int]
      /\ worker'.pc = "complete_action" /\ worker'.cmd = k
  BY <1>1, <1>2 DEF WorkerAt, IInv, Types, Steps, Try
<1>6. WorkerType'
  BY <1>3, <1>4, <1>5 DEF WorkerType, CommandsStep
<1>7. WorkerInv' /\ PlanInv'
  BY <1>4, <1>5 DEF WorkerInv, PlanInv
<1>8. OrphanInv'
  BY <1>1, <1>2, <1>3, <1>4, <1>5 DEF OrphanInv, CommandsStep, Current, IInv
<1> QED BY <1>4, <1>6, <1>7, <1>8

LEMMA FailExecutionStep == ASSUME IInv, FailExecution PROVE IInv'
<1>1. /\ worker.pc = "fail_execution" /\ SetCommand(worker.cmd, "running", "failed")
      /\ WorkerAt("fail_action")
      /\ UNCHANGED <<action, cash, venue, session, faults, stranded>>
  BY DEF FailExecution
<1>2. PICK k \in DOMAIN command : k = worker.cmd
  BY <1>1, CurrentFacts
<1>3. k # 0 /\ WorkerInv /\ Current = command[k].id
  BY <1>1, <1>2, CurrentFacts DEF WorkerInv
<1>4. /\ CommandsStep(k) /\ command'[k].id = command[k].id
      /\ command'[k].effects = command[k].effects
      /\ command'[k].status = "running" /\ command'[k].execution = "failed"
      /\ \A a : Stranded(a) => Stranded(a)'
      /\ WorkerType' /\ WorkerInv' /\ OrphanInv' /\ PlanInv' => IInv'
  BY <1>1, <1>2, <1>3, WriteCommand
<1>5. worker' \in [pc : Steps \cup {"idle"}, cmd : Nat, idle : Int]
      /\ worker'.pc = "fail_action" /\ worker'.cmd = k
  BY <1>1, <1>2 DEF WorkerAt, IInv, Types, Steps, Try
<1>6. WorkerType'
  BY <1>3, <1>4, <1>5 DEF WorkerType, CommandsStep
<1>7. WorkerInv' /\ PlanInv'
  BY <1>1, <1>3, <1>4, <1>5 DEF WorkerInv, PlanInv
<1>8. OrphanInv'
  BY <1>1, <1>2, <1>3, <1>4, <1>5 DEF OrphanInv, CommandsStep, Current, IInv
<1> QED BY <1>4, <1>6, <1>7, <1>8

(* The worker settles its command and is idle again. *)
LEMMA SettleStep == ASSUME IInv, Finish \/ FailCommand PROVE IInv'
<1>1. PICK st \in {"completed", "failed"} : SetCommand(worker.cmd, st, command[worker.cmd].execution)
  BY DEF Finish, FailCommand
<1>2. /\ worker.pc \in {"audit", "fail_command"}
      /\ worker' = [pc |-> "idle", cmd |-> 0, idle |-> 0]
      /\ UNCHANGED <<action, cash, venue, session, faults, stranded>>
  BY DEF Finish, FailCommand
<1>3. PICK k \in DOMAIN command : k = worker.cmd
  BY <1>2, CurrentFacts
<1>4. /\ WorkerInv /\ CommandInv(k) /\ Current = command[k].id /\ command[k] \in Command
      /\ command[k].execution # "executing" \/ k \in stranded
  BY <1>2, <1>3, CurrentFacts DEF WorkerInv
<1>5. /\ command[k].execution \in {"none", "executing", "completed", "failed"}
      /\ command[k].execution = "completed" /\ action[Current].rec.type # "none" =>
           command[k].effects = 1
  BY <1>4 DEF Command, CommandInv
<1>6. /\ CommandsStep(k) /\ command'[k].execution = command[k].execution
      /\ \A a : Stranded(a) => Stranded(a)'
      /\ WorkerType' /\ WorkerInv' /\ OrphanInv' /\ PlanInv' => IInv'
  BY <1>1, <1>2, <1>3, <1>5, WriteCommand
<1>7. WorkerType'
  BY <1>2, <1>6 DEF WorkerType
<1>8. WorkerInv' /\ PlanInv'
  BY <1>2 DEF WorkerInv, PlanInv
<1>9. OrphanInv'
  <2>1. OrphanInv
    BY DEF IInv
  <2>2. \A c \in DOMAIN command' : command'[c].execution = "executing" => c \in stranded
    BY <1>3, <1>4, <1>6, <2>1 DEF OrphanInv, CommandsStep
  <2>3. \A a \in DOMAIN action : action[a].status = "executing" => Stranded(a)
    BY <1>2, <2>1 DEF OrphanInv
  <2> QED BY <1>2, <1>6, <2>2, <2>3 DEF OrphanInv
<1> QED BY <1>6, <1>7, <1>8, <1>9

(* The process dies; its adapters start again from their configuration. *)
LEMMA CrashStep == ASSUME IInv, Crash PROVE IInv'
<1>1. /\ faults' = faults + 1
      /\ worker' = [pc |-> "idle", cmd |-> 0, idle |-> 0]
      /\ venue' = [allocation |-> Initially("allocation"), withdrawable |-> Initially("withdrawable")]
      /\ stranded' = stranded \cup ({worker.cmd} \ {0})
      /\ UNCHANGED <<action, command, cash, session>>
  BY DEF Crash
<1>2. RowsGrow
  BY <1>1, SameRows
<1>3. Types'
  <2>1. /\ venue' \in [allocation : [VenueIds -> Nat], withdrawable : [VenueIds -> Nat]]
        /\ \A v \in VenueIds : venue'.withdrawable[v] <= venue'.allocation[v]
    BY <1>1, InitiallyType
  <2>2. faults \in Nat /\ faults' \in Nat
    BY <1>1 DEF IInv, Types
  <2>3. stranded' \subseteq DOMAIN command
    BY <1>1 DEF IInv, Types
  <2> QED BY <1>1, <2>1, <2>2, <2>3 DEF IInv, Types
<1>4. \A s \in Sessions : SessionInv(s)'
  BY <1>1, <1>2, SessionFrame
<1>5. \A c \in DOMAIN command' : CommandInv(c)'
  BY <1>1, <1>2, CommandFrame
<1>6. WorkerInv' /\ PlanInv'
  BY <1>1 DEF WorkerInv, PlanInv
<1>7. OrphanInv'
  <2>1. \A a : Stranded(a) => Stranded(a)'
    BY <1>1, StrandedFrame
  <2>2. ASSUME NEW a \in DOMAIN action, action[a].status = "executing" PROVE Stranded(a)'
    <3>1. Stranded(a) \/ (worker.cmd # 0 /\ Current = a)
      BY <2>2 DEF OrphanInv, IInv
    <3>2. CASE worker.cmd # 0 /\ Current = a
      BY <1>1, <3>2 DEF Stranded, Current
    <3> QED BY <2>1, <3>1, <3>2
  <2>3. \A c \in DOMAIN command : command[c].execution = "executing" => c \in stranded'
    <3>1. \A c \in DOMAIN command : c # 0
      BY DEF IInv, Types
    <3> QED BY <1>1, <3>1 DEF OrphanInv, IInv
  <2> QED BY <1>1, <2>2, <2>3 DEF OrphanInv
<1>8. \A a \in DOMAIN action' : RowInv(action'[a])
  BY <1>1 DEF IInv
<1> QED BY <1>3, <1>4, <1>5, <1>6, <1>7, <1>8 DEF IInv

(* The venue's books after a call that went through. *)
LEMMA VenueMovesFacts ==
  ASSUME IInv, VenueMoves
  PROVE  LET rec  == action[Current].rec
             move == IF rec.type = "deposit" THEN rec.amount ELSE 0 - rec.amount
         IN /\ rec.venue \in VenueIds /\ rec.amount \in Nat /\ rec.amount > 0
            /\ venue'.allocation \in [VenueIds -> Nat] /\ venue'.withdrawable \in [VenueIds -> Nat]
            /\ venue' \in [allocation : [VenueIds -> Nat], withdrawable : [VenueIds -> Nat]]
            /\ \A v \in VenueIds :
                 /\ v # rec.venue => /\ venue'.allocation[v] = venue.allocation[v]
                                     /\ venue'.withdrawable[v] = venue.withdrawable[v]
                 /\ v = rec.venue =>
                      /\ venue'.allocation[v] = AtLeastZero(venue.allocation[v] + move)
                      /\ venue'.withdrawable[v] = AtLeastZero(venue.withdrawable[v] + move)
<1> DEFINE rec == action[Current].rec
           sign == IF rec.type = "deposit" THEN 1 ELSE -1
           move == IF rec.type = "deposit" THEN rec.amount ELSE 0 - rec.amount
           after(f) == [f EXCEPT ![rec.venue] = AtLeastZero(@ + sign * rec.amount)]
<1>1. /\ worker.pc = "venue" /\ rec.amount > 0
      /\ venue' = [allocation |-> after(venue.allocation), withdrawable |-> after(venue.withdrawable)]
  BY DEF VenueMoves
<1>2. Current \in DOMAIN action /\ action[Current] \in Row /\ rec.type # "none"
  BY <1>1, CurrentFacts DEF WorkerInv
<1>3. rec.venue \in VenueIds /\ rec.amount \in Nat
  BY <1>2 DEF IInv, RowInv, Row
<1> HIDE DEF rec
<1>4. sign * rec.amount = move /\ move \in Int
  BY <1>3
<1> HIDE DEF sign, move
<1>5. ASSUME NEW f \in [VenueIds -> Nat]
      PROVE  /\ after(f) \in [VenueIds -> Nat]
             /\ \A v \in VenueIds : after(f)[v] =
                  IF v = rec.venue THEN AtLeastZero(f[v] + move) ELSE f[v]
  <2>1. f[rec.venue] + move \in Int
    BY <1>3, <1>4
  <2>2. AtLeastZero(f[rec.venue] + move) \in Nat
    BY <2>1, AtLeastZeroType
  <2> QED BY <1>3, <1>4, <2>2
<1>6. venue.allocation \in [VenueIds -> Nat] /\ venue.withdrawable \in [VenueIds -> Nat]
  BY DEF IInv, Types
<1>7. venue'.allocation = after(venue.allocation) /\ venue'.withdrawable = after(venue.withdrawable)
  <2> HIDE DEF after
  <2> QED BY <1>1
<1> HIDE DEF after
<1>8. /\ venue'.allocation \in [VenueIds -> Nat] /\ venue'.withdrawable \in [VenueIds -> Nat]
      /\ venue' \in [allocation : [VenueIds -> Nat], withdrawable : [VenueIds -> Nat]]
  BY <1>1, <1>5, <1>6, <1>7
<1> QED BY <1>1, <1>3, <1>5, <1>6, <1>7, <1>8 DEF rec, move

LEMMA VenueMovesStep == ASSUME IInv, VenueMoves PROVE IInv'
<1> DEFINE rec == action[Current].rec
           move == IF rec.type = "deposit" THEN rec.amount ELSE 0 - rec.amount
<1>1. /\ worker.pc = "venue" /\ WorkerAt("cash")
      /\ command' = [command EXCEPT ![worker.cmd].effects = @ + 1]
      /\ UNCHANGED <<action, cash, session, faults, stranded>>
  BY DEF VenueMoves
<1>2. PICK k \in DOMAIN command : k = worker.cmd
  BY <1>1, CurrentFacts
<1>3. /\ k # 0 /\ WorkerInv /\ CommandInv(k) /\ Current = command[k].id /\ command[k] \in Command
      /\ rec.type # "none" /\ command[k].execution = "executing" /\ command[k].effects = 0
      /\ command[k].status = "running"
  BY <1>1, <1>2, CurrentFacts DEF WorkerInv
<1>4. VenueType'
  <2>1. /\ rec.amount \in Nat
        /\ venue' \in [allocation : [VenueIds -> Nat], withdrawable : [VenueIds -> Nat]]
        /\ \A v \in VenueIds :
             /\ v # rec.venue => /\ venue'.allocation[v] = venue.allocation[v]
                                 /\ venue'.withdrawable[v] = venue.withdrawable[v]
             /\ v = rec.venue =>
                  /\ venue'.allocation[v] = AtLeastZero(venue.allocation[v] + move)
                  /\ venue'.withdrawable[v] = AtLeastZero(venue.withdrawable[v] + move)
    BY VenueMovesFacts
  <2> HIDE DEF rec
  <2>2. move \in Int
    BY <2>1
  <2> HIDE DEF move
  <2>3. \A v \in VenueIds : /\ venue.allocation[v] \in Nat /\ venue.withdrawable[v] \in Nat
                            /\ venue.withdrawable[v] <= venue.allocation[v]
    BY DEF IInv, Types
  <2>4. ASSUME NEW x \in Int, NEW y \in Int, x <= y PROVE AtLeastZero(x) <= AtLeastZero(y)
    <3>1. /\ AtLeastZero(x) \in {x, 0} /\ AtLeastZero(y) >= y /\ AtLeastZero(y) >= 0
          /\ AtLeastZero(x) \in Int /\ AtLeastZero(y) \in Int
      <4>1. 0 \in Int
        OBVIOUS
      <4>2. Max({x, 0}) \in {x, 0}
        BY <4>1, PairBounds, Zenon
      <4>3. AtLeastZero(x) \in Nat /\ AtLeastZero(y) \in Nat /\ y <= AtLeastZero(y)
        BY AtLeastZeroType
      <4> QED BY <4>2, <4>3 DEF AtLeastZero
    <3> QED BY <2>4, <3>1
  <2>5. ASSUME NEW v \in VenueIds PROVE venue'.withdrawable[v] <= venue'.allocation[v]
    <3>1. CASE v # rec.venue
      BY <2>1, <2>3, <3>1
    <3>2. CASE v = rec.venue
      <4>1. /\ venue.withdrawable[v] + move \in Int /\ venue.allocation[v] + move \in Int
            /\ venue.withdrawable[v] + move <= venue.allocation[v] + move
        BY <2>2, <2>3
      <4>2. AtLeastZero(venue.withdrawable[v] + move) <= AtLeastZero(venue.allocation[v] + move)
        BY <2>4, <4>1
      <4> QED BY <2>1, <3>2, <4>2
    <3> QED BY <3>1, <3>2
  <2> QED BY <2>1, <2>5 DEF VenueType
<1> HIDE DEF rec, move
<1>5. /\ CommandsStep(k) /\ command'[k].id = command[k].id /\ command'[k].effects = 1
      /\ command'[k].execution = "executing" /\ command'[k].status = "running"
  <2> DEFINE row == [command[k] EXCEPT !.effects = 1]
  <2>1. /\ row \in Command /\ row.id = command[k].id /\ row.effects = 1
        /\ row.execution = "executing" /\ row.status = "running"
    BY <1>3 DEF Command
  <2>2. command' = [command EXCEPT ![k] = row]
    BY <1>1, <1>2, <1>3 DEF IInv, Types
  <2> HIDE DEF row
  <2>3. command \in Seq(Command)
    BY DEF IInv, Types
  <2>4. command' \in Seq(Command) /\ Updated(command, command', k, row)
    BY <2>1, <2>2, <2>3, UpdatedTable
  <2> QED BY <2>1, <2>4 DEF CommandsStep, Updated
<1>6. RowsStep /\ cash' \in Int /\ faults' \in Nat /\ stranded' \subseteq DOMAIN command
  BY <1>1, SameTables
<1>7. worker' \in [pc : Steps \cup {"idle"}, cmd : Nat, idle : Int]
      /\ worker'.pc = "cash" /\ worker'.cmd = k
  BY <1>1, <1>2 DEF WorkerAt, IInv, Types, Steps, Try
<1>8. WorkerType'
  BY <1>3, <1>5, <1>7 DEF WorkerType, CommandsStep
<1>9. CommandInv(k)'
  BY <1>1, <1>3, <1>5 DEF CommandInv, rec
<1>10. WorkerInv' /\ PlanInv'
  BY <1>1, <1>3, <1>5, <1>7 DEF WorkerInv, PlanInv, rec
<1>11. OrphanInv'
  <2>1. \A a : Stranded(a) => Stranded(a)'
    BY <1>1, <1>5, StrandedFrame DEF CommandsStep
  <2> QED BY <1>1, <1>2, <1>3, <1>5, <1>7, <2>1 DEF OrphanInv, CommandsStep, Current, IInv
<1> QED BY <1>1, <1>4, <1>5, <1>6, <1>8, <1>9, <1>10, <1>11, WorkerStepInv

-----------------------------------------------------------------------------
(***************************************************************************)
(* The theorems.                                                           *)
(***************************************************************************)
LEMMA InvStep == ASSUME IInv, [Next]_vars PROVE IInv'
<1>1. CASE RunTreasuryEvaluation
  BY <1>1, EvaluationStep
<1>2. CASE CreateTreasuryAction
  BY <1>2, CreateStep
<1>3. ASSUME NEW s \in Sessions, SessionStep(s) PROVE IInv'
  <2>1. ASSUME NEW a \in DOMAIN action, ApproveRead(s, a) \/ EnqueueRead(s, a) PROVE IInv'
    BY <2>1, ReadStep
  <2>2. CASE ApproveWrite(s) \/ EnqueueWrite(s)
    BY <2>2, WriteStep
  <2>3. CASE EnqueueInsert(s)
    BY <2>3, InsertStep
  <2> QED BY <1>3, <2>1, <2>2, <2>3 DEF SessionStep
<1>4. CASE ExecutionStep
  <2>1. ASSUME NEW c \in DOMAIN command,
               NotExecutable(c) \/ ExecuteBudget(c) \/ ExecuteBlocked(c) \/ ExecuteCreate(c)
        PROVE  IInv'
    BY <2>1, NotExecutableStep, ExecuteBudgetStep, ExecuteBlockedStep, ExecuteCreateStep
  <2>2. CASE ExecuteMark
    BY <2>2, ExecuteMarkStep
  <2>3. CASE VenueMoves
    BY <2>3, VenueMovesStep
  <2>4. CASE SetTreasuryCashBalance
    BY <2>4, CashStep
  <2>5. CASE FollowUpEvaluation
    BY <2>5, FollowUpStep
  <2>6. CASE CompleteExecution
    BY <2>6, CompleteExecutionStep
  <2>7. CASE CompleteAction
    BY <2>7, CompleteActionStep
  <2>8. CASE Finish \/ FailCommand
    BY <2>8, SettleStep
  <2>9. CASE Throw \/ ThrowUncaught
    BY <2>9, ThrowStep, ThrowUncaughtStep
  <2>10. CASE FailExecution
    BY <2>10, FailExecutionStep
  <2>11. CASE FailAction
    BY <2>11, FailActionStep
  <2> QED BY <1>4, <2>1, <2>2, <2>3, <2>4, <2>5, <2>6, <2>7, <2>8, <2>9, <2>10, <2>11 DEF ExecutionStep
<1>5. CASE Crash
  BY <1>5, CrashStep
<1>6. CASE UNCHANGED vars
  <2>1. RowsGrow /\ UNCHANGED <<action, command, cash, venue, session, worker, faults, stranded>>
    BY <1>6, SameRows DEF vars
  <2>2. Types' /\ (\A a \in DOMAIN action' : RowInv(action'[a]))
    BY <2>1 DEF IInv, Types
  <2>3. (\A s \in Sessions : SessionInv(s)') /\ (\A c \in DOMAIN command' : CommandInv(c)')
    BY <2>1, SessionFrame, CommandFrame
  <2>4. WorkerInv' /\ OrphanInv' /\ PlanInv'
    BY <2>1, WorkerFrame, OrphanFrame, PlanFrame
  <2> QED BY <2>2, <2>3, <2>4 DEF IInv
<1> QED BY <1>1, <1>2, <1>3, <1>4, <1>5, <1>6 DEF Next

(* The inductive invariant: where each row, handler and step of the worker *)
(* can be, whatever interleaves with it.                                   *)
THEOREM Invariance == Spec => []IInv
<1>1. Init => IInv
  BY InitInv
<1>2. IInv /\ [Next]_vars => IInv'
  BY InvStep
<1> QED BY <1>1, <1>2, PTL DEF Spec

(* What IInv says of money: types, approval, completion, orphans. *)
LEMMA InvImpliesFunds == IInv => FundsAreControlled
<1> SUFFICES ASSUME IInv PROVE FundsAreControlled
  OBVIOUS
<1>1. TypeOK
  <2>1. \A a \in DOMAIN action : action[a] \in Row
    BY RowFacts DEF IInv
  <2>2. ASSUME NEW c \in DOMAIN command
        PROVE  /\ command[c].id \in DOMAIN action
               /\ command[c].status \in {"pending", "running", "completed", "failed"}
               /\ command[c].execution \in {"none", "executing", "completed", "failed"}
    BY CommandFacts DEF IInv, Command
  <2>3. \A v \in VenueIds : 0 <= venue.withdrawable[v] /\ venue.withdrawable[v] <= venue.allocation[v]
    BY DEF IInv, Types
  <2>4. \A s \in Sessions : session[s].pc \in {"idle", "approve", "insert", "queue"}
    BY DEF IInv, Types
  <2>5. worker.pc \in Try \cup {"idle", "mark", "fail_execution", "fail_action", "fail_command"}
    BY DEF IInv, Types, Steps
  <2> QED BY <2>1, <2>2, <2>3, <2>4, <2>5 DEF TypeOK, IInv, Types
<1>2. LiveNeedsAdmin
  <2> SUFFICES ASSUME NEW c \in DOMAIN command, command[c].effects > 0,
                      Capabilities[action[command[c].id].rec.venue].mode = "live"
               PROVE  action[command[c].id].approver = "admin"
    BY DEF LiveNeedsAdmin
  <2> DEFINE row == action[command[c].id]
  <2>1. command[c].id \in DOMAIN action /\ command[c].effects = 1 /\ CommandInv(c)
    BY CommandFacts DEF IInv, Command
  <2>2. row.rec.type # "none" /\ row.status # "recommended" /\ RowInv(row)
    BY <2>1 DEF CommandInv, IInv
  <2>3. row.required = "admin"
    BY <2>2 DEF RowInv, ApprovalRequirement
  <2> QED BY <2>2, <2>3 DEF RowInv, CanSatisfyApprovalRequirement
<1>3. CompletedMoved
  BY DEF IInv, CompletedMoved, CommandInv
<1>4. NoOrphans
  <2>1. OrphanInv /\ stranded \subseteq DOMAIN command /\ 0 \notin DOMAIN command
    BY DEF IInv, Types
  <2>2. \A a : Stranded(a) => \E c \in stranded : c # 0 /\ command[c].id = a
    BY <2>1 DEF Stranded
  <2> QED BY <2>1, <2>2 DEF OrphanInv, NoOrphans, Current
<1> QED BY <1>1, <1>2, <1>3, <1>4 DEF FundsAreControlled

(* Treasury funds are controlled for any number of sessions, venues,       *)
(* actions, commands and faults: money moved at a live venue has an        *)
(* admin's approval, an execution that says completed moved it, and a row  *)
(* says executing only for the worker's command or for one given up where  *)
(* no statement closes rows.                                               *)
THEOREM FundsAreControlledHolds == Spec => []FundsAreControlled
<1>1. Spec => []IInv
  BY Invariance
<1>2. IInv => FundsAreControlled
  BY InvImpliesFunds
<1> QED BY <1>1, <1>2, PTL

(* What the plan made before execution has ruled out for a deposit. *)
LEMMA UnblockedDeposit ==
  ASSUME NEW rec, rec.type = "deposit", NEW evaluation, NEW cap,
         BlockedReasons(rec, evaluation, Policy, cap, Mode) = {}
  PROVE  /\ \E i \in DOMAIN evaluation.venues : evaluation.venues[i].id = rec.venue
         /\ ~(rec.amount > ToFixed(evaluation.status.idle))
         /\ ~OverConcentrated(rec, evaluation, Policy)
<1> DEFINE blocks == DepositBlocks(rec, evaluation, Policy)
<1>1. \E i \in DOMAIN evaluation.venues : evaluation.venues[i].id = rec.venue
  BY DEF BlockedReasons
<1>2. Holding(blocks) = {}
  BY <1>1 DEF BlockedReasons
<1>3. /\ "insufficient_idle_capital" \in DOMAIN blocks
      /\ blocks["insufficient_idle_capital"] = (rec.amount > ToFixed(evaluation.status.idle))
      /\ "venue_concentration_breach" \in DOMAIN blocks
      /\ blocks["venue_concentration_breach"] = OverConcentrated(rec, evaluation, Policy)
  BY DEF DepositBlocks
<1> HIDE DEF blocks
<1>4. ~blocks["insufficient_idle_capital"] /\ ~blocks["venue_concentration_breach"]
  BY <1>2, <1>3 DEF Holding
<1> QED BY <1>1, <1>3, <1>4

CapKept ==
  \A v \in VenueIds :
    venue'.allocation[v] > venue.allocation[v] /\ faults' = faults =>
      100 * venue'.allocation[v] <=
        Policy.maxPctPerVenue * ToFixed(ReserveStatus(Liquidity, Snapshots, Policy).total)

LEMMA DepositKeepsCap == ASSUME IInv, VenueMoves PROVE CapKept
<1> DEFINE rec == action[Current].rec
           move == IF rec.type = "deposit" THEN rec.amount ELSE 0 - rec.amount
           ev == Replanned(worker.cmd)
           total == ToFixed(ReserveStatus(Liquidity, Snapshots, Policy).total)
<1> SUFFICES ASSUME NEW v \in VenueIds, venue'.allocation[v] > venue.allocation[v]
             PROVE  100 * venue'.allocation[v] <= Policy.maxPctPerVenue * total
  BY DEF CapKept
<1>1. venue.allocation[v] \in Nat
  BY DEF IInv, Types
<1>2. /\ rec.amount \in Nat /\ rec.amount > 0
      /\ v # rec.venue => venue'.allocation[v] = venue.allocation[v]
      /\ v = rec.venue => venue'.allocation[v] = AtLeastZero(venue.allocation[v] + move)
  BY VenueMovesFacts
<1>3. v = rec.venue /\ venue'.allocation[v] = AtLeastZero(venue.allocation[v] + move)
  BY <1>1, <1>2
<1>4. rec.type = "deposit" /\ venue'.allocation[v] = venue.allocation[v] + rec.amount
  <2> HIDE DEF rec
  <2>1. move \in Int
    BY <1>2
  <2>2. venue.allocation[v] + move \in Int
    BY <1>1, <2>1
  <2>3. CASE rec.type = "deposit"
    BY <1>1, <1>2, <1>3, <2>2, <2>3, AtLeastZeroType
  <2>4. CASE rec.type # "deposit"
    <3>1. AtLeastZero(venue.allocation[v] + move) \in {venue.allocation[v] + move, 0}
      <4>1. 0 \in Int
        OBVIOUS
      <4>2. \A x \in Int : Max({x, 0}) \in {x, 0}
        BY <4>1, PairBounds, Zenon
      <4> QED BY <2>2, <4>2 DEF AtLeastZero
    <3> QED BY <1>1, <1>2, <1>3, <2>4, <3>1
  <2> QED BY <2>3, <2>4
<1>5. Liquidity \in Int /\ Snapshots \in VenueList
      /\ \A i \in DOMAIN Snapshots : Snapshots[i].allocation = venue.allocation[Snapshots[i].id]
  BY SnapshotsType, PolicyAssumption DEF IInv
<1>6. ev.status = ReserveStatus(Liquidity, Snapshots, Policy) /\ ev.venues = Snapshots
  BY <1>5, EvaluateType DEF Replanned
<1>7. ~StillBlocked(worker.cmd) /\ Current = command[worker.cmd].id
  BY CurrentFacts DEF IInv, PlanInv, VenueMoves
<1>8. BlockedReasons(rec, ev, Policy, Capabilities[rec.venue], Mode) = {}
  BY <1>7 DEF StillBlocked
<1>9. /\ \E i \in DOMAIN ev.venues : ev.venues[i].id = rec.venue
      /\ ~(rec.amount > ToFixed(ev.status.idle))
      /\ ~OverConcentrated(rec, ev, Policy)
  <2> HIDE DEF rec, ev
  <2> QED BY <1>4, <1>8, UnblockedDeposit
<1>10. VenueOf(ev, rec.venue).allocation = venue.allocation[v]
  <2> DEFINE i == CHOOSE i \in DOMAIN ev.venues : ev.venues[i].id = rec.venue
  <2>1. i \in DOMAIN ev.venues /\ ev.venues[i].id = rec.venue
    <3> HIDE DEF ev, rec
    <3> QED BY <1>9
  <2>2. VenueOf(ev, rec.venue) = ev.venues[i]
    BY DEF VenueOf
  <2> HIDE DEF i, ev, rec
  <2> QED BY <1>3, <1>5, <1>6, <2>1, <2>2
<1>11. total > 0 /\ total \in Int
  <2> DEFINE st == ReserveStatus(Liquidity, Snapshots, Policy)
  <2>1. /\ st.total \in Int /\ st.idle = Liquidity /\ st.allocated \in Nat
        /\ st.total = Liquidity + st.allocated
    BY <1>5, ReserveStatusType
  <2>2. ~(rec.amount > ToFixed(Liquidity))
    <3> HIDE DEF rec, ev
    <3> QED BY <1>6, <1>9, <2>1
  <2> HIDE DEF st, rec
  <2>3. Liquidity <= st.total
    BY <1>5, <2>1
  <2>4. ToFixed(Liquidity) <= ToFixed(st.total) /\ ToFixed(Liquidity) \in Int /\ ToFixed(st.total) \in Int
    BY <1>5, <2>1, <2>3, ToFixedFacts
  <2>5. ToFixed(st.total) > 0
    BY <1>2, <2>2, <2>4
  <2> QED BY <2>4, <2>5 DEF st
<1>12. ~(100 * Effects(rec, ev).target > Policy.maxPctPerVenue * total)
  <2>1. OverConcentrated(rec, ev, Policy) <=>
          total > 0 /\ 100 * Effects(rec, ev).target > Policy.maxPctPerVenue * total
    <3> HIDE DEF ev, rec
    <3> QED BY <1>6 DEF OverConcentrated
  <2> HIDE DEF ev, rec, total
  <2> QED BY <1>9, <1>11, <2>1
<1>13. Effects(rec, ev).target = venue.allocation[v] + rec.amount
  <2>1. Effects(rec, ev).target = AtLeastZero(VenueOf(ev, rec.venue).allocation + 1 * rec.amount)
    <3> HIDE DEF ev, rec
    <3> QED BY <1>4 DEF Effects
  <2> HIDE DEF ev, rec
  <2>2. VenueOf(ev, rec.venue).allocation + 1 * rec.amount = venue.allocation[v] + rec.amount
        /\ venue.allocation[v] + rec.amount \in Int /\ 0 <= venue.allocation[v] + rec.amount
    BY <1>1, <1>2, <1>10
  <2> QED BY <2>1, <2>2, AtLeastZeroType
<1> HIDE DEF rec, ev, total
<1>14. 100 * venue'.allocation[v] \in Int /\ Policy.maxPctPerVenue * total \in Int
  BY <1>1, <1>2, <1>4, <1>11, PolicyAssumption
<1> QED BY <1>4, <1>12, <1>13, <1>14

LEMMA OnlyVenueMovesPays ==
  ASSUME IInv, [Next]_vars, ~VenueMoves, faults' = faults
  PROVE  venue' = venue
<1>1. faults \in Nat
  BY DEF IInv, Types
<1>2. ~Crash
  BY <1>1 DEF Crash
<1>3. CASE RunTreasuryEvaluation \/ CreateTreasuryAction
  BY <1>3 DEF RunTreasuryEvaluation, CreateTreasuryAction
<1>4. ASSUME NEW s \in Sessions, SessionStep(s) PROVE venue' = venue
  BY <1>4 DEF SessionStep, ApproveRead, EnqueueRead, ApproveWrite, EnqueueInsert, EnqueueWrite
<1>5. CASE ExecutionStep
  BY <1>5 DEF ExecutionStep, NotExecutable, ExecuteBudget, ExecuteBlocked, ExecuteCreate, ExecuteMark,
     SetTreasuryCashBalance, FollowUpEvaluation, CompleteExecution, CompleteAction, Finish, Throw,
     ThrowUncaught, FailExecution, FailAction, FailCommand
<1>6. CASE UNCHANGED vars
  BY <1>6 DEF vars
<1> QED BY <1>2, <1>3, <1>4, <1>5, <1>6 DEF Next

(* A deposit is made only if the venue's share, on the books as they are   *)
(* when the venue is called, stays within the policy's cap, however old    *)
(* the approval and however many deposits were approved beside it.         *)
THEOREM DepositWithinCapHolds == Spec => DepositWithinCap
<1>1. IInv /\ [Next]_vars => CapKept
  <2> SUFFICES ASSUME IInv, [Next]_vars PROVE CapKept
    OBVIOUS
  <2>1. CASE VenueMoves
    BY <2>1, DepositKeepsCap
  <2>2. CASE ~VenueMoves
    <3>1. \A v \in VenueIds : venue.allocation[v] \in Nat
      BY DEF IInv, Types
    <3> SUFFICES ASSUME faults' = faults PROVE CapKept
      BY DEF CapKept
    <3>2. venue' = venue
      BY <2>2, OnlyVenueMovesPays
    <3> QED BY <3>1, <3>2 DEF CapKept
  <2> QED BY <2>1, <2>2
<1>2. IInv /\ [Next]_vars =>
        [\A v \in VenueIds :
           venue'.allocation[v] > venue.allocation[v] /\ faults' = faults =>
             100 * venue'.allocation[v] <=
               Policy.maxPctPerVenue * ToFixed(ReserveStatus(Liquidity, Snapshots, Policy).total)]_vars
  BY <1>1 DEF CapKept
<1> QED BY <1>2, Invariance, PTL DEF Spec, DepositWithinCap

-----------------------------------------------------------------------------
(***************************************************************************)
(* The refinement of ApprovedExecution.                                    *)
(***************************************************************************)
Granted == {a \in DOMAIN action : action[a].status # "recommended"}
Orders  == [c \in DOMAIN command |-> command[c].id]
Moves   == [c \in DOMAIN command |-> command[c].effects]

SameGranted == Granted' = Granted
SameOrders  == Orders' = Orders /\ Moves' = Moves

(* What a step is to the abstract specification. *)
AbstractStep ==
  \/ SameGranted /\ SameOrders
  \/ \E a \in ActionIds : Granted' = Granted \cup {a} /\ SameOrders
  \/ \E a \in ActionIds \cap Granted :
       Orders' = Append(Orders, a) /\ Moves' = Append(Moves, 0) /\ SameGranted
  \/ \E n \in DOMAIN Orders :
       Moves[n] = 0 /\ Moves' = [Moves EXCEPT ![n] = 1] /\ Orders' = Orders /\ SameGranted

LEMMA GrantedFrame ==
  /\ action' = action => SameGranted
  /\ RowsAppended => SameGranted
  /\ \A i \in DOMAIN action :
       /\ DOMAIN action' = DOMAIN action
       /\ action[i].status # "recommended" /\ action'[i].status # "recommended"
       /\ \A a \in DOMAIN action : a # i => action'[a] = action[a]
       => SameGranted
BY DEF SameGranted, Granted, RowsAppended

LEMMA OrdersFrame ==
  /\ command' = command => SameOrders
  /\ \A k \in DOMAIN command :
       CommandsStep(k) /\ command'[k].effects = command[k].effects => SameOrders
BY DEF SameOrders, Orders, Moves, CommandsStep

LEMMA SessionImplements ==
  ASSUME IInv, NEW s \in Sessions, SessionStep(s) PROVE AbstractStep
<1> DEFINE i == session[s].id
<1>0. DOMAIN action \subseteq ActionIds
  BY BoundsAssumption DEF IInv, Types, ActionIds
<1>1. ASSUME NEW a \in DOMAIN action, ApproveRead(s, a) \/ EnqueueRead(s, a) PROVE AbstractStep
  <2>1. action' = action /\ command' = command
    BY <1>1 DEF ApproveRead, EnqueueRead
  <2> QED BY <2>1, GrantedFrame, OrdersFrame DEF AbstractStep
<1>2. CASE ApproveWrite(s)
  <2>1. /\ action' = [action EXCEPT ![i].status = "approved", ![i].approver = RoleOf[s]]
        /\ command' = command /\ i \in DOMAIN action
    BY <1>2 DEF ApproveWrite, IInv, Types
  <2>2. CanSatisfyApprovalRequirement(RoleOf[s], action[i].required) /\ RoleOf[s] \in Roles
    BY <1>2, RoleAssumption DEF ApproveWrite, IInv, SessionInv, Roles
  <2> HIDE DEF i
  <2>3. \E row : Updated(action, action', i, row) /\ row.status = "approved"
    BY <1>2, ApproveWrites DEF i
  <2>4. action'[i].status = "approved"
    BY <2>1, <2>3 DEF Updated
  <2>5. Granted' = Granted \cup {i}
    BY <2>1, <2>3, <2>4 DEF Granted, Updated
  <2> QED BY <1>0, <2>1, <2>5, OrdersFrame DEF AbstractStep
<1>3. CASE EnqueueWrite(s)
  <2>1. /\ action' = [action EXCEPT ![i].status = "queued"]
        /\ command' = command /\ i \in DOMAIN action /\ action[i].status # "recommended"
    BY <1>3 DEF EnqueueWrite, IInv, Types, SessionInv
  <2> HIDE DEF i
  <2>2. "queued" \in Status \ {"recommended"} /\ "queued" # "executing"
    BY DEF Status
  <2>3. Updated(action, action', i, [action[i] EXCEPT !.status = "queued"])
    BY <2>1, <2>2, StatusFacts DEF IInv
  <2>4. action'[i].status = "queued"
    <3>1. action[i] \in Row
      BY <2>1, RowFacts DEF IInv
    <3>2. [action[i] EXCEPT !.status = "queued"].status = "queued"
      BY <3>1 DEF Row
    <3> QED BY <2>1, <2>3, <3>2 DEF Updated
  <2>5. SameGranted
    BY <2>1, <2>3, <2>4, GrantedFrame DEF Updated
  <2> QED BY <2>1, <2>5, OrdersFrame DEF AbstractStep
<1>4. CASE EnqueueInsert(s)
  <2> DEFINE cmd == [id |-> i, status |-> "pending", execution |-> "none", effects |-> 0]
  <2>1. /\ action' = action /\ command' = Append(command, cmd)
        /\ i \in DOMAIN action /\ action[i].status # "recommended"
    BY <1>4 DEF EnqueueInsert, IInv, Types, SessionInv
  <2>2. command \in Seq(Command) /\ cmd \in Command /\ i \in Nat
    BY <2>1 DEF IInv, Types, Command
  <2>3. command' \in Seq(Command) /\ Extended(command, command', cmd)
    <3> HIDE DEF cmd
    <3> QED BY <2>1, <2>2, ExtendedTable
  <2>4. i \in ActionIds \cap Granted
    BY <1>0, <2>1 DEF Granted
  <2>5. /\ Orders \in [DOMAIN command -> Nat] /\ Moves \in [DOMAIN command -> Nat]
        /\ Orders' \in [DOMAIN command' -> Nat] /\ Moves' \in [DOMAIN command' -> Nat]
    <3>1. \A c \in DOMAIN command : command[c].id \in Nat /\ command[c].effects \in Nat
      BY CommandFacts DEF IInv, Command
    <3>2. cmd.id \in Nat /\ cmd.effects \in Nat
      BY <2>2
    <3> HIDE DEF cmd
    <3>3. \A c \in DOMAIN command' : command'[c].id \in Nat /\ command'[c].effects \in Nat
      BY <2>3, <3>1, <3>2 DEF Extended
    <3> QED BY <3>1, <3>3 DEF Orders, Moves
  <2>6. /\ \A c \in DOMAIN command : Orders'[c] = Orders[c] /\ Moves'[c] = Moves[c]
        /\ Orders'[Len(command')] = cmd.id /\ Moves'[Len(command')] = cmd.effects
    <3> HIDE DEF cmd
    <3> QED BY <2>3 DEF Orders, Moves, Extended
  <2>7. Orders' = Append(Orders, i) /\ Moves' = Append(Moves, 0)
    <3>1. cmd.id = i /\ cmd.effects = 0
      OBVIOUS
    <3> HIDE DEF cmd, i
    <3>2. /\ Len(command) \in Nat /\ Len(command') = Len(command) + 1
          /\ DOMAIN command = 1..Len(command) /\ DOMAIN command' = 1..(Len(command) + 1)
      BY <2>2, <2>3 DEF Extended
    <3>3. Orders' = Append(Orders, Orders'[Len(command) + 1])
      BY <2>5, <2>6, <3>2, AppendedEntry
    <3>4. Moves' = Append(Moves, Moves'[Len(command) + 1])
      BY <2>5, <2>6, <3>2, AppendedEntry
    <3> QED BY <2>6, <3>1, <3>2, <3>3, <3>4
  <2>8. SameGranted
    BY <2>1, GrantedFrame
  <2> HIDE DEF i
  <2> QED BY <2>4, <2>7, <2>8 DEF AbstractStep
<1> QED BY <1>1, <1>2, <1>3, <1>4 DEF SessionStep

(* Evaluations only add rows that nobody has approved. *)
LEMMA EvaluationImplements ==
  ASSUME IInv, RunTreasuryEvaluation \/ CreateTreasuryAction \/ FollowUpEvaluation
  PROVE  AbstractStep
<1>1. command' = command
  BY DEF RunTreasuryEvaluation, CreateTreasuryAction, FollowUpEvaluation
<1>2. RowsAppended
  <2>1. CASE RunTreasuryEvaluation
    <3>1. (IF cash = -1 THEN Liquidity ELSE cash) \in Int
      BY PolicyAssumption DEF IInv, Types
    <3> QED BY <2>1, <3>1, PersistFacts DEF RunTreasuryEvaluation, IInv
  <2>2. CASE CreateTreasuryAction
    BY <2>2, CreateAppends
  <2>3. CASE FollowUpEvaluation
    <3>1. worker.idle \in Int
      BY DEF IInv, Types
    <3> QED BY <2>3, <3>1, PersistFacts DEF FollowUpEvaluation, IInv
  <2> QED BY <2>1, <2>2, <2>3
<1> QED BY <1>1, <1>2, GrantedFrame, OrdersFrame DEF AbstractStep

(* The worker takes up a command: no venue is called and no approval is    *)
(* given or taken back.                                                    *)
LEMMA TakeUpImplements ==
  ASSUME IInv, NEW c \in DOMAIN command,
         NotExecutable(c) \/ ExecuteBudget(c) \/ ExecuteBlocked(c) \/ ExecuteCreate(c)
  PROVE  AbstractStep
<1>1. SameOrders
  <2>1. PICK st \in {"pending", "running", "completed", "failed"},
             ex \in {"none", "executing", "completed", "failed"} : SetCommand(c, st, ex)
    BY DEF NotExecutable, ExecuteBudget, ExecuteBlocked, ExecuteCreate
  <2> QED BY <2>1, SetCommandStep, OrdersFrame
<1>2. action' = action
  BY DEF NotExecutable, ExecuteBudget, ExecuteBlocked, ExecuteCreate
<1> QED BY <1>1, <1>2, GrantedFrame DEF AbstractStep

(* The worker writes the status of its action. *)
LEMMA ActionWriteImplements ==
  ASSUME IInv, ExecuteMark \/ CompleteAction \/ FailAction PROVE AbstractStep
<1>1. worker.pc # "idle" /\ command' = command
  BY DEF ExecuteMark, CompleteAction, FailAction
<1>2. PICK st \in {"executing", "completed", "failed"} :
        SetAction(st) /\ (st = "executing" => worker.pc = "mark")
  BY DEF ExecuteMark, CompleteAction, FailAction
<1>3. st \in Status \ {"recommended"}
  BY DEF Status
<1>4. WorkerInv /\ Current = command[worker.cmd].id
      /\ Current \in DOMAIN action /\ action[Current].status # "recommended"
  BY <1>1, CurrentFacts
<1>5. st = "executing" => action[Current].rec.type # "none"
  BY <1>2, <1>4 DEF WorkerInv
<1>6. /\ DOMAIN action' = DOMAIN action /\ action'[Current].status = st
      /\ \A a \in DOMAIN action : a # Current => action'[a] = action[a]
  BY <1>1, <1>2, <1>3, <1>5, SetActionFacts
<1>7. SameGranted
  <2>1. PICK i \in DOMAIN action : i = Current
    BY <1>4
  <2> QED BY <1>3, <1>4, <1>6, <2>1, GrantedFrame
<1> QED BY <1>1, <1>7, OrdersFrame DEF AbstractStep

(* The worker writes the status of its command or of its execution. *)
LEMMA CommandWriteImplements ==
  ASSUME IInv, CompleteExecution \/ Finish \/ FailExecution \/ FailCommand PROVE AbstractStep
<1>1. worker.pc # "idle" /\ action' = action
  BY DEF CompleteExecution, Finish, FailExecution, FailCommand
<1>2. worker.cmd \in DOMAIN command /\ command[worker.cmd] \in Command
  BY <1>1, CurrentFacts
<1>3. PICK k \in DOMAIN command : k = worker.cmd
  BY <1>2
<1>4. command[k].execution \in {"none", "executing", "completed", "failed"}
  BY <1>2, <1>3 DEF Command
<1>5. PICK st \in {"pending", "running", "completed", "failed"},
           ex \in {"none", "executing", "completed", "failed"} : SetCommand(k, st, ex)
  BY <1>3, <1>4 DEF CompleteExecution, Finish, FailExecution, FailCommand
<1>6. SameOrders
  BY <1>5, SetCommandStep, OrdersFrame
<1> QED BY <1>1, <1>6, GrantedFrame DEF AbstractStep

(* The venue's call is the one effect of its command. *)
LEMMA VenueMovesImplements == ASSUME IInv, VenueMoves PROVE AbstractStep
<1>1. /\ worker.pc = "venue" /\ action' = action
      /\ command' = [command EXCEPT ![worker.cmd].effects = @ + 1]
  BY DEF VenueMoves
<1>2. worker.cmd \in DOMAIN command /\ command[worker.cmd].effects = 0
  BY <1>1, CurrentFacts DEF WorkerInv
<1>3. PICK k \in DOMAIN command : k = worker.cmd
  BY <1>2
<1> DEFINE cmd == [command[k] EXCEPT !.effects = 1]
<1>4. /\ command[k] \in Command /\ cmd \in Command /\ cmd.effects = 1 /\ cmd.id = command[k].id
      /\ command \in Seq(Command)
  <2>1. command[k] \in Command /\ command \in Seq(Command)
    BY CommandFacts DEF IInv, Types
  <2> QED BY <2>1 DEF Command
<1>5. command' = [command EXCEPT ![k] = cmd]
  BY <1>1, <1>2, <1>3, <1>4
<1> HIDE DEF cmd
<1>6. Updated(command, command', k, cmd)
  BY <1>4, <1>5, UpdatedTable
<1>7. Moves[k] = 0 /\ k \in DOMAIN Orders
  BY <1>2, <1>3 DEF Moves, Orders
<1>8. Moves' = [Moves EXCEPT ![k] = 1]
  BY <1>4, <1>6 DEF Moves, Updated
<1>9. Orders' = Orders
  BY <1>4, <1>6 DEF Orders, Updated
<1>10. SameGranted
  BY <1>1, GrantedFrame
<1> QED BY <1>7, <1>8, <1>9, <1>10 DEF AbstractStep

(* Every step is a step of ApprovedExecution, or none of its business. *)
LEMMA StepImplements == ASSUME IInv, [Next]_vars PROVE AbstractStep
<1>1. CASE action' = action /\ command' = command
  BY <1>1, GrantedFrame, OrdersFrame DEF AbstractStep
<1>2. CASE RunTreasuryEvaluation \/ CreateTreasuryAction \/ FollowUpEvaluation
  BY <1>2, EvaluationImplements
<1>3. CASE \E s \in Sessions : SessionStep(s)
  BY <1>3, SessionImplements
<1>4. CASE \E c \in DOMAIN command :
             NotExecutable(c) \/ ExecuteBudget(c) \/ ExecuteBlocked(c) \/ ExecuteCreate(c)
  BY <1>4, TakeUpImplements
<1>5. CASE ExecuteMark \/ CompleteAction \/ FailAction
  BY <1>5, ActionWriteImplements
<1>6. CASE CompleteExecution \/ Finish \/ FailExecution \/ FailCommand
  BY <1>6, CommandWriteImplements
<1>7. CASE VenueMoves
  BY <1>7, VenueMovesImplements
<1>8. CASE SetTreasuryCashBalance \/ Throw \/ ThrowUncaught \/ Crash \/ UNCHANGED vars
  BY <1>1, <1>8 DEF SetTreasuryCashBalance, Throw, ThrowUncaught, Crash, vars
<1> QED BY <1>2, <1>3, <1>4, <1>5, <1>6, <1>7, <1>8 DEF Next, ExecutionStep

(* Whatever handlers, worker and faults interleave to, a venue is touched  *)
(* at most once per inserted command, and a command is inserted only for   *)
(* an action that somebody approved.                                       *)
THEOREM ApprovalImplemented == Spec => ImplementsApproval
<1>1. Init => Approval!ApprovalInit
  BY DEF Init, Approval!ApprovalInit
<1>2. IInv /\ [Next]_vars => [Approval!ApprovalNext]_(Approval!approvalVars)
  <2> SUFFICES ASSUME IInv, [Next]_vars
               PROVE  [Approval!ApprovalNext]_(Approval!approvalVars)
    OBVIOUS
  <2>1. AbstractStep
    BY StepImplements
  <2>2. CASE SameGranted /\ SameOrders
    BY <2>2 DEF SameGranted, SameOrders, Granted, Orders, Moves, Approval!approvalVars
  <2>3. CASE \E a \in ActionIds : Granted' = Granted \cup {a} /\ SameOrders
    BY <2>3 DEF SameOrders, Granted, Orders, Moves, Approval!ApprovalNext, Approval!Grant
  <2>4. CASE \E a \in ActionIds \cap Granted :
               Orders' = Append(Orders, a) /\ Moves' = Append(Moves, 0) /\ SameGranted
    BY <2>4 DEF SameGranted, Granted, Orders, Moves, Approval!ApprovalNext, Approval!Order
  <2>5. CASE \E n \in DOMAIN Orders :
               Moves[n] = 0 /\ Moves' = [Moves EXCEPT ![n] = 1] /\ Orders' = Orders /\ SameGranted
    BY <2>5 DEF SameGranted, Granted, Orders, Moves, Approval!ApprovalNext, Approval!Effect
  <2> QED BY <2>1, <2>2, <2>3, <2>4, <2>5 DEF AbstractStep
<1> QED BY <1>1, <1>2, Invariance, PTL DEF Spec, ImplementsApproval, Approval!ApprovalSpec
=============================================================================
