--------------------------- MODULE WorkflowProofs ---------------------------
(***************************************************************************)
(* Theorems about the operator workflows, for every set of sessions, every *)
(* assignment of roles and every value of the bounds.                      *)
(***************************************************************************)
EXTENDS Workflows, ListTheorems

-----------------------------------------------------------------------------
(* Connector promotions.                                                   *)

(* The promotion written last is the latest one. *)
LEMMA LatestIs ==
  ASSUME NEW ps \in Seq(Cp!Promotion), NEW i \in DOMAIN ps,
         \A j \in DOMAIN ps : ps[j].updatedAt <= ps[i].updatedAt,
         \A j \in DOMAIN ps : ps[j].updatedAt = ps[i].updatedAt => j = i
  PROVE  i = CHOOSE k \in DOMAIN ps : \A j \in DOMAIN ps : ps[j].updatedAt <= ps[k].updatedAt
<1> DEFINE P(k) == \A j \in DOMAIN ps : ps[j].updatedAt <= ps[k].updatedAt
<1>0. \A j \in DOMAIN ps : ps[j] \in Cp!Promotion
  OBVIOUS
<1>1. \A j \in DOMAIN ps : ps[j].updatedAt \in Nat
  BY <1>0 DEF Cp!Promotion
<1>2. \A k \in DOMAIN ps : P(k) <=> k = i
  BY <1>1
<1> QED
  BY <1>2

(* What the invariant says of the latest promotion. *)
LEMMA LatestRowExists ==
  ASSUME Cp!TypeOK, Cp!ClockInv, promotions # <<>>
  PROVE  /\ Cp!LatestRow \in DOMAIN promotions
         /\ promotions[Cp!LatestRow].updatedAt = counts.clock
         /\ Cp!StatusNow = promotions[Cp!LatestRow].status
<1>1. PICK i \in DOMAIN promotions : promotions[i].updatedAt = counts.clock
  BY DEF Cp!ClockInv
<1>2. /\ \A j \in DOMAIN promotions : promotions[j].updatedAt <= promotions[i].updatedAt
      /\ \A j \in DOMAIN promotions : promotions[j].updatedAt = promotions[i].updatedAt => j = i
  BY <1>1 DEF Cp!ClockInv
<1>3. promotions \in Seq(Cp!Promotion)
  BY DEF Cp!TypeOK
<1>4. i = Cp!LatestRow
  BY <1>2, <1>3, LatestIs DEF Cp!LatestRow
<1>5. i # 0
  BY <1>3
<1> QED
  BY <1>1, <1>4, <1>5 DEF Cp!StatusNow

(* The evidence is a record of the classes and the verdict. *)
LEMMA EvidenceTypes ==
  ASSUME Cp!TypeOK
  PROVE  /\ Cp!Evidence.capabilityClass \in {"simulated_only", "real_readonly", "execution_capable"}
         /\ Cp!Evidence.eligible \in BOOLEAN
         /\ Cp!Evidence.eligible => Cp!Evidence.capabilityClass = "execution_capable"
BY DEF Cp!Evidence, Cp!buildConnectorReadinessEvidence, Cp!inferConnectorCapabilityClass

(* The posture of a status is one of the postures. *)
LEMMA PostureTypes ==
  ASSUME NEW class \in {"simulated_only", "real_readonly", "execution_capable"}, NEW status
  PROVE  Cp!deriveEffectivePosture(class, status) \in Cp!Postures
BY DEF Cp!deriveEffectivePosture, Cp!Postures

(* Idle is a request that is not there. *)
LEMMA IdleTypes == Cp!Idle \in Cp!Request
BY DEF Cp!Idle, Cp!Request

(* A request that is disturbed is still a request.                         *)
LEMMA RequestDisturbed ==
  ASSUME NEW me \in Cp!Request, NEW it, it = [me EXCEPT !.fresh = FALSE]
  PROVE  /\ it \in Cp!Request /\ it.pc = me.pc /\ it.kind = me.kind /\ it.row = me.row
         /\ it.from = me.from /\ it.fresh = FALSE
BY DEF Cp!Request

(* New evidence leaves every request disturbed and nothing else changed. *)
LEMMA PromotionDisturbed ==
  ASSUME Cp!PromotionInv, venue' \in Cp!Venues, session' = Cp!Disturbed,
         UNCHANGED <<promotions, history, overlap, torn>>,
         counts' \in [requests : Nat, snapshots : Nat, clock : Nat],
         counts'.clock = counts.clock
  PROVE  Cp!PromotionInv'
<1> USE DEF Cp!PromotionInv
<1>1. \A s \in PromotionSessions :
        /\ session[s] \in Cp!Request
        /\ session'[s] = [session[s] EXCEPT !.fresh = FALSE]
  BY DEF Cp!TypeOK, Cp!Disturbed
<1>2. \A s \in PromotionSessions :
        /\ session'[s] \in Cp!Request
        /\ session'[s].pc = session[s].pc /\ session'[s].kind = session[s].kind
        /\ session'[s].row = session[s].row /\ session'[s].from = session[s].from
        /\ session'[s].fresh = FALSE
  <2> SUFFICES ASSUME NEW s \in PromotionSessions
               PROVE  /\ session'[s] \in Cp!Request
                      /\ session'[s].pc = session[s].pc /\ session'[s].kind = session[s].kind
                      /\ session'[s].row = session[s].row /\ session'[s].from = session[s].from
                      /\ session'[s].fresh = FALSE
    OBVIOUS
  <2>1. PICK you, it : you = session[s] /\ it = session'[s]
    OBVIOUS
  <2>2. you \in Cp!Request /\ it = [you EXCEPT !.fresh = FALSE]
    BY <1>1, <2>1
  <2>3. /\ it \in Cp!Request /\ it.pc = you.pc /\ it.kind = you.kind /\ it.row = you.row
        /\ it.from = you.from /\ it.fresh = FALSE
    BY <2>2, RequestDisturbed
  <2> QED BY <2>1, <2>3
<1>3. session' \in [PromotionSessions -> Cp!Request]
  BY <1>2 DEF Cp!Disturbed
<1>4. Cp!TypeOK'
  BY <1>2, <1>3 DEF Cp!TypeOK
<1>5. Cp!ClockInv'
  BY <1>2 DEF Cp!ClockInv
<1>6. Cp!LatestRow' = Cp!LatestRow /\ Cp!StatusNow' = Cp!StatusNow
  BY DEF Cp!LatestRow, Cp!StatusNow
<1>7. Cp!AloneInv'
  BY <1>2, <1>6 DEF Cp!AloneInv, Cp!JudgedOn
<1>8. Cp!EvidenceInv'
  BY <1>2 DEF Cp!EvidenceInv, Cp!ApprovedOnEvidence
<1>9. Cp!HistoryInv'
  BY <1>2 DEF Cp!HistoryInv, Cp!EventsChain, Cp!LastLedTo, Cp!LastEvent, Cp!NextEvent, Cp!Outcome
<1> QED
  BY <1>4, <1>5, <1>7, <1>8, <1>9

(* A request is judged. *)
LEMMA PromotionJudged ==
  ASSUME Cp!PromotionInv, NEW s \in PromotionSessions, NEW kind \in Cp!Kinds, Cp!Judge(s, kind)
  PROVE  Cp!PromotionInv'
<1> USE DEF Cp!PromotionInv
<1> DEFINE new == [Cp!Idle EXCEPT !.pc = "write", !.kind = kind]
<1>1. /\ new \in Cp!Request /\ new.pc = "write" /\ new.kind = kind /\ new.fresh = TRUE
  BY DEF Cp!Idle, Cp!Request
<1>2. /\ session' = [session EXCEPT ![s] = new]
      /\ UNCHANGED <<venue, promotions, history, torn>>
      /\ counts' = [counts EXCEPT !.requests = @ + 1]
      /\ overlap' = (overlap \/ \E z \in PromotionSessions : session[z].pc # "idle")
      /\ session[s].pc = "idle"
      /\ Cp!Acceptable(s, kind)
  BY DEF Cp!Judge
<1> HIDE DEF new
<1>3. /\ session \in [PromotionSessions -> Cp!Request]
      /\ counts \in [requests : Nat, snapshots : Nat, clock : Nat]
      /\ overlap \in BOOLEAN
  BY DEF Cp!TypeOK
<1>4. /\ session' \in [PromotionSessions -> Cp!Request]
      /\ session'[s] = new
      /\ \A t \in PromotionSessions : t # s => session'[t] = session[t]
  BY <1>1, <1>2, <1>3
<1>5. /\ counts' \in [requests : Nat, snapshots : Nat, clock : Nat]
      /\ counts'.clock = counts.clock
  BY <1>2, <1>3
<1>6. Cp!TypeOK'
  <2>1. overlap' \in BOOLEAN
    BY <1>2
  <2> QED
    BY <1>1, <1>2, <1>4, <1>5, <2>1 DEF Cp!TypeOK
<1>7. Cp!LatestRow' = Cp!LatestRow /\ Cp!StatusNow' = Cp!StatusNow /\ Cp!Evidence' = Cp!Evidence
  BY <1>2 DEF Cp!LatestRow, Cp!StatusNow, Cp!Evidence
<1>8. /\ kind # "request" => promotions # <<>>
      /\ Cp!StatusNow \in Cp!JudgedOn(kind)
      /\ kind = "approve" => Cp!Evidence.eligible
  <2>1. CASE kind = "request"
    <3>1. Cp!StatusNow \in Cp!Statuses \cup {"not_requested"}
      <4>1. CASE promotions = <<>>
        BY <4>1 DEF Cp!StatusNow, Cp!LatestRow
      <4>2. CASE promotions # <<>>
        <5>1. \A i \in DOMAIN promotions : promotions[i] \in Cp!Promotion
          BY DEF Cp!TypeOK
        <5> QED BY <4>2, <5>1, LatestRowExists DEF Cp!Promotion
      <4> QED BY <4>1, <4>2
    <3> QED
      BY <1>2, <2>1, <3>1 DEF Cp!Acceptable, Cp!JudgedOn, Cp!Statuses
  <2>2. CASE kind # "request"
    <3>1. Cp!StatusNow # "not_requested"
      BY <1>2, <2>2 DEF Cp!Acceptable
    <3>2. promotions # <<>>
      BY <3>1 DEF Cp!StatusNow, Cp!LatestRow
    <3> QED
      BY <1>2, <2>2, <3>2 DEF Cp!Acceptable, Cp!JudgedOn
  <2> QED BY <2>1, <2>2
<1>9. Cp!ClockInv'
  BY <1>1, <1>2, <1>4, <1>5, <1>8 DEF Cp!ClockInv, Cp!Kinds, Cp!Decisions
<1>10. Cp!AloneInv'
  <2> SUFFICES ASSUME ~overlap' PROVE Cp!AloneInv'
    BY DEF Cp!AloneInv
  <2>1. ~overlap /\ \A z \in PromotionSessions : session[z].pc = "idle"
    BY <1>2, <1>3
  <2>2. \A t \in PromotionSessions : session'[t].pc # "idle" => t = s
    BY <1>4, <2>1
  <2>3. \A i \in DOMAIN promotions : promotions[i].status \in Cp!Standing => i = Cp!LatestRow
    BY <2>1 DEF Cp!AloneInv
  <2>4. \A t \in PromotionSessions :
          session'[t].pc = "write" => Cp!StatusNow \in Cp!JudgedOn(session'[t].kind)
    BY <1>1, <1>4, <1>8, <2>2
  <2> QED
    BY <1>2, <1>7, <2>2, <2>3, <2>4 DEF Cp!AloneInv
<1>11. Cp!EvidenceInv'
  BY <1>1, <1>2, <1>4, <1>7, <1>8 DEF Cp!EvidenceInv, Cp!ApprovedOnEvidence
<1>12. Cp!HistoryInv'
  <2> SUFFICES ASSUME ~overlap', NEW i \in DOMAIN promotions' \ torn'
               PROVE  /\ Cp!EventsChain(i)'
                      /\ Cp!LastLedTo(i, promotions[i].status)'
                      /\ \A t \in PromotionSessions : session'[t].pc # "record"
    BY DEF Cp!HistoryInv
  <2>1. ~overlap /\ \A z \in PromotionSessions : session[z].pc = "idle"
    BY <1>2, <1>3
  <2>2. Cp!EventsChain(i) /\ Cp!LastLedTo(i, promotions[i].status)
    BY <1>2, <2>1 DEF Cp!HistoryInv
  <2>3. Cp!EventsChain(i)' /\ Cp!LastLedTo(i, promotions[i].status)'
    BY <1>2, <2>2 DEF Cp!EventsChain, Cp!LastLedTo, Cp!LastEvent, Cp!NextEvent
  <2> QED
    BY <1>1, <1>4, <2>1, <2>3
<1> QED
  BY <1>6, <1>9, <1>10, <1>11, <1>12

(* A request becomes the latest promotion. *)
LEMMA PromotionRequested ==
  ASSUME Cp!PromotionInv, NEW s \in PromotionSessions, Cp!requestConnectorPromotion(s)
  PROVE  Cp!PromotionInv'
<1> USE DEF Cp!PromotionInv
<1> DEFINE n == Len(promotions) + 1
           class == Cp!Evidence.capabilityClass
           p == [status |-> "pending_review", updatedAt |-> counts.clock + 1, eligible |-> FALSE,
                 fresh |-> session[s].fresh,
                 posture |-> Cp!deriveEffectivePosture(class, "pending_review")]
           me == [session[s] EXCEPT !.pc = "record", !.row = n]
<1>1. /\ session[s].pc = "write" /\ session[s].kind = "request"
      /\ promotions' = Append(promotions, p)
      /\ counts' = [counts EXCEPT !.clock = @ + 1]
      /\ session' = [session EXCEPT ![s] = me]
      /\ UNCHANGED <<venue, history, overlap, torn>>
  BY DEF Cp!requestConnectorPromotion
<1>2. /\ session \in [PromotionSessions -> Cp!Request]
      /\ counts \in [requests : Nat, snapshots : Nat, clock : Nat]
      /\ promotions \in Seq(Cp!Promotion)
      /\ Cp!TypeOK
  BY DEF Cp!TypeOK
<1>3. p \in Cp!Promotion /\ p.status = "pending_review" /\ p.updatedAt = counts.clock + 1
  <2>1. Cp!deriveEffectivePosture(class, "pending_review") \in Cp!Postures
    BY <1>2, EvidenceTypes, PostureTypes
  <2>2. session[s].fresh \in BOOLEAN /\ counts.clock + 1 \in Nat
    BY <1>2 DEF Cp!Request
  <2> QED BY <2>1, <2>2 DEF Cp!Promotion, Cp!Statuses
<1>4. /\ me \in Cp!Request /\ me.pc = "record" /\ me.row = n /\ me.kind = "request"
      /\ me.from = session[s].from
  <2>1. n \in Nat
    BY <1>2
  <2> QED BY <1>1, <1>2, <2>1 DEF Cp!Request
<1>5. /\ counts' \in [requests : Nat, snapshots : Nat, clock : Nat]
      /\ counts'.clock = counts.clock + 1
  BY <1>1, <1>2
<1> HIDE DEF p, me
<1>6. /\ promotions' \in Seq(Cp!Promotion)
      /\ DOMAIN promotions' = DOMAIN promotions \cup {n}
      /\ n \notin DOMAIN promotions
      /\ promotions'[n] = p
      /\ \A i \in DOMAIN promotions : promotions'[i] = promotions[i]
  BY <1>1, <1>2, <1>3
<1> HIDE DEF n
<1>7. /\ session' \in [PromotionSessions -> Cp!Request]
      /\ session'[s] = me
      /\ \A t \in PromotionSessions : t # s => session'[t] = session[t]
  BY <1>1, <1>2, <1>4
<1>8. Cp!TypeOK'
  BY <1>1, <1>2, <1>4, <1>5, <1>6, <1>7 DEF Cp!TypeOK, Cp!Kinds
<1>9. \A i \in DOMAIN promotions : promotions[i].updatedAt <= counts.clock /\ promotions[i].updatedAt \in Nat
  <2>1. \A i \in DOMAIN promotions : promotions[i] \in Cp!Promotion
    BY <1>2
  <2> QED BY <2>1 DEF Cp!Promotion, Cp!ClockInv
<1>10. counts.clock \in Nat
  BY <1>2
<1>11. Cp!ClockInv'
  <2>1. \A i \in DOMAIN promotions' : promotions'[i].updatedAt <= counts'.clock
    BY <1>3, <1>5, <1>6, <1>9, <1>10
  <2>2. \A i, j \in DOMAIN promotions' :
          promotions'[i].updatedAt = promotions'[j].updatedAt => i = j
    BY <1>3, <1>6, <1>9, <1>10 DEF Cp!ClockInv
  <2>3. promotions' # <<>> /\ n \in DOMAIN promotions' /\ promotions'[n].updatedAt = counts'.clock
    BY <1>3, <1>5, <1>6
  <2> QED BY <2>1, <2>2, <2>3 DEF Cp!ClockInv
<1>12. Cp!LatestRow' = n
  <2>1. \A j \in DOMAIN promotions' : promotions'[j].updatedAt <= promotions'[n].updatedAt
    BY <1>3, <1>6, <1>9, <1>10
  <2>2. \A j \in DOMAIN promotions' : promotions'[j].updatedAt = promotions'[n].updatedAt => j = n
    BY <1>3, <1>6, <1>9, <1>10
  <2>3. n \in DOMAIN promotions' /\ promotions' # <<>>
    BY <1>6
  <2> QED BY <1>6, <2>1, <2>2, <2>3, LatestIs DEF Cp!LatestRow
<1>13. Cp!AloneInv'
  <2> SUFFICES ASSUME ~overlap' PROVE Cp!AloneInv'
    BY DEF Cp!AloneInv
  <2>1. /\ \A t \in PromotionSessions : session[t].pc # "idle" => t = s
        /\ \A i \in DOMAIN promotions : promotions[i].status \in Cp!Standing => i = Cp!LatestRow
        /\ Cp!StatusNow \in {"not_requested", "rejected", "suspended"}
    BY <1>1 DEF Cp!AloneInv, Cp!JudgedOn
  <2>2. \A t \in PromotionSessions : session'[t].pc # "idle" => t = s
    BY <1>7, <2>1
  <2>3. \A i \in DOMAIN promotions : promotions[i].status \notin Cp!Standing
    <3> SUFFICES ASSUME NEW i \in DOMAIN promotions, promotions[i].status \in Cp!Standing
                 PROVE  FALSE
      OBVIOUS
    <3>1. promotions # <<>>
      BY <1>2
    <3>2. Cp!StatusNow = promotions[i].status
      BY <1>2, <2>1, <3>1, LatestRowExists
    <3> QED BY <2>1, <3>2 DEF Cp!Standing
  <2>4. \A i \in DOMAIN promotions' : promotions'[i].status \in Cp!Standing => i = Cp!LatestRow'
    BY <1>6, <1>12, <2>3
  <2>5. \A t \in PromotionSessions : session'[t].pc # "write"
    BY <1>4, <1>7, <2>1
  <2> QED BY <2>2, <2>4, <2>5 DEF Cp!AloneInv
<1>14. Cp!EvidenceInv'
  <2>1. Cp!Evidence' = Cp!Evidence
    BY <1>1 DEF Cp!Evidence
  <2> QED
    BY <1>3, <1>4, <1>6, <1>7, <2>1 DEF Cp!EvidenceInv, Cp!ApprovedOnEvidence
<1>15. Cp!HistoryInv'
  <2> SUFFICES ASSUME ~overlap' PROVE Cp!HistoryInv'
    BY DEF Cp!HistoryInv
  <2>1. ~overlap /\ \A t \in PromotionSessions : session[t].pc # "idle" => t = s
    BY <1>1 DEF Cp!AloneInv
  <2>2. \A k \in DOMAIN history : history[k].row # n
    BY <1>6 DEF Cp!TypeOK
  <2>3. \A t \in PromotionSessions : session'[t].pc = "record" => t = s
    BY <1>7, <2>1
  <2>4. ASSUME NEW i \in DOMAIN promotions' \ torn'
        PROVE  /\ Cp!EventsChain(i)'
               /\ \/ Cp!LastLedTo(i, promotions[i].status)'
                  \/ \E t \in PromotionSessions : session'[t].pc = "record" /\ session'[t].row = i
               /\ \A t \in PromotionSessions : session'[t].pc = "record" /\ session'[t].row = i =>
                    /\ promotions'[i].status = Cp!Outcome(session'[t].kind)
                    /\ \/ \A k \in DOMAIN history' : history'[k].row # i
                       \/ Cp!LastLedTo(i, session[t].from)'
    <3>1. CASE i = n
      <4>1. Cp!EventsChain(i)'
        BY <1>1, <2>2, <3>1 DEF Cp!EventsChain
      <4> QED
        BY <1>1, <1>3, <1>4, <1>6, <1>7, <2>2, <2>3, <3>1, <4>1 DEF Cp!Outcome
    <3>2. CASE i # n
      <4>1. i \in DOMAIN promotions \ torn /\ promotions'[i] = promotions[i]
        BY <1>1, <1>6, <3>2
      <4>2. \A t \in PromotionSessions : session[t].pc # "record"
        BY <1>1, <2>1
      <4>3. Cp!EventsChain(i) /\ Cp!LastLedTo(i, promotions[i].status)
        BY <2>1, <4>1, <4>2 DEF Cp!HistoryInv
      <4>4. Cp!EventsChain(i)' /\ Cp!LastLedTo(i, promotions[i].status)'
        BY <1>1, <4>1, <4>3 DEF Cp!EventsChain, Cp!LastLedTo, Cp!LastEvent, Cp!NextEvent
      <4>5. \A t \in PromotionSessions : session'[t].pc = "record" => session'[t].row # i
        BY <1>4, <1>7, <2>3, <3>2
      <4> QED BY <4>4, <4>5
    <3> QED BY <3>1, <3>2
  <2> QED BY <2>4 DEF Cp!HistoryInv
<1> QED
  BY <1>8, <1>11, <1>13, <1>14, <1>15

(* A decision is written to the latest promotion. *)
LEMMA PromotionDecided ==
  ASSUME Cp!PromotionInv, NEW s \in PromotionSessions, Cp!DecideConnectorPromotion(s)
  PROVE  Cp!PromotionInv'
<1> USE DEF Cp!PromotionInv
<1> DEFINE n == Cp!LatestRow
           to == Cp!Decisions[session[s].kind]
           class == Cp!Evidence.capabilityClass
           p == [status |-> to, updatedAt |-> counts.clock + 1, fresh |-> session[s].fresh,
                 posture |-> Cp!deriveEffectivePosture(class, to),
                 eligible |-> to = "approved" /\ Cp!Evidence.eligible]
           me == [session[s] EXCEPT !.pc = "record", !.row = n, !.from = promotions[n].status]
<1>1. /\ session[s].pc = "write" /\ session[s].kind \in DOMAIN Cp!Decisions
      /\ promotions' = [promotions EXCEPT ![n] = p]
      /\ counts' = [counts EXCEPT !.clock = @ + 1]
      /\ session' = [session EXCEPT ![s] = me]
      /\ UNCHANGED <<venue, history, overlap, torn>>
  BY DEF Cp!DecideConnectorPromotion
<1>2. /\ session \in [PromotionSessions -> Cp!Request]
      /\ counts \in [requests : Nat, snapshots : Nat, clock : Nat]
      /\ promotions \in Seq(Cp!Promotion)
      /\ Cp!TypeOK
  BY DEF Cp!TypeOK
<1>0. /\ n \in DOMAIN promotions /\ promotions[n].updatedAt = counts.clock
      /\ promotions[n].status = Cp!StatusNow
      /\ promotions[n] \in Cp!Promotion
  BY <1>1, <1>2, LatestRowExists DEF Cp!ClockInv
<1>00. /\ to \in {"approved", "rejected", "suspended"}
       /\ to = "approved" <=> session[s].kind = "approve"
       /\ to = "suspended" <=> session[s].kind = "suspend"
       /\ to = Cp!Outcome(session[s].kind)
  BY <1>1 DEF Cp!Decisions, Cp!Outcome
<1> HIDE DEF to
<1>3. /\ p \in Cp!Promotion /\ p.status = to /\ p.updatedAt = counts.clock + 1
      /\ p.fresh = session[s].fresh /\ p.eligible = (to = "approved" /\ Cp!Evidence.eligible)
      /\ p.posture = Cp!deriveEffectivePosture(class, to)
  <2>1. Cp!deriveEffectivePosture(class, to) \in Cp!Postures
    BY <1>2, EvidenceTypes, PostureTypes
  <2>2. session[s].fresh \in BOOLEAN /\ counts.clock + 1 \in Nat
    BY <1>2 DEF Cp!Request
  <2> QED BY <1>00, <2>1, <2>2 DEF Cp!Promotion, Cp!Statuses
<1>4. /\ me \in Cp!Request /\ me.pc = "record" /\ me.row = n /\ me.kind = session[s].kind
      /\ me.from = promotions[n].status
  <2>1. n \in Nat
    BY <1>0, <1>2
  <2>2. promotions[n].status \in Cp!Statuses
    BY <1>0 DEF Cp!Promotion
  <2>3. session[s] \in Cp!Request
    BY <1>2
  <2>4. PICK you, it, was, m : you = session[s] /\ was = promotions[n].status /\ it = me /\ m = n
    OBVIOUS
  <2>5. /\ you \in Cp!Request /\ was \in Cp!Statuses /\ m \in Nat
        /\ it = [you EXCEPT !.pc = "record", !.row = m, !.from = was]
    BY <2>1, <2>2, <2>3, <2>4
  <2>6. it \in Cp!Request /\ it.pc = "record" /\ it.row = m /\ it.kind = you.kind /\ it.from = was
    BY <2>5 DEF Cp!Request
  <2> QED BY <2>4, <2>6
<1>5. /\ counts' \in [requests : Nat, snapshots : Nat, clock : Nat]
      /\ counts'.clock = counts.clock + 1
  BY <1>1, <1>2
<1> HIDE DEF p, me, n
<1>6. /\ promotions' \in Seq(Cp!Promotion)
      /\ DOMAIN promotions' = DOMAIN promotions
      /\ promotions'[n] = p
      /\ \A i \in DOMAIN promotions : i # n => promotions'[i] = promotions[i]
  <2>1. promotions' \in Seq(Cp!Promotion) /\ Updated(promotions, promotions', n, p)
    BY <1>0, <1>1, <1>2, <1>3, UpdatedTable
  <2> QED BY <1>0, <1>1, <1>2, <2>1 DEF Updated
<1>7. /\ session' \in [PromotionSessions -> Cp!Request]
      /\ session'[s] = me
      /\ \A t \in PromotionSessions : t # s => session'[t] = session[t]
  BY <1>1, <1>2, <1>4
<1>8. Cp!TypeOK'
  BY <1>0, <1>1, <1>2, <1>4, <1>5, <1>6, <1>7 DEF Cp!TypeOK
<1>9. \A i \in DOMAIN promotions : promotions[i].updatedAt <= counts.clock /\ promotions[i].updatedAt \in Nat
  <2>1. \A i \in DOMAIN promotions : promotions[i] \in Cp!Promotion
    BY <1>2
  <2> QED BY <2>1 DEF Cp!Promotion, Cp!ClockInv
<1>10. counts.clock \in Nat
  BY <1>2
<1>11. Cp!ClockInv'
  <2>1. \A i \in DOMAIN promotions' : promotions'[i].updatedAt <= counts'.clock
    BY <1>3, <1>5, <1>6, <1>9, <1>10
  <2>2. \A i, j \in DOMAIN promotions' :
          promotions'[i].updatedAt = promotions'[j].updatedAt => i = j
    <3> SUFFICES ASSUME NEW i \in DOMAIN promotions', NEW j \in DOMAIN promotions',
                        promotions'[i].updatedAt = promotions'[j].updatedAt
                 PROVE  i = j
      OBVIOUS
    <3>1. i # n => promotions'[i].updatedAt <= counts.clock
      BY <1>6, <1>9
    <3>2. j # n => promotions'[j].updatedAt <= counts.clock
      BY <1>6, <1>9
    <3>3. promotions'[n].updatedAt = counts.clock + 1
      BY <1>3, <1>6
    <3>4. i # n /\ j # n => i = j
      BY <1>6 DEF Cp!ClockInv
    <3> QED BY <1>10, <3>1, <3>2, <3>3, <3>4
  <2>3. promotions' # <<>> /\ n \in DOMAIN promotions' /\ promotions'[n].updatedAt = counts'.clock
    BY <1>0, <1>3, <1>5, <1>6
  <2> QED BY <2>1, <2>2, <2>3 DEF Cp!ClockInv
<1>12. Cp!LatestRow' = n
  <2>1. \A j \in DOMAIN promotions' : promotions'[j].updatedAt <= promotions'[n].updatedAt
    BY <1>3, <1>6, <1>9, <1>10
  <2>2. \A j \in DOMAIN promotions' : promotions'[j].updatedAt = promotions'[n].updatedAt => j = n
    BY <1>3, <1>6, <1>9, <1>10
  <2>3. n \in DOMAIN promotions' /\ promotions' # <<>>
    BY <1>0, <1>6
  <2> QED BY <1>6, <2>1, <2>2, <2>3, LatestIs DEF Cp!LatestRow
<1>13. Cp!AloneInv'
  <2> SUFFICES ASSUME ~overlap' PROVE Cp!AloneInv'
    BY DEF Cp!AloneInv
  <2>1. /\ \A t \in PromotionSessions : session[t].pc # "idle" => t = s
        /\ \A i \in DOMAIN promotions : promotions[i].status \in Cp!Standing => i = n
    BY <1>1 DEF Cp!AloneInv, n
  <2>2. \A t \in PromotionSessions : session'[t].pc # "idle" => t = s
    BY <1>7, <2>1
  <2>4. \A i \in DOMAIN promotions' : promotions'[i].status \in Cp!Standing => i = Cp!LatestRow'
    BY <1>6, <1>12, <2>1
  <2>5. \A t \in PromotionSessions : session'[t].pc # "write"
    BY <1>4, <1>7, <2>1
  <2> QED BY <2>2, <2>4, <2>5 DEF Cp!AloneInv
<1>14. Cp!EvidenceInv'
  <2>1. Cp!Evidence' = Cp!Evidence
    BY <1>1 DEF Cp!Evidence
  <2>2. ASSUME to = "approved"
        PROVE  \/ p.eligible /\ p.posture = "approved_for_live"
               \/ ~p.fresh /\ ~p.eligible
    <3>1. CASE Cp!Evidence.eligible
      BY <1>2, <1>3, <2>2, <3>1, EvidenceTypes DEF Cp!deriveEffectivePosture
    <3>2. CASE ~Cp!Evidence.eligible
      <4>1. ~session[s].fresh
        BY <1>00, <1>1, <2>2, <3>2 DEF Cp!EvidenceInv
      <4> QED BY <1>3, <3>2, <4>1
    <3> QED BY <3>1, <3>2
  <2>3. Cp!ApprovedOnEvidence'
    BY <1>3, <1>6, <2>2 DEF Cp!EvidenceInv, Cp!ApprovedOnEvidence
  <2>4. ASSUME NEW t \in PromotionSessions, session'[t].pc = "write", session'[t].kind = "approve",
               session'[t].fresh
        PROVE  Cp!Evidence'.eligible
    <3>1. t # s
      BY <1>4, <1>7, <2>4
    <3> QED BY <1>7, <2>1, <2>4, <3>1 DEF Cp!EvidenceInv
  <2> QED
    BY <2>3, <2>4 DEF Cp!EvidenceInv
<1>15. Cp!HistoryInv'
  <2> SUFFICES ASSUME ~overlap' PROVE Cp!HistoryInv'
    BY DEF Cp!HistoryInv
  <2>1. ~overlap /\ \A t \in PromotionSessions : session[t].pc # "idle" => t = s
    BY <1>1 DEF Cp!AloneInv
  <2>2. \A t \in PromotionSessions : session[t].pc # "record"
    BY <1>1, <2>1
  <2>3. \A t \in PromotionSessions : session'[t].pc = "record" => t = s
    BY <1>7, <2>1
  <2>4. ASSUME NEW i \in DOMAIN promotions' \ torn'
        PROVE  /\ Cp!EventsChain(i)'
               /\ \/ Cp!LastLedTo(i, promotions[i].status)'
                  \/ \E t \in PromotionSessions : session'[t].pc = "record" /\ session'[t].row = i
               /\ \A t \in PromotionSessions : session'[t].pc = "record" /\ session'[t].row = i =>
                    /\ promotions'[i].status = Cp!Outcome(session'[t].kind)
                    /\ \/ \A k \in DOMAIN history' : history'[k].row # i
                       \/ Cp!LastLedTo(i, session[t].from)'
    <3>1. Cp!EventsChain(i) /\ Cp!LastLedTo(i, promotions[i].status)
      BY <1>1, <1>6, <2>1, <2>2 DEF Cp!HistoryInv
    <3>2. Cp!EventsChain(i)'
      BY <1>1, <3>1 DEF Cp!EventsChain, Cp!NextEvent
    <3>3. \E k \in DOMAIN history' : Cp!LastEvent(i, k)' /\ history'[k].to = promotions[i].status
      BY <1>1, <3>1 DEF Cp!LastLedTo, Cp!LastEvent
    <3>4. CASE i = n
      <4>1. Cp!LastLedTo(i, session[s].from)'
        BY <1>4, <1>7, <3>3, <3>4 DEF Cp!LastLedTo
      <4>2. promotions'[i].status = Cp!Outcome(session'[s].kind)
        BY <1>00, <1>3, <1>4, <1>6, <1>7, <3>4
      <4> QED
        BY <1>4, <1>7, <2>3, <3>2, <3>4, <4>1, <4>2
    <3>5. CASE i # n
      <4>1. Cp!LastLedTo(i, promotions[i].status)'
        BY <1>6, <3>3, <3>5 DEF Cp!LastLedTo
      <4>2. \A t \in PromotionSessions : session'[t].pc = "record" => session'[t].row # i
        BY <1>4, <1>7, <2>3, <3>5
      <4> QED BY <3>2, <4>1, <4>2
    <3> QED BY <3>4, <3>5
  <2> QED BY <2>4 DEF Cp!HistoryInv
<1> QED
  BY <1>8, <1>11, <1>13, <1>14, <1>15

(* Event n, appended for promotion r, leaves the chains of the others and  *)
(* continues the chain of r.                                               *)
LEMMA EventAppended ==
  ASSUME history \in Seq(Cp!Event), NEW e \in Cp!Event, history' = Append(history, e),
         NEW i, Cp!EventsChain(i),
         i = e.row => \/ \A k \in DOMAIN history : history[k].row # i
                      \/ Cp!LastLedTo(i, e.from)
  PROVE  /\ Cp!EventsChain(i)'
         /\ i = e.row => Cp!LastLedTo(i, e.to)'
         /\ \A status : i # e.row /\ Cp!LastLedTo(i, status) => Cp!LastLedTo(i, status)'
<1>0. PICK n : n = Len(history) + 1
  OBVIOUS
<1>1. /\ DOMAIN history = 1..Len(history) /\ Len(history) \in Nat
      /\ DOMAIN history' = 1..n /\ history'[n] = e
      /\ \A k \in 1..Len(history) : history'[k] = history[k]
  BY <1>0
<1>2. ASSUME NEW j \in DOMAIN history', NEW k \in DOMAIN history', history'[j].row = i,
             Cp!NextEvent(j, k)'
      PROVE  history'[k].from = history'[j].to
  <2>0. /\ j < k /\ history'[k].row = i
        /\ \A m \in DOMAIN history' : j < m /\ m < k => history'[m].row # i
    BY <1>2 DEF Cp!NextEvent
  <2>1. j \in DOMAIN history /\ history'[j] = history[j]
    BY <1>0, <1>1, <2>0
  <2>2. CASE k # n
    <3>1. k \in DOMAIN history /\ history'[k] = history[k]
      BY <1>0, <1>1, <2>2
    <3>2. Cp!NextEvent(j, k)
      BY <1>0, <1>1, <1>2, <2>0, <2>1, <3>1 DEF Cp!NextEvent
    <3> QED BY <1>2, <2>1, <3>1, <3>2 DEF Cp!EventsChain
  <2>3. CASE k = n
    <3>1. e.row = i /\ history[j].row = i
      BY <1>1, <1>2, <2>0, <2>1, <2>3
    <3>2. PICK l \in DOMAIN history : Cp!LastEvent(i, l) /\ history[l].to = e.from
      BY <2>1, <3>1 DEF Cp!LastLedTo
    <3>3. history[l].row = i /\ \A m \in DOMAIN history : m > l => history[m].row # i
      BY <3>2 DEF Cp!LastEvent
    <3>4. j <= l
      BY <1>1, <2>1, <3>1, <3>3
    <3>5. ~(j < l)
      BY <1>0, <1>1, <2>0, <2>3, <3>3
    <3>6. j = l
      BY <1>1, <2>1, <3>4, <3>5
    <3> QED BY <1>1, <2>1, <2>3, <3>2, <3>6
  <2> QED BY <2>2, <2>3
<1>3. Cp!EventsChain(i)'
  BY <1>2 DEF Cp!EventsChain
<1>4. i = e.row => Cp!LastLedTo(i, e.to)'
  <2> SUFFICES ASSUME i = e.row PROVE Cp!LastLedTo(i, e.to)'
    OBVIOUS
  <2>1. n \in DOMAIN history' /\ history'[n].to = e.to /\ Cp!LastEvent(i, n)'
    BY <1>0, <1>1 DEF Cp!LastEvent
  <2> QED BY <2>1 DEF Cp!LastLedTo
<1>5. ASSUME NEW status, i # e.row, Cp!LastLedTo(i, status)
      PROVE  Cp!LastLedTo(i, status)'
  <2>1. PICK l \in DOMAIN history : Cp!LastEvent(i, l) /\ history[l].to = status
    BY <1>5 DEF Cp!LastLedTo
  <2>2. l \in DOMAIN history' /\ history'[l].to = status /\ Cp!LastEvent(i, l)'
    BY <1>0, <1>1, <1>5, <2>1 DEF Cp!LastEvent
  <2> QED BY <2>2 DEF Cp!LastLedTo
<1> QED
  BY <1>3, <1>4, <1>5

(* A session that becomes idle leaves the other requests alone. *)
LEMMA SessionEnds ==
  ASSUME session \in [PromotionSessions -> Cp!Request], NEW s \in PromotionSessions,
         session' = [session EXCEPT ![s] = Cp!Idle]
  PROVE  /\ session' \in [PromotionSessions -> Cp!Request]
         /\ session'[s].pc = "idle" /\ session'[s].kind = "none"
         /\ \A t \in PromotionSessions : t # s => session'[t] = session[t]
BY IdleTypes DEF Cp!Idle

(* The request ends: its event is recorded, or its process stops. *)
LEMMA PromotionEnded ==
  ASSUME Cp!PromotionInv, NEW s \in PromotionSessions,
         Cp!insertConnectorPromotionEvent(s) \/ Cp!Stop(s)
  PROVE  Cp!PromotionInv'
<1> USE DEF Cp!PromotionInv
<1>1. /\ session' = [session EXCEPT ![s] = Cp!Idle]
      /\ UNCHANGED <<venue, promotions, counts, overlap>>
      /\ session[s].pc # "idle"
  BY DEF Cp!insertConnectorPromotionEvent, Cp!Stop
<1>2. /\ session \in [PromotionSessions -> Cp!Request]
      /\ history \in Seq(Cp!Event)
      /\ promotions \in Seq(Cp!Promotion)
  BY DEF Cp!TypeOK
<1>3. /\ session' \in [PromotionSessions -> Cp!Request]
      /\ session'[s].pc = "idle" /\ session'[s].kind = "none"
      /\ \A t \in PromotionSessions : t # s => session'[t] = session[t]
  BY <1>1, <1>2, SessionEnds
<1>4. /\ Cp!LatestRow' = Cp!LatestRow /\ Cp!StatusNow' = Cp!StatusNow
      /\ Cp!Evidence' = Cp!Evidence
  BY <1>1 DEF Cp!LatestRow, Cp!StatusNow, Cp!Evidence
<1>5. Cp!ClockInv'
  BY <1>1, <1>3 DEF Cp!ClockInv, Cp!Decisions
<1>6. Cp!AloneInv'
  <2> SUFFICES ASSUME ~overlap' PROVE Cp!AloneInv'
    BY DEF Cp!AloneInv
  <2>1. \A t \in PromotionSessions : session[t].pc # "idle" => t = s
    BY <1>1 DEF Cp!AloneInv
  <2>2. \A t \in PromotionSessions : session'[t].pc = "idle"
    BY <1>3, <2>1
  <2> QED BY <1>1, <1>4, <2>2 DEF Cp!AloneInv
<1>7. Cp!EvidenceInv'
  BY <1>1, <1>3, <1>4 DEF Cp!EvidenceInv, Cp!ApprovedOnEvidence
<1>8. CASE Cp!Stop(s)
  <2>1. /\ torn' = IF session[s].pc = "record" THEN torn \cup {session[s].row} ELSE torn
        /\ UNCHANGED history
    BY <1>8 DEF Cp!Stop
  <2>2. Cp!TypeOK'
    BY <1>1, <1>3, <2>1 DEF Cp!TypeOK
  <2>3. Cp!HistoryInv'
    <3> SUFFICES ASSUME ~overlap', NEW i \in DOMAIN promotions' \ torn'
                 PROVE  /\ Cp!EventsChain(i)'
                        /\ Cp!LastLedTo(i, promotions[i].status)'
                        /\ \A t \in PromotionSessions : session'[t].pc # "record"
      BY DEF Cp!HistoryInv
    <3>1. ~overlap /\ \A t \in PromotionSessions : session[t].pc # "idle" => t = s
      BY <1>1 DEF Cp!AloneInv
    <3>2. i \in DOMAIN promotions \ torn /\ ~(session[s].pc = "record" /\ session[s].row = i)
      BY <1>1, <2>1
    <3>3. Cp!EventsChain(i) /\ Cp!LastLedTo(i, promotions[i].status)
      BY <3>1, <3>2 DEF Cp!HistoryInv
    <3>4. Cp!EventsChain(i)' /\ Cp!LastLedTo(i, promotions[i].status)'
      BY <1>1, <2>1, <3>3 DEF Cp!EventsChain, Cp!LastLedTo, Cp!LastEvent, Cp!NextEvent
    <3> QED BY <1>3, <3>1, <3>4
  <2> QED BY <1>5, <1>6, <1>7, <2>2, <2>3
<1>9. CASE Cp!insertConnectorPromotionEvent(s)
  <2>0. PICK e : e = [row |-> session[s].row, from |-> session[s].from,
                      to |-> IF session[s].kind = "request" THEN "pending_review"
                             ELSE Cp!Decisions[session[s].kind]]
    OBVIOUS
  <2>1. /\ session[s].pc = "record" /\ history' = Append(history, e)
        /\ UNCHANGED torn
    BY <1>9, <2>0 DEF Cp!insertConnectorPromotionEvent
  <2>2. e.row = session[s].row /\ e.from = session[s].from /\ e.to = Cp!Outcome(session[s].kind)
    BY <2>0 DEF Cp!Outcome
  <2>3. session[s].row \in DOMAIN promotions /\ session[s] \in Cp!Request
    BY <1>2, <2>1 DEF Cp!TypeOK
  <2>4. Cp!Outcome(session[s].kind) \in Cp!Statuses
    <3>1. session[s].kind \in Cp!Kinds
      BY <2>1 DEF Cp!TypeOK
    <3> QED BY <3>1 DEF Cp!Kinds, Cp!Decisions, Cp!Outcome, Cp!Statuses
  <2>5. e \in Cp!Event
    BY <2>0, <2>2, <2>3, <2>4 DEF Cp!Request, Cp!Event
  <2>6. /\ history' \in Seq(Cp!Event)
        /\ \A k \in DOMAIN history' : \/ k \in DOMAIN history /\ history'[k] = history[k]
                                      \/ history'[k] = e
    BY <1>2, <2>1, <2>5
  <2>7. Cp!TypeOK'
    BY <1>1, <1>3, <2>1, <2>2, <2>3, <2>6 DEF Cp!TypeOK
  <2>8. Cp!HistoryInv'
    <3> SUFFICES ASSUME ~overlap', NEW i \in DOMAIN promotions' \ torn'
                 PROVE  /\ Cp!EventsChain(i)'
                        /\ Cp!LastLedTo(i, promotions[i].status)'
                        /\ \A t \in PromotionSessions : session'[t].pc # "record"
      BY DEF Cp!HistoryInv
    <3>1. ~overlap /\ \A t \in PromotionSessions : session[t].pc # "idle" => t = s
      BY <1>1 DEF Cp!AloneInv
    <3>2. i \in DOMAIN promotions \ torn /\ Cp!EventsChain(i)
      BY <1>1, <2>1, <3>1 DEF Cp!HistoryInv
    <3>3. CASE i = e.row
      <4>1. /\ promotions[i].status = e.to
            /\ \/ \A k \in DOMAIN history : history[k].row # i
               \/ Cp!LastLedTo(i, e.from)
        BY <2>1, <2>2, <3>1, <3>2, <3>3 DEF Cp!HistoryInv
      <4>2. Cp!EventsChain(i)' /\ Cp!LastLedTo(i, e.to)'
        BY <1>2, <2>1, <2>5, <3>2, <3>3, <4>1, EventAppended
      <4>3. Cp!LastLedTo(i, promotions[i].status)'
        BY <1>1, <4>1, <4>2 DEF Cp!LastLedTo
      <4> QED BY <1>3, <3>1, <4>2, <4>3
    <3>4. CASE i # e.row
      <4>1. Cp!LastLedTo(i, promotions[i].status)
        BY <2>2, <3>1, <3>2, <3>4 DEF Cp!HistoryInv
      <4>2. Cp!EventsChain(i)' /\ Cp!LastLedTo(i, promotions[i].status)'
        BY <1>1, <1>2, <2>1, <2>5, <3>2, <3>4, <4>1, EventAppended
      <4> QED BY <1>3, <3>1, <4>2
    <3> QED BY <3>3, <3>4
  <2> QED BY <1>5, <1>6, <1>7, <2>7, <2>8
<1> QED
  BY <1>8, <1>9

(* Every step of the review keeps the invariant. *)
LEMMA PromotionStep ==
  ASSUME Cp!PromotionInv, [Cp!Next]_Cp!vars
  PROVE  Cp!PromotionInv'
<1>1. CASE UNCHANGED Cp!vars
  <2>1. UNCHANGED <<venue, promotions, history, session, counts, overlap, torn>>
    BY <1>1 DEF Cp!vars
  <2>2. Cp!TypeOK' /\ Cp!ClockInv'
    BY <2>1 DEF Cp!PromotionInv, Cp!TypeOK, Cp!ClockInv
  <2>3. Cp!AloneInv' /\ Cp!EvidenceInv'
    BY <2>1 DEF Cp!PromotionInv, Cp!AloneInv, Cp!LatestRow, Cp!StatusNow, Cp!EvidenceInv,
                Cp!Evidence, Cp!ApprovedOnEvidence
  <2>4. Cp!HistoryInv'
    BY <2>1 DEF Cp!PromotionInv, Cp!HistoryInv, Cp!EventsChain, Cp!LastLedTo, Cp!LastEvent,
                Cp!NextEvent
  <2> QED BY <2>2, <2>3, <2>4 DEF Cp!PromotionInv
<1>2. ASSUME NEW v \in Snapshots, Cp!RecordSnapshot(v) PROVE Cp!PromotionInv'
  <2>1. /\ venue \in Cp!Venues /\ v \in Cp!Venues
        /\ counts \in [requests : Nat, snapshots : Nat, clock : Nat]
    BY PromotionAssumption DEF Cp!PromotionInv, Cp!TypeOK
  <2>2. venue' \in Cp!Venues
    BY <1>2, <2>1 DEF Cp!RecordSnapshot, Cp!Inventory, Cp!Venues, Cp!Freshness
  <2>3. /\ counts' \in [requests : Nat, snapshots : Nat, clock : Nat]
        /\ counts'.clock = counts.clock
        /\ session' = Cp!Disturbed /\ UNCHANGED <<promotions, history, overlap, torn>>
    BY <1>2, <2>1 DEF Cp!RecordSnapshot
  <2> QED BY <2>2, <2>3, PromotionDisturbed
<1>3. CASE Cp!SnapshotAges
  <2>1. /\ venue \in Cp!Venues
        /\ counts \in [requests : Nat, snapshots : Nat, clock : Nat]
    BY DEF Cp!PromotionInv, Cp!TypeOK
  <2>2. venue' \in Cp!Venues
    BY <1>3, <2>1 DEF Cp!SnapshotAges, Cp!Venues, Cp!Freshness
  <2>3. /\ counts' = counts
        /\ session' = Cp!Disturbed /\ UNCHANGED <<promotions, history, overlap, torn>>
    BY <1>3 DEF Cp!SnapshotAges
  <2> QED BY <2>1, <2>2, <2>3, PromotionDisturbed
<1>4. ASSUME NEW s \in PromotionSessions, Cp!SessionStep(s) PROVE Cp!PromotionInv'
  BY <1>4, PromotionJudged, PromotionRequested, PromotionDecided, PromotionEnded
  DEF Cp!SessionStep
<1> QED
  BY <1>1, <1>2, <1>3, <1>4 DEF Cp!Next

(* The review starts with the invariant. *)
LEMMA PromotionInit == Cp!Init => Cp!PromotionInv
<1> SUFFICES ASSUME Cp!Init PROVE Cp!PromotionInv
  OBVIOUS
<1>1. /\ venue \in Cp!Venues /\ promotions = <<>> /\ history = <<>> /\ overlap = FALSE /\ torn = {}
      /\ session = [s \in PromotionSessions |-> Cp!Idle]
      /\ counts = [requests |-> 0, snapshots |-> 0, clock |-> 0]
  BY PromotionAssumption DEF Cp!Init
<1>2. \A s \in PromotionSessions : session[s].pc = "idle" /\ session[s].kind = "none"
  BY <1>1 DEF Cp!Idle
<1>3. session \in [PromotionSessions -> Cp!Request]
  BY <1>1, IdleTypes
<1>4. Cp!TypeOK
  <2>1. promotions \in Seq(Cp!Promotion) /\ history \in Seq(Cp!Event)
    BY <1>1
  <2>2. counts \in [requests : Nat, snapshots : Nat, clock : Nat]
    BY <1>1
  <2>3. \A k \in DOMAIN history : history[k].row \in DOMAIN promotions
    <3>1. Len(history) = 0
      BY <1>1
    <3> QED BY <2>1, <3>1
  <2>5. overlap \in BOOLEAN
    BY <1>1
  <2>4. torn \subseteq DOMAIN promotions
    BY <1>1
  <2> QED BY <1>1, <1>2, <1>3, <2>1, <2>2, <2>3, <2>4, <2>5 DEF Cp!TypeOK
<1>5. Cp!ClockInv
  BY <1>1, <1>2 DEF Cp!ClockInv, Cp!Decisions
<1>6. Cp!AloneInv /\ Cp!EvidenceInv /\ Cp!HistoryInv
  BY <1>1, <1>2 DEF Cp!AloneInv, Cp!EvidenceInv, Cp!HistoryInv, Cp!ApprovedOnEvidence
<1> QED BY <1>4, <1>5, <1>6 DEF Cp!PromotionInv

(* The invariant implies what the review promises. *)
LEMMA PromotionPromises ==
  ASSUME Cp!PromotionInv
  PROVE  /\ Cp!TypeOK /\ Cp!OneStanding /\ Cp!HistoryExplains /\ Cp!ApprovedOnEvidence
         /\ Cp!EligibleNeedsBoth
<1> USE DEF Cp!PromotionInv
<1>1. Cp!OneStanding
  BY DEF Cp!AloneInv, Cp!OneStanding
<1>2. Cp!HistoryExplains
  BY DEF Cp!HistoryInv, Cp!HistoryExplains
<1>3. Cp!EligibleNeedsBoth
  <2>1. venue \in Cp!Venues
    BY DEF Cp!TypeOK
  <2>2. Cp!buildConnectorEligibilityBlockers(venue) = {} /\
          Cp!inferConnectorCapabilityClass(venue) = "execution_capable" <=>
        /\ venue.truthMode = "real" /\ venue.executionSupport
        /\ venue.freshness = "fresh" /\ venue.completeness = "complete"
        /\ venue.healthy /\ venue.healthState = "healthy"
        /\ venue.succeeded /\ ~venue.missing /\ venue.configured
        /\ venue.confirmation # "blocked"
    BY <2>1 DEF Cp!buildConnectorEligibilityBlockers, Cp!inferConnectorCapabilityClass,
                Cp!inferReadOnlyValidationState, Cp!Venues, Cp!TruthModes
  <2>3. Cp!Evidence.eligible <=> /\ Cp!buildConnectorEligibilityBlockers(venue) = {}
                                 /\ Cp!inferConnectorCapabilityClass(venue) = "execution_capable"
    BY DEF Cp!Evidence, Cp!buildConnectorReadinessEvidence
  <2>4. Cp!Summary.sensitiveExecutionEligible <=> Cp!StatusNow = "approved" /\ Cp!Evidence.eligible
    BY EvidenceTypes DEF Cp!Summary, Cp!PromotionSummary, Cp!deriveEffectivePosture
  <2> QED BY <2>2, <2>3, <2>4 DEF Cp!EligibleNeedsBoth
<1> QED BY <1>1, <1>2, <1>3 DEF Cp!EvidenceInv

-----------------------------------------------------------------------------
(* The submission dossier.                                                 *)

(* A session takes up or drops an operation, which promises no more than   *)
(* the chain and the operators' statements back; the row stays as it is.   *)
LEMMA DossierDesk ==
  ASSUME Sd!DossierInv, NEW s \in DossierSessions, NEW d \in Sd!Desk,
         clerk' = [clerk EXCEPT ![s] = d],
         UNCHANGED <<dossier, evidence, told, stated, lost>>, chain \subseteq chain',
         d.op = "confirmed" => Sd!Backed(d.set)',
         d.op = "write" => /\ Sd!Backed(d.row.markers \ (stated \cup d.given))
                           /\ (d.read \ d.cleared) \cup d.set \subseteq d.row.markers
  PROVE  Sd!DossierInv'
<1> USE DEF Sd!DossierInv
<1>1. clerk \in [DossierSessions -> Sd!Desk]
  BY DEF Sd!TypeOK
<1>2. /\ clerk' \in [DossierSessions -> Sd!Desk]
      /\ clerk'[s] = d
      /\ \A t \in DossierSessions : t # s => clerk'[t] = clerk[t]
  BY <1>1
<1>3. Sd!TypeOK'
  BY <1>2 DEF Sd!TypeOK
<1>4. Sd!MarkersAreBacked'
  BY DEF Sd!MarkersAreBacked, Sd!Backed
<1>5. Sd!MarkersAreKept'
  BY DEF Sd!MarkersAreKept
<1>6. ASSUME NEW t \in DossierSessions
      PROVE  /\ clerk'[t].op = "confirmed" => Sd!Backed(clerk[t].set)'
             /\ clerk'[t].op = "write" =>
                  /\ Sd!Backed(clerk[t].row.markers \ (stated \cup clerk[t].given))'
                  /\ (clerk[t].read \ clerk[t].cleared)' \cup clerk'[t].set
                       \subseteq clerk'[t].row.markers
  <2>1. CASE t = s
    BY <1>2, <2>1 DEF Sd!Backed
  <2>2. CASE t # s
    BY <1>2, <2>2 DEF Sd!Backed
  <2> QED BY <2>1, <2>2
<1> QED BY <1>3, <1>4, <1>5, <1>6

(* A confirmed operation names what it made; an error changes no desk. *)
LEMMA DossierSent ==
  ASSUME Sd!DossierInv, NEW s \in DossierSessions, NEW op \in Sd!RangerOps, Sd!Send(s, op)
  PROVE  Sd!DossierInv'
<1>1. UNCHANGED <<dossier, evidence, told, stated, lost>>
  BY DEF Sd!Send
<1>2. CASE chain' = chain \cup {op} /\ \E set \in Sd!SyncedMarkers(op) :
              clerk' = [clerk EXCEPT ![s] = [op |-> "confirmed", set |-> set]]
  <2>1. PICK set \in Sd!SyncedMarkers(op) :
          clerk' = [clerk EXCEPT ![s] = [op |-> "confirmed", set |-> set]]
    BY <1>2
  <2>2. set \subseteq Sd!Markers
    BY <2>1 DEF Sd!SyncedMarkers, Sd!RangerOps, Sd!Markers, Sd!createRangerVault,
                Sd!createRangerLpMetadata, Sd!addRangerAdaptor, Sd!initializeRangerStrategy,
                Sd!depositRangerStrategy, Sd!withdrawRangerStrategy
  <2>3. Sd!Backed(set)'
    <3>1. op \in chain'
      BY <1>2
    <3>2. CASE op = "create"
      BY <2>1, <3>1, <3>2 DEF Sd!Backed, Sd!SyncedMarkers, Sd!createRangerVault
    <3>3. CASE op \in {"lpMetadata", "addAdaptor", "withdraw"}
      BY <2>1, <3>1, <3>3 DEF Sd!Backed, Sd!SyncedMarkers, Sd!createRangerLpMetadata,
                              Sd!addRangerAdaptor, Sd!withdrawRangerStrategy
    <3>4. CASE op = "initialize"
      BY <2>1, <3>1, <3>4 DEF Sd!Backed, Sd!SyncedMarkers, Sd!initializeRangerStrategy
    <3>5. CASE op = "deposit"
      BY <2>1, <3>1, <3>5 DEF Sd!Backed, Sd!SyncedMarkers, Sd!depositRangerStrategy
    <3> QED BY <3>2, <3>3, <3>4, <3>5 DEF Sd!RangerOps
  <2>4. PICK d : d = [op |-> "confirmed", set |-> set]
    OBVIOUS
  <2>5. d \in Sd!Desk /\ d.op = "confirmed" /\ d.set = set
    BY <2>2, <2>4 DEF Sd!Desk
  <2>6. clerk' = [clerk EXCEPT ![s] = d]
    BY <2>1, <2>4
  <2> QED BY <1>1, <1>2, <2>3, <2>5, <2>6, DossierDesk
<1>3. CASE chain \subseteq chain' /\ UNCHANGED clerk
  BY <1>1, <1>3 DEF Sd!DossierInv, Sd!TypeOK, Sd!MarkersAreBacked, Sd!MarkersAreKept, Sd!Backed
<1> QED
  BY <1>2, <1>3 DEF Sd!Send

(* An update that has read the row: what it will write is the row's        *)
(* markers without those it clears, with those it sets or is given.        *)
LEMMA DossierReads ==
  ASSUME Sd!DossierInv, NEW s \in DossierSessions, NEW new \in Sd!Dossier,
         NEW set \in SUBSET Sd!Markers, NEW given \in SUBSET Sd!Markers,
         NEW cleared \in SUBSET Sd!Markers,
         Sd!readUpsert(s, new, set, given, cleared), Sd!Backed(set),
         (dossier.markers \ cleared) \cup set \subseteq new.markers,
         new.markers \subseteq dossier.markers \cup set \cup given,
         UNCHANGED <<dossier, evidence, chain, told, stated, lost>>
  PROVE  Sd!DossierInv'
<1>1. PICK d : d = [op |-> "write", row |-> new, read |-> dossier.markers,
                    set |-> set, given |-> given, cleared |-> cleared]
  OBVIOUS
<1>2. dossier.markers \subseteq Sd!Markers
  BY DEF Sd!DossierInv, Sd!TypeOK, Sd!Dossier
<1>3. /\ d \in Sd!Desk /\ d.op = "write" /\ d.row = new /\ d.read = dossier.markers
      /\ d.set = set /\ d.given = given /\ d.cleared = cleared
  BY <1>1, <1>2 DEF Sd!Desk
<1>4. clerk' = [clerk EXCEPT ![s] = d]
  BY <1>1 DEF Sd!readUpsert
<1>5. Sd!Backed(dossier.markers \ stated)
  BY DEF Sd!DossierInv, Sd!MarkersAreBacked
<1>6. Sd!Backed(d.row.markers \ (stated \cup d.given))
  BY <1>3, <1>5 DEF Sd!Backed
<1> QED BY <1>3, <1>4, <1>6, DossierDesk

(* A confirmed operation's update. *)
LEMMA DossierSynced ==
  ASSUME Sd!DossierInv, NEW s \in DossierSessions, Sd!SyncRanger(s)
  PROVE  Sd!DossierInv'
<1>1. PICK set : set = clerk[s].set
  OBVIOUS
<1>2. dossier \in Sd!Dossier /\ clerk[s] \in Sd!Desk /\ clerk[s].op = "confirmed"
  BY DEF Sd!DossierInv, Sd!TypeOK, Sd!SyncRanger
<1>3. set \in SUBSET Sd!Markers /\ Sd!Backed(set)
  <2>1. set \in SUBSET Sd!Markers
    BY <1>1, <1>2 DEF Sd!Desk, Sd!Idle
  <2>2. Sd!Backed(clerk[s].set)
    BY <1>2 DEF Sd!DossierInv
  <2> QED BY <1>1, <2>1, <2>2
<1>4. PICK c \in {dossier.cluster} \cup (IF "vault" \in clerk[s].set THEN {"devnet"} ELSE {}) :
        Sd!readUpsert(s, [dossier EXCEPT
                            !.markers = Sd!mergeSubmissionMetadata(@, clerk[s].set, {}),
                            !.addresses = @ \cup (clerk[s].set \cap {"vault"}),
                            !.cluster = c], clerk[s].set, {}, {})
  BY Zenon DEF Sd!SyncRanger
<1>5. PICK new : new = [dossier EXCEPT !.markers = Sd!mergeSubmissionMetadata(@, set, {}),
                                       !.addresses = @ \cup (set \cap {"vault"}),
                                       !.cluster = c]
  OBVIOUS
<1>6. c \in {"unknown", "devnet", "mainnet-beta"}
  BY <1>2, <1>4 DEF Sd!Dossier
<1>7. new \in Sd!Dossier /\ new.markers = dossier.markers \cup set
  BY <1>2, <1>3, <1>5, <1>6 DEF Sd!Dossier, Sd!mergeSubmissionMetadata
<1>8. Sd!readUpsert(s, new, set, {}, {})
  BY <1>1, <1>4, <1>5
<1>9. UNCHANGED <<dossier, evidence, chain, told, stated, lost>>
  BY DEF Sd!SyncRanger
<1> QED BY <1>3, <1>7, <1>8, <1>9, DossierReads

(* An operator's updates. *)
LEMMA DossierEdited ==
  ASSUME Sd!DossierInv, NEW s \in DossierSessions,
         \/ Sd!EditDossier(s) \/ Sd!EditMarkers(s) \/ Sd!ReplaceMetadata(s) \/ Sd!SkipSync(s)
  PROVE  Sd!DossierInv'
<1>0. dossier \in Sd!Dossier /\ Sd!Backed({})
  BY DEF Sd!DossierInv, Sd!TypeOK, Sd!Backed
<1>1. CASE Sd!SkipSync(s)
  <2>1. /\ clerk' = [clerk EXCEPT ![s] = Sd!Idle]
        /\ UNCHANGED <<dossier, evidence, chain, told, stated, lost>>
    BY <1>1 DEF Sd!SkipSync
  <2>2. Sd!Idle \in Sd!Desk /\ Sd!Idle.op = "idle"
    BY DEF Sd!Desk, Sd!Idle
  <2> QED BY <2>1, <2>2, DossierDesk
<1>2. CASE Sd!EditDossier(s)
  <2>1. PICK new \in {[dossier EXCEPT !.documented = TRUE, !.repository = "public",
                                      !.addresses = {"wallet"}],
               [dossier EXCEPT !.cluster = "devnet", !.cexUsed = TRUE, !.cexHistory = TRUE],
               [dossier EXCEPT !.repository = "private", !.addresses = {}, !.window = 3 - @,
                               !.cexApi = TRUE]} :
          Sd!readUpsert(s, new, {}, {}, {})
    BY <1>2 DEF Sd!EditDossier
  <2>2. new \in Sd!Dossier /\ new.markers = dossier.markers
    <3>1. 3 - dossier.window \in 1..2
      BY <1>0 DEF Sd!Dossier
    <3>2. CASE new = [dossier EXCEPT !.documented = TRUE, !.repository = "public",
                                     !.addresses = {"wallet"}]
      BY <1>0, <3>2 DEF Sd!Dossier
    <3>3. CASE new = [dossier EXCEPT !.cluster = "devnet", !.cexUsed = TRUE, !.cexHistory = TRUE]
      BY <1>0, <3>3 DEF Sd!Dossier
    <3>4. CASE new = [dossier EXCEPT !.repository = "private", !.addresses = {}, !.window = 3 - @,
                                     !.cexApi = TRUE]
      BY <1>0, <3>1, <3>4 DEF Sd!Dossier
    <3> QED BY <2>1, <3>2, <3>3, <3>4
  <2>3. UNCHANGED <<dossier, evidence, chain, told, stated, lost>>
    BY <1>2 DEF Sd!EditDossier
  <2> QED BY <1>0, <2>1, <2>2, <2>3, DossierReads
<1>3. CASE Sd!EditMarkers(s)
  <2>1. PICK u \in MarkerUpdates :
          Sd!readUpsert(s, [dossier EXCEPT !.markers =
                              Sd!mergeSubmissionMetadata(@, u.given, u.cleared)],
                        {}, u.given, u.cleared)
    BY <1>3 DEF Sd!EditMarkers
  <2>2. u.given \in SUBSET Sd!Markers /\ u.cleared \in SUBSET Sd!Markers
    BY DossierAssumption
  <2>3. PICK new : new = [dossier EXCEPT !.markers =
                            Sd!mergeSubmissionMetadata(@, u.given, u.cleared)]
    OBVIOUS
  <2>4. new \in Sd!Dossier /\ new.markers = (dossier.markers \ u.cleared) \cup u.given
    BY <1>0, <2>2, <2>3 DEF Sd!Dossier, Sd!mergeSubmissionMetadata
  <2>5. Sd!readUpsert(s, new, {}, u.given, u.cleared)
    BY <2>1, <2>3
  <2>6. UNCHANGED <<dossier, evidence, chain, told, stated, lost>>
    BY <1>3 DEF Sd!EditMarkers
  <2> QED BY <1>0, <2>2, <2>4, <2>5, <2>6, DossierReads
<1>4. CASE Sd!ReplaceMetadata(s)
  <2>1. PICK u \in MarkerUpdates :
          Sd!readUpsert(s, [dossier EXCEPT !.markers = u.given,
                              !.documented = FALSE, !.repository = "none"],
                        {}, u.given, Sd!Markers)
    BY <1>4, Zenon DEF Sd!ReplaceMetadata
  <2>2. u.given \in SUBSET Sd!Markers
    BY DossierAssumption
  <2>3. PICK new : new = [dossier EXCEPT !.markers = u.given,
                            !.documented = FALSE, !.repository = "none"]
    OBVIOUS
  <2>4. new \in Sd!Dossier /\ new.markers = u.given
    BY <1>0, <2>2, <2>3 DEF Sd!Dossier, Sd!mergeSubmissionMetadata
  <2>5. Sd!readUpsert(s, new, {}, u.given, Sd!Markers)
    BY <2>1, <2>3
  <2>6. UNCHANGED <<dossier, evidence, chain, told, stated, lost>>
    BY <1>4, Zenon DEF Sd!ReplaceMetadata
  <2>7. dossier.markers \ Sd!Markers = {}
    BY <1>0 DEF Sd!Dossier
  <2> QED BY <1>0, <2>2, <2>4, <2>5, <2>6, <2>7, DossierReads
<1> QED BY <1>1, <1>2, <1>3, <1>4

(* The write replaces the row; what it loses is what came after its read. *)
LEMMA DossierWritten ==
  ASSUME Sd!DossierInv, NEW s \in DossierSessions, Sd!WriteDossier(s)
  PROVE  Sd!DossierInv'
<1> USE DEF Sd!DossierInv
<1>1. /\ clerk[s].op = "write" /\ dossier' = clerk[s].row
      /\ told' = (told \ clerk[s].cleared) \cup clerk[s].set
      /\ stated' = stated \cup clerk[s].given
      /\ lost' = (lost \cup (dossier.markers \ clerk[s].read)) \ clerk[s].row.markers
      /\ clerk' = [clerk EXCEPT ![s] = Sd!Idle]
      /\ UNCHANGED <<evidence, chain>>
  BY DEF Sd!WriteDossier
<1>2. /\ clerk \in [DossierSessions -> Sd!Desk] /\ dossier.markers \subseteq Sd!Markers
      /\ clerk[s] \in Sd!Desk
      /\ told \subseteq Sd!Markers /\ stated \subseteq Sd!Markers /\ lost \subseteq Sd!Markers
  BY DEF Sd!TypeOK, Sd!Dossier
<1>3. /\ clerk[s].row \in Sd!Dossier /\ clerk[s].set \subseteq Sd!Markers
      /\ clerk[s].given \subseteq Sd!Markers
  BY <1>1, <1>2 DEF Sd!Desk, Sd!Idle
<1>4. Sd!Idle \in Sd!Desk /\ Sd!Idle.op = "idle"
  BY DEF Sd!Desk, Sd!Idle
<1>5. /\ clerk' \in [DossierSessions -> Sd!Desk]
      /\ clerk'[s] = Sd!Idle
      /\ \A t \in DossierSessions : t # s => clerk'[t] = clerk[t]
  BY <1>1, <1>2, <1>4
<1>6. Sd!TypeOK'
  BY <1>1, <1>2, <1>3, <1>5 DEF Sd!TypeOK
<1>7. Sd!MarkersAreBacked'
  BY <1>1 DEF Sd!MarkersAreBacked, Sd!Backed
<1>8. Sd!MarkersAreKept'
  <2>1. (clerk[s].read \ clerk[s].cleared) \cup clerk[s].set \subseteq clerk[s].row.markers
    BY <1>1
  <2> QED BY <1>1, <2>1 DEF Sd!MarkersAreKept
<1>9. ASSUME NEW t \in DossierSessions
      PROVE  /\ clerk'[t].op = "confirmed" => Sd!Backed(clerk[t].set)'
             /\ clerk'[t].op = "write" =>
                  /\ Sd!Backed(clerk[t].row.markers \ (stated \cup clerk[t].given))'
                  /\ (clerk[t].read \ clerk[t].cleared)' \cup clerk'[t].set
                       \subseteq clerk'[t].row.markers
  <2>1. CASE t = s
    BY <1>4, <1>5, <2>1
  <2>2. CASE t # s
    BY <1>1, <1>5, <2>2 DEF Sd!Backed
  <2> QED BY <2>1, <2>2
<1> QED BY <1>6, <1>7, <1>8, <1>9

(* Every step of the dossier keeps the invariant. *)
LEMMA DossierStep ==
  ASSUME Sd!DossierInv, [Sd!Next]_Sd!dossierVars
  PROVE  Sd!DossierInv'
<1>1. CASE UNCHANGED Sd!dossierVars
  BY <1>1 DEF Sd!dossierVars, Sd!DossierInv, Sd!TypeOK, Sd!MarkersAreBacked, Sd!MarkersAreKept,
              Sd!Backed
<1>2. CASE Sd!recordSubmissionEvidence
  <2>1. /\ UNCHANGED <<dossier, chain, clerk, told, stated, lost>>
        /\ \A e \in evidence' : \/ e \in evidence
                                \/ e.type \in {"on_chain_transaction", "performance_snapshot",
                                     "cex_trade_history", "cex_read_only_api", "document"}
    <3>1. PICK e \in EvidenceInputs :
            \E w : evidence' = evidence \cup
              {[type |-> Sd!normalizeSubmissionEvidenceType(e.type), status |-> e.status,
                at |-> e.at, stated |-> e.stated, within |-> w]}
      BY <1>2 DEF Sd!recordSubmissionEvidence
    <3>2. Sd!normalizeSubmissionEvidenceType(e.type) \in
            {"on_chain_transaction", "performance_snapshot", "cex_trade_history",
             "cex_read_only_api", "document"}
      BY DEF Sd!normalizeSubmissionEvidenceType
    <3>3. UNCHANGED <<dossier, chain, clerk, told, stated, lost>>
      BY <1>2 DEF Sd!recordSubmissionEvidence
    <3> QED BY <3>1, <3>2, <3>3
  <2> QED BY <2>1 DEF Sd!DossierInv, Sd!TypeOK, Sd!MarkersAreBacked, Sd!MarkersAreKept, Sd!Backed
<1> QED
  BY <1>1, <1>2, DossierSent, DossierSynced, DossierEdited, DossierWritten DEF Sd!Next

(* It holds of an empty dossier. *)
LEMMA DossierInit == Sd!Init => Sd!DossierInv
<1> SUFFICES ASSUME Sd!Init PROVE Sd!DossierInv
  OBVIOUS
<1>1. /\ clerk = [s \in DossierSessions |-> Sd!Idle] /\ Sd!Idle \in Sd!Desk /\ Sd!Idle.op = "idle"
      /\ dossier = [markers |-> {}, addresses |-> {}, cluster |-> "unknown", documented |-> FALSE,
                    repository |-> "none", window |-> 1, cexUsed |-> FALSE, cexHistory |-> FALSE,
                    cexApi |-> FALSE]
      /\ evidence = {} /\ told = {} /\ stated = {} /\ lost = {}
  BY DEF Sd!Init, Sd!Idle, Sd!Desk
<1>2. dossier \in Sd!Dossier /\ dossier.markers = {}
  BY <1>1 DEF Sd!Dossier
<1>3. Sd!TypeOK
  BY <1>1, <1>2 DEF Sd!TypeOK
<1> QED BY <1>1, <1>2, <1>3 DEF Sd!DossierInv, Sd!MarkersAreBacked, Sd!MarkersAreKept, Sd!Backed

(* A dossier that is not blocked has every artifact of the export, and one *)
(* with every artifact fails at most checks the export has no artifact of. *)
LEMMA ExportMatches ==
  ASSUME Sd!TypeOK
  PROVE  Sd!ExportAgrees /\ Sd!ExportIsComplete
<1>1. ~Sd!BacktestEvidence
  BY DEF Sd!TypeOK, Sd!BacktestEvidence, Sd!Counts
<1>2. DOMAIN Sd!CheckStatus = {"documentation", "repository", "ranger", "address", "policy",
                              "cluster", "baseAsset", "tenor", "targetApy",
                              "performance", "onChain", "cex"}
  BY DEF Sd!CheckStatus
<1>3. /\ DOMAIN Sd!Artifacts = {"documentation", "repository", "ranger", "address", "onChain",
                                "performance", "cexHistory", "cexApi"}
      /\ Sd!Artifacts["documentation"] <=> Sd!CheckStatus["documentation"] # "fail"
      /\ Sd!Artifacts["repository"] <=> Sd!CheckStatus["repository"] # "fail"
      /\ Sd!Artifacts["ranger"] <=> Sd!CheckStatus["ranger"] # "fail"
      /\ Sd!Artifacts["address"] <=> Sd!CheckStatus["address"] # "fail"
  BY DEF Sd!CheckStatus, Sd!Artifacts, Sd!Passes
<1>4. Sd!Artifacts["onChain"] <=> Sd!CheckStatus["onChain"] # "fail"
  BY <1>1 DEF Sd!CheckStatus, Sd!Artifacts, Sd!Passes
<1>5. Sd!Artifacts["performance"] <=> Sd!CheckStatus["performance"] # "fail"
  BY <1>1 DEF Sd!CheckStatus, Sd!Artifacts, Sd!Passes
<1>6. (Sd!Artifacts["cexHistory"] /\ Sd!Artifacts["cexApi"]) <=> Sd!CheckStatus["cex"] # "fail"
  BY DEF Sd!CheckStatus, Sd!Artifacts, Sd!Passes
<1>7. Sd!Readiness # "blocked" => \A k \in DOMAIN Sd!CheckStatus : Sd!CheckStatus[k] # "fail"
  BY DEF Sd!Readiness
<1>8. Sd!ExportBlocks = {} <=> \A k \in DOMAIN Sd!Artifacts : Sd!Artifacts[k]
  BY DEF Sd!ExportBlocks
<1>9. Sd!ExportAgrees
  BY <1>2, <1>3, <1>4, <1>5, <1>6, <1>7, <1>8 DEF Sd!ExportAgrees
<1>10. Sd!ExportIsComplete
  BY <1>2, <1>3, <1>4, <1>5, <1>6, <1>8 DEF Sd!ExportIsComplete
<1> QED BY <1>9, <1>10

-----------------------------------------------------------------------------
(* Resolutions and escalations of a bundle.                                *)

(* The events lead to the status of each escalation, or for the one whose  *)
(* event handler me is about to record, to the status me has read.         *)
LogStands(me) ==
  \A e \in DOMAIN events \ cut.log :
    /\ Br!Path(events[e])
    /\ Br!LeadsTo(events[e]) = IF Br!Logging(me, e) THEN me.from ELSE escalation[e].status

LEMMA LogIs ==
  ASSUME Br!EventsFormPath, ~overlap, NEW s \in ResolutionSessions,
         \A z \in ResolutionSessions : z # s => session[z].pc = "idle"
  PROVE  LogStands(session[s])
<1> SUFFICES ASSUME NEW e \in DOMAIN events \ cut.log
             PROVE  /\ Br!Path(events[e])
                    /\ Br!LeadsTo(events[e]) =
                         IF Br!Logging(session[s], e) THEN session[s].from ELSE escalation[e].status
  BY DEF LogStands
<1>1. Br!Path(events[e]) /\ Br!Logged(e) = {Br!LeadsTo(events[e])}
  BY DEF Br!EventsFormPath
<1>2. \A z \in ResolutionSessions : Br!Logging(session[z], e) => z = s
  BY DEF Br!Logging
<1>3. CASE Br!Logging(session[s], e)
  <2>1. Br!Logged(e) = {session[z].from :
                          z \in {y \in ResolutionSessions : Br!Logging(session[y], e)}}
    BY <1>3 DEF Br!Logged
  <2>2. session[s].from \in Br!Logged(e)
    BY <1>3, <2>1
  <2> QED BY <1>1, <1>3, <2>2
<1>4. CASE ~Br!Logging(session[s], e)
  BY <1>1, <1>2, <1>4 DEF Br!Logged
<1> QED BY <1>3, <1>4

(* A step of one handler, judged by what it leaves behind: the others are  *)
(* where they were and, unless requests overlap, idle.                     *)
LEMMA HandlerMoves ==
  ASSUME Br!ResolutionInv, NEW s \in ResolutionSessions, NEW me, Br!HandlerOK(me),
         session' = [session EXCEPT ![s] = me],
         kids' = kids, counts'.changes = counts.changes, overlap => overlap',
         Br!TablesOK', Br!Judged(me), Br!DecidedWhenSettled',
         ~overlap' => /\ \A z \in ResolutionSessions : z # s => session[z].pc = "idle"
                      /\ Br!ReadStands(me)'
                      /\ \A e \in Br!OpenOnes' : e = Len(escalation')
                      /\ me.pc \notin {"event", "row"} /\ ~cut'.row => Br!RowShows'
                      /\ row'.recommendation = Br!Derived0'
                      /\ LogStands(me)'
  PROVE  Br!ResolutionInv'
<1> USE DEF Br!ResolutionInv
<1>1. /\ session \in [ResolutionSessions -> Br!Handler]
      /\ \A z \in ResolutionSessions : Br!HandlerOK(session[z]) /\ Br!Judged(session[z])
  BY DEF Br!TypeOK, Br!JudgedInv
<1>2. /\ session' \in [ResolutionSessions -> Br!Handler]
      /\ session'[s] = me
      /\ \A z \in ResolutionSessions : z # s => session'[z] = session[z]
  BY <1>1 DEF Br!HandlerOK
<1>3. ASSUME NEW z \in ResolutionSessions
      PROVE  Br!HandlerOK(session'[z]) /\ Br!Judged(session'[z])
  BY <1>1, <1>2
<1>4. Br!TypeOK'
  BY <1>2, <1>3 DEF Br!TypeOK
<1>5. Br!JudgedInv'
  BY <1>3 DEF Br!JudgedInv, Br!Judged
<1>6. ~overlap' => \A z \in ResolutionSessions : z # s => session'[z].pc = "idle"
  BY <1>2
<1>7. Br!AloneInv'
  BY <1>6 DEF Br!AloneInv
<1>8. Br!LastIsOpen'
  BY DEF Br!LastIsOpen
<1>9. Br!ReadInv'
  <2> SUFFICES ASSUME ~overlap', NEW z \in ResolutionSessions
               PROVE  Br!ReadStands(session[z])'
    BY DEF Br!ReadInv
  <2>1. CASE z = s
    BY <1>2, <2>1 DEF Br!ReadStands, Br!Moving, Br!InHand
  <2>2. CASE z # s
    BY <1>6, <2>2 DEF Br!ReadStands, Br!Moving
  <2> QED BY <2>1, <2>2
<1>10. Br!RowInv'
  BY <1>2 DEF Br!RowInv
<1>11. Br!OverlayAgrees'
  BY <1>2 DEF Br!OverlayAgrees
<1>12. Br!EventsFormPath'
  <2> SUFFICES ASSUME ~overlap', NEW e \in DOMAIN events' \ cut'.log
               PROVE  Br!Path(events'[e]) /\ Br!Logged(e)' = {Br!LeadsTo(events'[e])}
    BY DEF Br!EventsFormPath
  <2>1. /\ Br!Path(events'[e])
        /\ Br!LeadsTo(events'[e]) =
             IF Br!Logging(me, e) THEN me.from ELSE escalation'[e].status
    BY DEF LogStands
  <2>2. \A z \in ResolutionSessions : Br!Logging(session'[z], e) => z = s
    BY <1>6 DEF Br!Logging
  <2>3. CASE Br!Logging(me, e)
    <3>1. Br!Logged(e)' = {session'[z].from :
                             z \in {y \in ResolutionSessions : Br!Logging(session'[y], e)}}
      BY <1>2, <2>3 DEF Br!Logged
    <3>2. {y \in ResolutionSessions : Br!Logging(session'[y], e)} = {s}
      BY <1>2, <2>2, <2>3
    <3>3. Br!Logged(e)' = {me.from}
      BY <1>2, <3>1, <3>2
    <3> QED BY <2>1, <2>3, <3>3
  <2>4. CASE ~Br!Logging(me, e)
    BY <1>2, <2>1, <2>2, <2>4 DEF Br!Logged
  <2> QED BY <2>3, <2>4
<1> QED BY <1>4, <1>5, <1>7, <1>8, <1>9, <1>10, <1>11, <1>12

(* Unless requests overlap, the handlers other than the one that moves are *)
(* idle.                                                                   *)
LEMMA OthersIdle ==
  ASSUME Br!ResolutionInv, NEW s \in ResolutionSessions, session[s].pc # "idle", ~overlap
  PROVE  \A z \in ResolutionSessions : z # s => session[z].pc = "idle"
BY DEF Br!ResolutionInv, Br!AloneInv

LEMMA AdviceTypes ==
  ASSUME Br!TablesOK
  PROVE  Br!Derived0 \in Br!Advice
BY DEF Br!TablesOK, Br!Derived0, Br!RecommendationForResolutionState, Br!Advice

(* A request begins with what it has just read.                            *)
LEMMA RequestBegins ==
  ASSUME Br!ResolutionInv, NEW s \in ResolutionSessions, Br!Begin(s), NEW me, Br!HandlerOK(me),
         session' = [session EXCEPT ![s] = me],
         UNCHANGED <<kids, row, escalation, events, decisions, cut>>,
         me.pc = "opening_sync", Br!ReadStands(me), Br!Judged(me)
  PROVE  Br!ResolutionInv'
<1> USE DEF Br!ResolutionInv
<1>1. /\ counts' = [counts EXCEPT !.requests = @ + 1]
      /\ overlap' = (overlap \/ \E z \in ResolutionSessions \ {s} : session[z].pc # "idle")
      /\ session[s].pc = "idle"
  BY DEF Br!Begin
<1>2. Br!TablesOK
  BY DEF Br!TypeOK
<1>3. counts' \in [requests : Nat, changes : Nat] /\ counts'.changes = counts.changes
  BY <1>1, <1>2 DEF Br!TablesOK
<1>4. overlap' \in BOOLEAN
  BY <1>1
<1>5. Br!TablesOK'
  BY <1>2, <1>3, <1>4 DEF Br!TablesOK
<1>6. Br!DecidedWhenSettled'
  BY DEF Br!DecidedWhenSettled
<1>8. ASSUME ~overlap'
      PROVE  /\ \A z \in ResolutionSessions : z # s => session[z].pc = "idle"
             /\ Br!ReadStands(me)'
             /\ \A e \in Br!OpenOnes' : e = Len(escalation')
             /\ ~cut'.row => Br!RowShows'
             /\ row'.recommendation = Br!Derived0' /\ LogStands(me)'
  <2>1. \A z \in ResolutionSessions : session[z].pc = "idle"
    BY <1>1, <1>8
  <2>2. Br!ReadStands(me)'
    BY DEF Br!ReadStands, Br!Derived0, Br!Moving, Br!InHand, Br!Latest, Br!OpenOnes
  <2>3. \A e \in Br!OpenOnes' : e = Len(escalation')
    BY <1>1, <1>8 DEF Br!LastIsOpen, Br!OpenOnes
  <2>4. ~cut.row => Br!RowShows
    BY <1>1, <1>8, <2>1 DEF Br!RowInv
  <2>5. ~cut'.row => Br!RowShows'
    BY <2>4 DEF Br!RowShows, Br!Latest
  <2>6. row'.recommendation = Br!Derived0'
    BY <1>1, <1>8 DEF Br!OverlayAgrees, Br!Derived0
  <2>7. LogStands(session[s])
    BY <1>1, <1>8, <2>1, LogIs
  <2>8. LogStands(me)'
    BY <1>1, <2>7 DEF LogStands, Br!Logging
  <2> QED BY <2>1, <2>2, <2>3, <2>5, <2>6, <2>8
<1> QED
  BY <1>1, <1>3, <1>5, <1>6, <1>8, HandlerMoves

(* The requests of operators, and of a reader. *)
LEMMA RequestsBegin ==
  ASSUME Br!ResolutionInv, NEW s \in ResolutionSessions,
         \/ Br!ReadBundle(s)
         \/ \E type \in Br!Types : Br!RequestResolution(s, type)
         \/ \E type \in Br!EscalationTransitions, owner \in ResolutionSessions :
              Br!RequestTransition(s, type, owner)
  PROVE  Br!ResolutionInv'
<1>0. Br!TablesOK /\ Br!Derived0 \in Br!Advice
  BY AdviceTypes DEF Br!ResolutionInv, Br!TypeOK
<1>T. Br!Types = {"accept_partial_application", "mark_bundle_manually_resolved",
                  "escalate_bundle_for_review"}
  BY DEF Br!Types, Br!TargetResolutionState
<1>1. CASE Br!ReadBundle(s)
  <2>1. PICK me : me = [pc |-> "opening_sync", type |-> "read", open |-> FALSE, seen |-> 0,
                        esc |-> 0, from |-> "none", owner |-> "none",
                        recommendation |-> Br!Derived0]
    OBVIOUS
  <2>2. /\ session' = [session EXCEPT ![s] = me]
        /\ UNCHANGED <<kids, row, escalation, events, decisions, cut>> /\ Br!Begin(s)
    BY <1>1, <2>1 DEF Br!ReadBundle, Br!Opening
  <2>3. me \in Br!Handler
    BY <1>0, <2>1 DEF Br!Handler, Br!Unwritten
  <2>4. ~Br!Moving(me)
    BY <2>1 DEF Br!Moving, Br!EscalationTransitions
  <2>5. Br!HandlerOK(me)
    BY <2>1, <2>3, <2>4 DEF Br!HandlerOK
  <2>6. Br!ReadStands(me) /\ Br!Judged(me)
    BY <2>1, <2>4 DEF Br!ReadStands, Br!Judged
  <2> QED BY <2>1, <2>2, <2>5, <2>6, RequestBegins
<1>2. ASSUME NEW type \in Br!Types, Br!RequestResolution(s, type)
      PROVE  Br!ResolutionInv'
  <2>0. PICK open : open = (Br!Blocks(type) = {})
    OBVIOUS
  <2>1. PICK me : me = [pc |-> "opening_sync", type |-> type, open |-> open,
                        seen |-> counts.changes, esc |-> 0, from |-> "none", owner |-> "none",
                        recommendation |-> Br!Derived0]
    OBVIOUS
  <2>2. /\ session' = [session EXCEPT ![s] = me]
        /\ UNCHANGED <<kids, row, escalation, events, decisions, cut>> /\ Br!Begin(s)
    <3>1. me = Br!Opening(type, open, counts.changes, 0, "none", "none")
      BY <2>1 DEF Br!Opening
    <3>2. session' = [session EXCEPT ![s] =
                        Br!Opening(type, open, counts.changes, 0, "none", "none")]
      BY <1>2, <2>0 DEF Br!RequestResolution
    <3> QED BY <1>2, <3>1, <3>2 DEF Br!RequestResolution
  <2>3. me \in Br!Handler
    <3>1. open \in BOOLEAN
      BY <2>0
    <3>2. counts.changes \in Nat
      BY <1>0 DEF Br!TablesOK
    <3> QED BY <1>0, <2>1, <3>1, <3>2 DEF Br!Handler, Br!Unwritten
  <2>4. ~Br!Moving(me)
    BY <1>T, <2>1 DEF Br!Moving, Br!EscalationTransitions
  <2>5. Br!HandlerOK(me)
    BY <1>T, <2>1, <2>3, <2>4 DEF Br!HandlerOK
  <2>6. open => kids.inflight = 0
    <3>1. Br!Blocks(type) = {} => ~(kids.inflight > 0)
      BY DEF Br!Blocks, Br!ResolutionBlocks
    <3>2. open => ~(kids.inflight > 0)
      BY <2>0, <3>1
    <3> QED BY <1>0, <3>2 DEF Br!TablesOK
  <2>7. Br!Judged(me)
    <3>1. me.open = open /\ me.seen = counts.changes /\ counts.changes \in Nat
      BY <1>0, <2>1 DEF Br!TablesOK
    <3>2. me.open => kids.inflight = 0
      BY <2>6, <3>1
    <3> QED BY <3>1, <3>2 DEF Br!Judged
  <2>8. Br!ReadStands(me)
    BY <2>1, <2>4 DEF Br!ReadStands
  <2> QED BY <2>1, <2>2, <2>5, <2>7, <2>8, RequestBegins
<1>3. ASSUME NEW type \in Br!EscalationTransitions, NEW owner \in ResolutionSessions,
             Br!RequestTransition(s, type, owner)
      PROVE  Br!ResolutionInv'
  <2>1. PICK me : me = [pc |-> "opening_sync", type |-> type, open |-> FALSE,
                        seen |-> 0, esc |-> Len(escalation), from |-> Br!Latest.status,
                        owner |-> owner, recommendation |-> Br!Derived0]
    OBVIOUS
  <2>2. /\ session' = [session EXCEPT ![s] = me]
        /\ UNCHANGED <<kids, row, escalation, events, decisions, cut>> /\ Br!Begin(s)
        /\ Br!EscalationBlocks(type, row.resolution, Br!Latest) = {}
        /\ type # "assign" => owner = Br!Latest.owner
    <3>1. me = Br!Opening(type, FALSE, 0, Len(escalation), Br!Latest.status, owner)
      BY <2>1 DEF Br!Opening
    <3> QED BY <1>3, <3>1 DEF Br!RequestTransition
  <2>3. Br!Latest.status # "none" /\ Br!Latest.status # "resolved"
    BY <2>2 DEF Br!EscalationBlocks
  <2>4. escalation # <<>> /\ Br!Latest.status \in Br!Statuses
    <3>1. escalation # <<>>
      BY <2>3 DEF Br!Latest
    <3>2. escalation \in Seq([status : Br!Statuses, owner : ResolutionSessions])
      BY <1>0 DEF Br!TablesOK
    <3>3. escalation[Len(escalation)] \in [status : Br!Statuses, owner : ResolutionSessions]
      BY <3>1, <3>2, LastEntry
    <3>4. Br!Latest = escalation[Len(escalation)]
      BY <3>1 DEF Br!Latest
    <3> QED BY <3>1, <3>3, <3>4
  <2>5. me \in Br!Handler
    <3>1. Len(escalation) \in Nat
      BY <1>0 DEF Br!TablesOK
    <3> QED BY <1>0, <2>1, <2>4, <3>1 DEF Br!Handler, Br!Unwritten
  <2>6. Br!HandlerOK(me)
    BY <2>1, <2>3, <2>4, <2>5 DEF Br!HandlerOK, Br!EscalationTransitions
  <2>7. Br!ReadStands(me) /\ Br!Judged(me)
    BY <2>1, <2>2, <2>4 DEF Br!ReadStands, Br!Judged, Br!InHand
  <2> QED BY <2>1, <2>2, <2>6, <2>7, RequestBegins
<1> QED BY <1>1, <1>2, <1>3

(* A step of a handler that leaves the escalations and their events alone, *)
(* and if it was about to record one leaves that escalation in cut.        *)
LEMMA HandlerSteps ==
  ASSUME Br!ResolutionInv, NEW s \in ResolutionSessions, session[s].pc # "idle",
         NEW me, Br!HandlerOK(me), session' = [session EXCEPT ![s] = me], me.pc # "event",
         UNCHANGED <<kids, escalation, events, overlap>>, counts'.changes = counts.changes,
         cut.log \subseteq cut'.log, session[s].pc = "event" => session[s].esc \in cut'.log,
         Br!TablesOK', Br!Judged(me), Br!DecidedWhenSettled',
         ~overlap => /\ Br!ReadStands(me)'
                     /\ me.pc # "row" /\ ~cut'.row => Br!RowShows'
                     /\ row'.recommendation = Br!Derived0'
  PROVE  Br!ResolutionInv'
<1>1. ASSUME ~overlap PROVE LogStands(me)'
  <2>1. LogStands(session[s])
    BY <1>1, OthersIdle, LogIs DEF Br!ResolutionInv
  <2> QED BY <2>1 DEF LogStands, Br!Logging
<1>2. ASSUME ~overlap
      PROVE  \A e \in Br!OpenOnes' : e = Len(escalation')
  BY <1>2 DEF Br!ResolutionInv, Br!LastIsOpen, Br!OpenOnes
<1> QED
  BY <1>1, <1>2, OthersIdle, HandlerMoves

(* Unless requests overlap, the row shows the latest escalation while its  *)
(* handler is not about to write it.                                       *)
LEMMA RowShown ==
  ASSUME Br!ResolutionInv, NEW s \in ResolutionSessions,
         session[s].pc \notin {"idle", "event", "row"}, ~overlap
  PROVE  ~cut.row => Br!RowShows
BY OthersIdle DEF Br!ResolutionInv, Br!RowInv

LEMMA AdviceStands ==
  ASSUME Br!ResolutionInv, ~overlap
  PROVE  row.recommendation = Br!Derived0
BY DEF Br!ResolutionInv, Br!OverlayAgrees

(* The two writes of a sync. *)
LEMMA Synced ==
  ASSUME Br!ResolutionInv, NEW s \in ResolutionSessions,
         Br!WriteRecommendation(s) \/ Br!ClosingSync(s)
  PROVE  Br!ResolutionInv'
<1>0. Br!TablesOK /\ Br!Derived0 \in Br!Advice /\ Br!HandlerOK(session[s]) /\ Br!Judged(session[s])
  BY AdviceTypes DEF Br!ResolutionInv, Br!TypeOK, Br!JudgedInv
<1>R. ~overlap => Br!ReadStands(session[s])
  BY DEF Br!ResolutionInv, Br!ReadInv
<1>D. UNCHANGED decisions => Br!DecidedWhenSettled'
  BY DEF Br!ResolutionInv, Br!DecidedWhenSettled
<1>1. CASE Br!ClosingSync(s)
  <2>1. PICK me : me = [session[s] EXCEPT !.pc = "closing_sync", !.recommendation = Br!Derived0]
    OBVIOUS
  <2>2. /\ session' = [session EXCEPT ![s] = me] /\ session[s].pc = "done"
        /\ UNCHANGED <<kids, row, escalation, events, decisions, counts, overlap, cut>>
    BY <1>1, <2>1 DEF Br!ClosingSync
  <2>3. /\ me \in Br!Handler /\ me.pc = "closing_sync" /\ me.recommendation = Br!Derived0
        /\ me.type = session[s].type
    BY <1>0, <2>1 DEF Br!HandlerOK, Br!Handler
  <2>4. Br!HandlerOK(me)
    BY <1>0, <2>2, <2>3 DEF Br!HandlerOK, Br!Moving
  <2>5. Br!Judged(me)
    BY <2>3 DEF Br!Judged
  <2>6. Br!TablesOK'
    BY <1>0, <2>2 DEF Br!TablesOK
  <2>7. Br!ReadStands(me)'
    BY <2>2, <2>3 DEF Br!ReadStands, Br!Moving, Br!Derived0
  <2>8. ~overlap => (~cut'.row => Br!RowShows') /\ row'.recommendation = Br!Derived0'
    BY <2>2, RowShown, AdviceStands DEF Br!RowShows, Br!Latest, Br!Derived0
  <2> QED BY <1>D, <2>2, <2>3, <2>4, <2>5, <2>6, <2>7, <2>8, HandlerSteps
<1>2. CASE Br!WriteRecommendation(s)
  <2>1. PICK me : me = IF session[s].pc = "closing_sync" \/ session[s].type = "read" THEN Br!Idle
                       ELSE [session[s] EXCEPT !.pc = IF session[s].type \in Br!Types
                                                      THEN "decide" ELSE "transition"]
    OBVIOUS
  <2>2. /\ session' = [session EXCEPT ![s] = me]
        /\ session[s].pc \in {"opening_sync", "closing_sync"}
        /\ row' = [row EXCEPT !.recommendation = session[s].recommendation]
        /\ UNCHANGED <<kids, escalation, events, decisions, counts, overlap, cut>>
    BY <1>2, <2>1 DEF Br!WriteRecommendation
  <2>3. row' \in [resolution : {"unresolved", "accepted_partial", "manually_resolved", "escalated"},
                  recommendation : Br!Advice \cup Br!Unwritten, latest : Nat,
                  status : Br!Statuses \cup Br!Unwritten,
                  owner : ResolutionSessions \cup Br!Unwritten]
        /\ row'.recommendation = session[s].recommendation
        /\ row'.resolution = row.resolution /\ row'.latest = row.latest
        /\ row'.status = row.status /\ row'.owner = row.owner
    BY <1>0, <2>2 DEF Br!TablesOK, Br!HandlerOK, Br!Handler
  <2>4. Br!TablesOK'
    BY <1>0, <2>2, <2>3 DEF Br!TablesOK
  <2>5. Br!Derived0' = Br!Derived0
    BY <2>3 DEF Br!Derived0
  <2>6. ~overlap => row'.recommendation = Br!Derived0'
    BY <1>R, <2>2, <2>3, <2>5 DEF Br!ReadStands
  <2>7. ~overlap => (~cut'.row => Br!RowShows')
    BY <2>2, <2>3, RowShown DEF Br!RowShows, Br!Latest
  <2>8. CASE me = Br!Idle
    <3>1. me \in Br!Handler /\ me.pc = "idle"
      BY <2>8 DEF Br!Idle, Br!Handler, Br!Unwritten
    <3>2. Br!HandlerOK(me) /\ Br!Judged(me) /\ Br!ReadStands(me)'
      BY <3>1 DEF Br!HandlerOK, Br!Judged, Br!ReadStands, Br!Moving
    <3> QED BY <1>D, <2>2, <2>4, <2>6, <2>7, <3>1, <3>2, HandlerSteps
  <2>9. CASE me # Br!Idle
    <3>1. /\ session[s].pc = "opening_sync" /\ session[s].type # "read"
          /\ me = [session[s] EXCEPT !.pc = IF session[s].type \in Br!Types
                                            THEN "decide" ELSE "transition"]
      BY <2>1, <2>2, <2>9
    <3>2. /\ me \in Br!Handler
          /\ me.pc = IF session[s].type \in Br!Types THEN "decide" ELSE "transition"
          /\ me.type = session[s].type /\ me.open = session[s].open /\ me.seen = session[s].seen
          /\ me.esc = session[s].esc /\ me.from = session[s].from /\ me.owner = session[s].owner
      BY <1>0, <3>1 DEF Br!HandlerOK, Br!Handler
    <3>3. session[s].type \in Br!Types \cup Br!EscalationTransitions
      BY <1>0, <3>1 DEF Br!HandlerOK, Br!Handler
    <3>4. Br!Moving(me) => Br!Moving(session[s])
      BY <3>1, <3>2 DEF Br!Moving
    <3>5. Br!HandlerOK(me)
      BY <1>0, <3>1, <3>2, <3>3, <3>4 DEF Br!HandlerOK
    <3>6. Br!Judged(me)
      BY <1>0, <3>1, <3>2 DEF Br!Judged
    <3>7. ~overlap => Br!ReadStands(me)'
      BY <1>R, <2>2, <3>2, <3>4 DEF Br!ReadStands, Br!InHand, Br!Latest, Br!Moving
    <3> QED BY <1>D, <2>2, <2>4, <2>6, <2>7, <3>2, <3>5, <3>6, <3>7, HandlerSteps
  <2> QED BY <2>8, <2>9
<1> QED BY <1>1, <1>2

(* What an invariant says of the latest escalation and its events. *)
LEMMA TablesTypes ==
  ASSUME Br!TablesOK
  PROVE  /\ escalation \in Seq([status : Br!Statuses, owner : ResolutionSessions])
         /\ events \in Seq(Seq([from : Br!Statuses \cup Br!Unwritten, to : Br!Statuses]))
         /\ Len(events) = Len(escalation) /\ Len(escalation) \in Nat
         /\ row \in [resolution : {"unresolved", "accepted_partial", "manually_resolved", "escalated"},
                     recommendation : Br!Advice \cup Br!Unwritten, latest : Nat,
                     status : Br!Statuses \cup Br!Unwritten,
                     owner : ResolutionSessions \cup Br!Unwritten]
         /\ kids.inflight \in 0..1 /\ counts \in [requests : Nat, changes : Nat]
         /\ cut \in [log : SUBSET Nat, row : BOOLEAN]
<1>1. escalation \in Seq([status : Br!Statuses, owner : ResolutionSessions])
  BY DEF Br!TablesOK
<1> QED BY <1>1 DEF Br!TablesOK

(* A handler that has only its closing sync left, or nothing. *)
LEMMA HandlerEnds ==
  ASSUME NEW me \in {Br!Done, Br!Idle}
  PROVE  /\ me \in Br!Handler /\ me.pc \in {"done", "idle"} /\ Br!HandlerOK(me)
         /\ Br!Judged(me) /\ Br!ReadStands(me)'
<1>0. Br!Idle \in Br!Handler /\ Br!Idle.pc = "idle"
  BY DEF Br!Idle, Br!Handler, Br!Unwritten
<1>1. Br!Done \in Br!Handler /\ Br!Done.pc = "done"
  BY <1>0 DEF Br!Done, Br!Handler
<1> QED BY <1>0, <1>1 DEF Br!HandlerOK, Br!Moving, Br!Judged, Br!ReadStands

(* Recording the decision, and the resolution state of the row. *)
LEMMA Resolved ==
  ASSUME Br!ResolutionInv, NEW s \in ResolutionSessions,
         Br!RecordDecision(s) \/ Br!UpdateResolutionState(s)
  PROVE  Br!ResolutionInv'
<1>0. Br!TablesOK /\ Br!HandlerOK(session[s]) /\ Br!Judged(session[s])
  BY DEF Br!ResolutionInv, Br!TypeOK, Br!JudgedInv
<1>T. Br!Types = {"accept_partial_application", "mark_bundle_manually_resolved",
                  "escalate_bundle_for_review"}
  BY DEF Br!Types, Br!TargetResolutionState
<1>1. CASE Br!RecordDecision(s)
  <2>1. PICK d : d = [status |-> IF session[s].open THEN "completed" ELSE "blocked",
                      inflight |-> kids.inflight > 0,
                      changed |-> counts.changes # session[s].seen]
    OBVIOUS
  <2>2. PICK me : me = IF session[s].open THEN [session[s] EXCEPT !.pc = "resolve"] ELSE Br!Done
    OBVIOUS
  <2>3. /\ session[s].pc = "decide" /\ decisions' = decisions \cup {d}
        /\ session' = [session EXCEPT ![s] = me]
        /\ UNCHANGED <<kids, row, escalation, events, counts, overlap, cut>>
    BY <1>1, <2>1, <2>2 DEF Br!RecordDecision
  <2>4. ASSUME session[s].open
        PROVE  me.pc = "resolve" /\ Br!HandlerOK(me) /\ Br!Judged(me) /\ Br!ReadStands(me)'
    <3>1. me \in Br!Handler /\ me.pc = "resolve" /\ me.type = session[s].type
      BY <1>0, <2>2, <2>4 DEF Br!HandlerOK, Br!Handler
    <3> QED BY <1>0, <2>3, <3>1 DEF Br!HandlerOK, Br!Moving, Br!Judged, Br!ReadStands
  <2>5. /\ me.pc \in {"resolve", "done", "idle"} /\ Br!HandlerOK(me) /\ Br!Judged(me)
        /\ Br!ReadStands(me)'
    BY <2>2, <2>4, HandlerEnds
  <2>6. Br!TablesOK'
    BY <1>0, <2>3 DEF Br!TablesOK
  <2>7. d.status = "completed" /\ d.inflight => d.changed
    <3>1. session[s].open /\ kids.inflight > 0 => counts.changes # session[s].seen
      BY <1>0, <2>3, TablesTypes DEF Br!Judged
    <3>2. /\ d.status = IF session[s].open THEN "completed" ELSE "blocked"
          /\ d.inflight = (kids.inflight > 0) /\ d.changed = (counts.changes # session[s].seen)
      BY <2>1
    <3> QED BY <3>1, <3>2
  <2>8. Br!DecidedWhenSettled'
    BY <2>3, <2>7 DEF Br!DecidedWhenSettled, Br!ResolutionInv
  <2>9. ~overlap => (~cut'.row => Br!RowShows') /\ row'.recommendation = Br!Derived0'
    BY <2>3, RowShown, AdviceStands DEF Br!RowShows, Br!Latest, Br!Derived0
  <2> QED BY <2>3, <2>5, <2>6, <2>8, <2>9, HandlerSteps
<1>2. CASE Br!UpdateResolutionState(s)
  <2>1. PICK me : me = IF session[s].type = "escalate_bundle_for_review"
                       THEN [session[s] EXCEPT !.pc = "look"] ELSE Br!Done
    OBVIOUS
  <2>2. PICK r, c : r = Br!TargetResolutionState[session[s].type]
                    /\ c = Br!RecommendationForResolutionState(r, row.recommendation)
    OBVIOUS
  <2>3. /\ session[s].pc = "resolve"
        /\ row' = [row EXCEPT !.resolution = r, !.recommendation = c]
        /\ session' = [session EXCEPT ![s] = me]
        /\ UNCHANGED <<kids, escalation, events, decisions, counts, overlap, cut>>
    BY <1>2, <2>1, <2>2 DEF Br!UpdateResolutionState
  <2>4. r \in {"accepted_partial", "manually_resolved", "escalated"}
    BY <1>0, <1>T, <2>2, <2>3 DEF Br!TargetResolutionState, Br!HandlerOK
  <2>5. c \in Br!Advice
    BY <2>2, <2>4 DEF Br!RecommendationForResolutionState, Br!Advice
  <2>6. ASSUME session[s].type = "escalate_bundle_for_review"
        PROVE  me.pc = "look" /\ Br!HandlerOK(me) /\ Br!Judged(me) /\ Br!ReadStands(me)'
    <3>1. me \in Br!Handler /\ me.pc = "look" /\ me.type = session[s].type
      BY <1>0, <2>1, <2>6 DEF Br!HandlerOK, Br!Handler
    <3> QED BY <1>0, <2>3, <2>6, <3>1 DEF Br!HandlerOK, Br!Moving, Br!Judged, Br!ReadStands
  <2>7. /\ me.pc \in {"look", "done", "idle"} /\ Br!HandlerOK(me) /\ Br!Judged(me)
        /\ Br!ReadStands(me)'
    BY <2>1, <2>6, HandlerEnds
  <2>8. row' \in [resolution : {"unresolved", "accepted_partial", "manually_resolved", "escalated"},
                  recommendation : Br!Advice \cup Br!Unwritten, latest : Nat,
                  status : Br!Statuses \cup Br!Unwritten,
                  owner : ResolutionSessions \cup Br!Unwritten]
        /\ row'.latest = row.latest /\ row'.status = row.status /\ row'.owner = row.owner
        /\ row'.recommendation = c /\ row'.resolution = r
    BY <1>0, <2>3, <2>4, <2>5, TablesTypes
  <2>9. Br!TablesOK'
    BY <1>0, <2>3, <2>8 DEF Br!TablesOK
  <2>10. Br!DecidedWhenSettled'
    BY <2>3 DEF Br!DecidedWhenSettled, Br!ResolutionInv
  <2>11. ~overlap => (~cut'.row => Br!RowShows')
    BY <2>3, <2>8, RowShown DEF Br!RowShows, Br!Latest
  <2>12. row'.recommendation = Br!Derived0'
    BY <2>2, <2>4, <2>8 DEF Br!Derived0, Br!RecommendationForResolutionState
  <2> QED BY <2>3, <2>7, <2>9, <2>10, <2>11, <2>12, HandlerSteps
<1> QED BY <1>1, <1>2

LEMMA HoldingTypes ==
  ASSUME NEW me \in Br!Handler, NEW e \in Nat, NEW esc,
         esc.status \in Br!Statuses, esc.owner \in ResolutionSessions
  PROVE  LET it == Br!Holding(me, e, esc)
         IN /\ it \in Br!Handler /\ it.pc = "row" /\ it.type = me.type /\ it.esc = e
            /\ it.from = esc.status /\ it.owner = esc.owner
<1>1. PICK from, owner : from = esc.status /\ owner = esc.owner
  OBVIOUS
<1>2. PICK it : it = [me EXCEPT !.pc = "row", !.esc = e, !.from = from, !.owner = owner]
  OBVIOUS
<1>3. it = Br!Holding(me, e, esc)
  BY <1>1, <1>2 DEF Br!Holding
<1>4. /\ it \in Br!Handler /\ it.pc = "row" /\ it.type = me.type /\ it.esc = e
      /\ it.from = from /\ it.owner = owner
  BY <1>1, <1>2 DEF Br!Handler
<1> QED BY <1>1, <1>3, <1>4

(* Looking for the open escalation, and writing the row's columns. *)
LEMMA Overlaid ==
  ASSUME Br!ResolutionInv, NEW s \in ResolutionSessions,
         Br!FindOpen(s) \/ Br!UpdateEscalationState(s)
  PROVE  Br!ResolutionInv'
<1>0. Br!TablesOK /\ Br!HandlerOK(session[s])
  BY DEF Br!ResolutionInv, Br!TypeOK
<1>1. CASE Br!FindOpen(s) /\ Br!OpenOnes = {}
  <2>1. PICK me : me = [session[s] EXCEPT !.pc = "create"]
    OBVIOUS
  <2>2. /\ session[s].pc = "look" /\ session' = [session EXCEPT ![s] = me]
        /\ UNCHANGED <<kids, row, escalation, events, decisions, counts, overlap, cut>>
    BY <1>1, <2>1 DEF Br!FindOpen
  <2>3. me \in Br!Handler /\ me.pc = "create" /\ me.type = session[s].type
    BY <1>0, <2>1 DEF Br!HandlerOK, Br!Handler
  <2>4. Br!HandlerOK(me) /\ Br!Judged(me)
    BY <1>0, <2>2, <2>3 DEF Br!HandlerOK, Br!Moving, Br!Judged
  <2>5. Br!ReadStands(me)'
    BY <1>1, <2>2, <2>3 DEF Br!ReadStands, Br!Moving, Br!OpenOnes
  <2>6. Br!TablesOK'
    BY <1>0, <2>2 DEF Br!TablesOK
  <2>7. Br!DecidedWhenSettled'
    BY <2>2 DEF Br!DecidedWhenSettled, Br!ResolutionInv
  <2>8. ~overlap => (~cut'.row => Br!RowShows') /\ row'.recommendation = Br!Derived0'
    BY <2>2, RowShown, AdviceStands DEF Br!RowShows, Br!Latest, Br!Derived0
  <2> QED BY <2>2, <2>3, <2>4, <2>5, <2>6, <2>7, <2>8, HandlerSteps
<1>2. CASE Br!FindOpen(s) /\ Br!OpenOnes # {}
  <2>1. PICK e \in Br!OpenOnes :
          session' = [session EXCEPT ![s] = Br!Holding(session[s], e, escalation[e])]
    BY <1>2 DEF Br!FindOpen
  <2>2. PICK me : me = Br!Holding(session[s], e, escalation[e])
    OBVIOUS
  <2>3. /\ session[s].pc = "look" /\ session' = [session EXCEPT ![s] = me]
        /\ UNCHANGED <<kids, row, escalation, events, decisions, counts, overlap, cut>>
    BY <1>2, <2>1, <2>2 DEF Br!FindOpen
  <2>4. /\ e \in DOMAIN escalation /\ e \in Nat
        /\ escalation[e] \in [status : Br!Statuses, owner : ResolutionSessions]
    <3>1. escalation \in Seq([status : Br!Statuses, owner : ResolutionSessions])
      BY <1>0, TablesTypes
    <3>2. e \in DOMAIN escalation
      BY DEF Br!OpenOnes
    <3> QED BY <3>1, <3>2, EntryOf
  <2>5. /\ me \in Br!Handler /\ me.pc = "row" /\ me.type = session[s].type /\ me.esc = e
        /\ me.from = escalation[e].status /\ me.owner = escalation[e].owner
    <3>1. escalation[e].status \in Br!Statuses /\ escalation[e].owner \in ResolutionSessions
      BY <2>4
    <3> QED BY <1>0, <2>2, <2>4, <3>1, HoldingTypes DEF Br!HandlerOK
  <2>6. Br!HandlerOK(me) /\ Br!Judged(me)
    BY <1>0, <2>3, <2>5 DEF Br!HandlerOK, Br!Moving, Br!Judged
  <2>7. ~overlap => Br!ReadStands(me)'
    <3>1. ~overlap => e = Len(escalation)
      BY DEF Br!ResolutionInv, Br!LastIsOpen
    <3>2. escalation # <<>>
      BY <2>4
    <3> QED BY <2>3, <2>5, <3>1, <3>2 DEF Br!ReadStands, Br!Moving, Br!InHand, Br!Latest
  <2>8. Br!TablesOK'
    BY <1>0, <2>3 DEF Br!TablesOK
  <2>9. Br!DecidedWhenSettled'
    BY <2>3 DEF Br!DecidedWhenSettled, Br!ResolutionInv
  <2>10. ~overlap => row'.recommendation = Br!Derived0'
    BY <2>3, AdviceStands DEF Br!Derived0
  <2> QED BY <2>3, <2>5, <2>6, <2>7, <2>8, <2>9, <2>10, HandlerSteps
<1>3. CASE Br!UpdateEscalationState(s)
  <2>1. PICK me : me = Br!Done
    OBVIOUS
  <2>2. /\ session[s].pc = "row" /\ session' = [session EXCEPT ![s] = me]
        /\ row' = [row EXCEPT !.latest = session[s].esc, !.status = session[s].from,
                              !.owner = session[s].owner]
        /\ cut' = [cut EXCEPT !.row = FALSE]
        /\ UNCHANGED <<kids, escalation, events, decisions, counts, overlap>>
    BY <1>3, <2>1 DEF Br!UpdateEscalationState
  <2>3. /\ me.pc \in {"done", "idle"} /\ Br!HandlerOK(me) /\ Br!Judged(me)
        /\ Br!ReadStands(me)'
    BY <2>1, HandlerEnds
  <2>4. cut' \in [log : SUBSET Nat, row : BOOLEAN] /\ cut'.log = cut.log
    BY <1>0, <2>2, TablesTypes
  <2>5. /\ session[s].esc \in Nat /\ session[s].from \in Br!Statuses \cup Br!Unwritten
        /\ session[s].owner \in ResolutionSessions \cup Br!Unwritten
    BY <1>0 DEF Br!HandlerOK, Br!Handler
  <2>6. row' \in [resolution : {"unresolved", "accepted_partial", "manually_resolved", "escalated"},
                  recommendation : Br!Advice \cup Br!Unwritten, latest : Nat,
                  status : Br!Statuses \cup Br!Unwritten,
                  owner : ResolutionSessions \cup Br!Unwritten]
        /\ row'.latest = session[s].esc /\ row'.status = session[s].from
        /\ row'.owner = session[s].owner /\ row'.recommendation = row.recommendation
        /\ row'.resolution = row.resolution
    BY <1>0, <2>2, <2>5, TablesTypes
  <2>7. Br!TablesOK'
    BY <1>0, <2>2, <2>4, <2>6 DEF Br!TablesOK
  <2>8. Br!DecidedWhenSettled'
    BY <2>2 DEF Br!DecidedWhenSettled, Br!ResolutionInv
  <2>9. ~overlap => Br!RowShows'
    <3>1. ~overlap => Br!InHand(session[s]) /\ session[s].owner = Br!Latest.owner
      BY <2>2 DEF Br!ResolutionInv, Br!ReadInv, Br!ReadStands
    <3> QED BY <2>2, <2>6, <3>1 DEF Br!RowShows, Br!InHand, Br!Latest
  <2>10. ~overlap => row'.recommendation = Br!Derived0'
    BY <2>2, <2>6, AdviceStands DEF Br!Derived0
  <2> QED BY <2>2, <2>3, <2>4, <2>7, <2>8, <2>9, <2>10, HandlerSteps
<1> QED BY <1>1, <1>2, <1>3

(* A path goes on from where it led. *)
LEMMA PathExtends ==
  ASSUME NEW S, NEW list \in Seq(S), Br!Path(list), NEW ev \in S,
         ev.from = Br!LeadsTo(list), ev.from # "resolved"
  PROVE  /\ Append(list, ev) \in Seq(S) /\ Br!Path(Append(list, ev))
         /\ Br!LeadsTo(Append(list, ev)) = ev.to
<1>1. PICK new : new = Append(list, ev)
  OBVIOUS
<1>2. new \in Seq(S) /\ Extended(list, new, ev)
  BY <1>1, ExtendedTable
<1>3. /\ Len(new) = Len(list) + 1 /\ new[Len(new)] = ev /\ Len(list) \in Nat
      /\ \A j \in 1..Len(list) : new[j] = list[j]
      /\ DOMAIN new = 1..Len(new) /\ DOMAIN list = 1..Len(list)
  BY <1>2 DEF Extended
<1>4. Br!Path(new)
  <2> SUFFICES ASSUME NEW i \in DOMAIN new
               PROVE  /\ new[i].from = (IF i = 1 THEN "none" ELSE new[i - 1].to)
                      /\ new[i].from # "resolved"
    BY DEF Br!Path
  <2>1. CASE i = Len(new) /\ i = 1
    <3>1. list = <<>>
      BY <1>3, <2>1
    <3> QED BY <1>3, <2>1, <3>1 DEF Br!LeadsTo
  <2>2. CASE i = Len(new) /\ i # 1
    <3>1. i - 1 = Len(list) /\ i - 1 \in 1..Len(list) /\ list # <<>>
      BY <1>3, <2>2
    <3>2. ev.from = list[Len(list)].to
      BY <3>1 DEF Br!LeadsTo
    <3> QED BY <1>3, <2>2, <3>1, <3>2
  <2>3. CASE i # Len(new)
    <3>1. i \in 1..Len(list) /\ (i # 1 => i - 1 \in 1..Len(list))
      BY <1>3, <2>3
    <3>2. /\ list[i].from = (IF i = 1 THEN "none" ELSE list[i - 1].to)
          /\ list[i].from # "resolved"
      BY <1>3, <3>1 DEF Br!Path
    <3> QED BY <1>3, <3>1, <3>2
  <2> QED BY <2>1, <2>2, <2>3
<1>5. Br!LeadsTo(new) = ev.to
  <2>1. new # <<>>
    BY <1>2, <1>3
  <2> QED BY <1>3, <2>1 DEF Br!LeadsTo
<1> QED BY <1>1, <1>2, <1>4, <1>5

(* A new escalation is the latest, and while requests do not overlap the   *)
(* only one that is open.                                                  *)
LEMMA Created ==
  ASSUME Br!ResolutionInv, NEW s \in ResolutionSessions, Br!CreateEscalation(s)
  PROVE  Br!ResolutionInv'
<1>0. Br!TablesOK /\ Br!HandlerOK(session[s])
  BY DEF Br!ResolutionInv, Br!TypeOK
<1>p. PICK esc, n : esc = [status |-> "open", owner |-> s] /\ n = Len(escalation) + 1
  OBVIOUS
<1>q. PICK me : me = [session[s] EXCEPT !.pc = "event", !.esc = n, !.from = "none", !.owner = s]
  OBVIOUS
<1>1. /\ esc = [status |-> "open", owner |-> s] /\ n = Len(escalation) + 1
      /\ me = [session[s] EXCEPT !.pc = "event", !.esc = n, !.from = "none", !.owner = s]
  BY <1>p, <1>q
<1>2. /\ session[s].pc = "create" /\ escalation' = Append(escalation, esc)
      /\ events' = Append(events, <<>>) /\ session' = [session EXCEPT ![s] = me]
      /\ UNCHANGED <<kids, row, decisions, counts, overlap, cut>>
  BY <1>1 DEF Br!CreateEscalation
<1>3. /\ esc.status = "open" /\ esc.owner = s
      /\ esc \in [status : Br!Statuses, owner : ResolutionSessions]
  BY <1>1 DEF Br!Statuses
<1>4. <<>> \in Seq([from : Br!Statuses \cup Br!Unwritten, to : Br!Statuses])
  OBVIOUS
<1>5. /\ escalation' \in Seq([status : Br!Statuses, owner : ResolutionSessions])
      /\ Extended(escalation, escalation', esc)
  BY <1>0, <1>2, <1>3, TablesTypes, ExtendedTable
<1>6. /\ events' \in Seq(Seq([from : Br!Statuses \cup Br!Unwritten, to : Br!Statuses]))
      /\ Extended(events, events', <<>>)
  BY <1>0, <1>2, <1>4, TablesTypes, ExtendedTable
<1>7. /\ Len(escalation') = Len(escalation) + 1 /\ Len(events') = Len(escalation')
      /\ Len(escalation) \in Nat /\ DOMAIN events = DOMAIN escalation
      /\ escalation' # <<>> /\ escalation'[Len(escalation')] = esc
      /\ DOMAIN events = 1..Len(escalation) /\ n \in Nat /\ n = Len(escalation')
  <2>1. Len(events) = Len(escalation) /\ Len(escalation) \in Nat
    BY <1>0, TablesTypes
  <2>2. Len(escalation') = Len(escalation) + 1 /\ Len(events') = Len(events) + 1
    BY <1>5, <1>6 DEF Extended
  <2>3. DOMAIN events = 1..Len(events) /\ DOMAIN escalation = 1..Len(escalation)
    BY <1>0, TablesTypes
  <2>4. escalation'[Len(escalation')] = esc
    BY <1>5 DEF Extended
  <2>5. escalation' # <<>>
    BY <2>1, <2>2
  <2> QED BY <1>1, <2>1, <2>2, <2>3, <2>4, <2>5
<1>8. Br!TablesOK'
  BY <1>0, <1>2, <1>5, <1>6, <1>7 DEF Br!TablesOK
<1>9. /\ me \in Br!Handler /\ me.pc = "event" /\ me.type = session[s].type
      /\ me.esc = n /\ me.from = "none" /\ me.owner = s
      /\ me.type = "escalate_bundle_for_review"
  BY <1>0, <1>1, <1>2, <1>7 DEF Br!HandlerOK, Br!Handler, Br!Unwritten
<1>10. Br!HandlerOK(me) /\ Br!Judged(me)
  BY <1>9 DEF Br!HandlerOK, Br!Moving, Br!Judged
<1>11. Br!DecidedWhenSettled'
  BY <1>2 DEF Br!DecidedWhenSettled, Br!ResolutionInv
<1>12. Br!ReadStands(me)'
  BY <1>3, <1>7, <1>9 DEF Br!ReadStands, Br!Moving, Br!InHand, Br!Latest, Br!StatusAfter
<1>13. ASSUME ~overlap
       PROVE  \A e \in Br!OpenOnes' : e = Len(escalation')
  <2>1. Br!OpenOnes = {}
    BY <1>2, <1>13 DEF Br!ResolutionInv, Br!ReadInv, Br!ReadStands
  <2> QED BY <1>5, <2>1 DEF Br!OpenOnes, Extended
<1>14. ASSUME ~overlap
       PROVE  LogStands(me)' /\ row'.recommendation = Br!Derived0'
  <2>1. LogStands(session[s])
    BY <1>2, <1>14, OthersIdle, LogIs DEF Br!ResolutionInv
  <2>2. ASSUME NEW e \in DOMAIN events' \ cut'.log
        PROVE  /\ Br!Path(events'[e])
               /\ Br!LeadsTo(events'[e]) =
                    IF Br!Logging(me, e) THEN me.from ELSE escalation'[e].status
    <3>1. CASE e = n
      <4>1. events'[e] = <<>>
        BY <1>6, <1>7, <3>1 DEF Extended
      <4> QED BY <1>9, <3>1, <4>1 DEF Br!Path, Br!LeadsTo, Br!Logging
    <3>2. CASE e # n
      <4>1. e \in DOMAIN events
        BY <1>6, <1>7, <3>2 DEF Extended
      <4>2. events'[e] = events[e] /\ escalation'[e] = escalation[e]
        BY <1>5, <1>6, <1>7, <4>1 DEF Extended
      <4> QED BY <1>2, <1>9, <2>1, <3>2, <4>1, <4>2 DEF LogStands, Br!Logging
    <3> QED BY <3>1, <3>2
  <2>3. LogStands(me)'
    BY <2>2 DEF LogStands, Br!Logging
  <2> QED BY <1>2, <1>14, <2>3, AdviceStands DEF Br!Derived0
<1> QED
  BY <1>2, <1>8, <1>9, <1>10, <1>11, <1>12, <1>13, <1>14, OthersIdle, HandlerMoves

(* A transition of a handler that has read the latest escalation. *)
LEMMA MovedTypes ==
  ASSUME NEW me, Br!HandlerOK(me), me.pc = "transition"
  PROVE  /\ Br!StatusAfter(me.type, me.from) \in Br!Statuses
         /\ me.type = "assign" => Br!StatusAfter(me.type, me.from) = me.from
         /\ me.from \in Br!Statuses \ {"resolved"} /\ me.owner \in ResolutionSessions
<1>1. me.type \in {"assign", "acknowledge", "start_review", "close"}
  BY DEF Br!HandlerOK, Br!EscalationTransitions
<1>2. me.from \in Br!Statuses \ {"resolved"} /\ me.owner \in ResolutionSessions
  BY DEF Br!HandlerOK, Br!Moving
<1> QED BY <1>1, <1>2 DEF Br!StatusAfter, Br!Statuses

LEMMA MovedEscalation ==
  ASSUME NEW me, Br!HandlerOK(me), me.pc = "transition",
         NEW esc \in [status : Br!Statuses, owner : ResolutionSessions]
  PROVE  LET new == Br!Moved(me, esc)
         IN /\ new \in [status : Br!Statuses, owner : ResolutionSessions]
            /\ esc.status = me.from => new.status = Br!StatusAfter(me.type, me.from)
            /\ me.type = "assign" \/ esc.owner = me.owner => new.owner = me.owner
<1>1. PICK to, owner : to = Br!StatusAfter(me.type, me.from) /\ owner = me.owner
  OBVIOUS
<1>2. /\ to \in Br!Statuses /\ owner \in ResolutionSessions
      /\ me.type = "assign" => to = me.from
  BY <1>1, MovedTypes
<1>3. CASE me.type = "assign"
  <2>1. Br!Moved(me, esc) = [esc EXCEPT !.owner = owner]
    BY <1>1, <1>3 DEF Br!Moved
  <2> QED BY <1>1, <1>2, <1>3, <2>1
<1>4. CASE me.type # "assign"
  <2>1. Br!Moved(me, esc) = [esc EXCEPT !.status = to]
    BY <1>1, <1>4 DEF Br!Moved
  <2> QED BY <1>1, <1>2, <1>4, <2>1
<1> QED BY <1>3, <1>4

LEMMA Transitioned ==
  ASSUME Br!ResolutionInv, NEW s \in ResolutionSessions, Br!UpdateEscalation(s)
  PROVE  Br!ResolutionInv'
<1>0. Br!TablesOK /\ Br!HandlerOK(session[s])
  BY DEF Br!ResolutionInv, Br!TypeOK
<1> DEFINE Row   == [status : Br!Statuses, owner : ResolutionSessions]
           e     == session[s].esc
           to    == Br!StatusAfter(session[s].type, session[s].from)
           owner == session[s].owner
           esc   == Br!Moved(session[s], escalation[e])
<1>1. PICK me : me = [session[s] EXCEPT !.pc = "event"]
  OBVIOUS
<1>2. /\ session[s].pc = "transition"
      /\ escalation' = [escalation EXCEPT ![e] = esc]
      /\ session' = [session EXCEPT ![s] = me]
      /\ UNCHANGED <<kids, row, events, decisions, counts, overlap, cut>>
  BY <1>1 DEF Br!UpdateEscalation
<1>3. /\ to \in Br!Statuses /\ owner \in ResolutionSessions
      /\ session[s].from \in Br!Statuses /\ session[s].from # "resolved"
      /\ session[s].type \in Br!EscalationTransitions
  BY <1>0, <1>2, MovedTypes DEF Br!HandlerOK
<1>4. /\ me \in Br!Handler /\ me.pc = "event" /\ me.type = session[s].type /\ me.esc = e
      /\ me.from = session[s].from /\ me.owner = owner
  BY <1>0, <1>1 DEF Br!HandlerOK, Br!Handler
<1>5. Br!HandlerOK(me) /\ Br!Judged(me)
  BY <1>3, <1>4 DEF Br!HandlerOK, Br!Moving, Br!Judged
<1> HIDE DEF Row, to, owner, esc
<1>6. Br!DecidedWhenSettled'
  BY <1>2 DEF Br!DecidedWhenSettled, Br!ResolutionInv
<1>7. escalation \in Seq(Row) /\ Len(events) = Len(escalation)
  BY <1>0, TablesTypes DEF Row
<1>8. ASSUME ~overlap
      PROVE  /\ e \in DOMAIN escalation /\ e = Len(escalation) /\ escalation # <<>>
             /\ session[s].from = escalation[e].status
             /\ session[s].type # "assign" => owner = escalation[e].owner
  <2>1. Br!ReadStands(session[s]) /\ Br!Moving(session[s])
    BY <1>0, <1>2, <1>8 DEF Br!ResolutionInv, Br!ReadInv, Br!HandlerOK, Br!Moving
  <2>2. escalation # <<>> /\ e = Len(escalation)
    BY <2>1 DEF Br!ReadStands, Br!InHand
  <2>3. Br!Latest = escalation[e]
    BY <2>2 DEF Br!Latest
  <2> QED BY <1>7, <2>1, <2>2, <2>3, LastEntry DEF Br!ReadStands, Br!InHand, owner
<1>9. CASE e \notin DOMAIN escalation
  <2>1. escalation' = escalation
    BY <1>2, <1>7, <1>9, UntouchedTable
  <2>2. Br!TablesOK'
    BY <1>0, <1>2, <2>1 DEF Br!TablesOK
  <2>3. overlap
    BY <1>8, <1>9
  <2> QED BY <1>2, <1>5, <1>6, <2>2, <2>3, HandlerMoves
<1>10. CASE e \in DOMAIN escalation
  <2>1. escalation[e] \in Row
    BY <1>7, <1>10, EntryOf
  <2>2. /\ esc \in Row
        /\ escalation[e].status = session[s].from => esc.status = to
        /\ session[s].type = "assign" \/ escalation[e].owner = owner => esc.owner = owner
    BY <1>0, <1>2, <2>1, MovedEscalation DEF Row, to, owner, esc
  <2>3. /\ escalation' \in Seq(Row)
        /\ Updated(escalation, escalation', e, esc)
    BY <1>2, <1>7, <1>10, <2>2, UpdatedTable
  <2>4. Br!TablesOK'
    <3>1. Len(escalation') = Len(escalation)
      BY <1>7, <2>3 DEF Updated
    <3> QED BY <1>0, <1>2, <2>3, <3>1 DEF Br!TablesOK, Row
  <2>5. ASSUME ~overlap
        PROVE  \A i \in Br!OpenOnes' : i = Len(escalation')
    <3>1. e \in Br!OpenOnes /\ Len(escalation') = Len(escalation)
      BY <1>3, <1>8, <2>3, <2>5 DEF Br!OpenOnes, Updated
    <3>2. \A i \in Br!OpenOnes' : i \in Br!OpenOnes
      BY <2>3, <3>1 DEF Br!OpenOnes, Updated
    <3> QED BY <2>5, <3>1, <3>2 DEF Br!ResolutionInv, Br!LastIsOpen
  <2>6. ASSUME ~overlap
        PROVE  Br!ReadStands(me)'
    <3>1. escalation' # <<>> /\ e = Len(escalation') /\ escalation'[e] = esc
      BY <1>7, <1>8, <2>3, <2>6, EntryOf DEF Updated
    <3>2. esc.status = to /\ esc.owner = owner
      BY <1>8, <2>2, <2>6
    <3> QED BY <1>4, <3>1, <3>2 DEF Br!ReadStands, Br!Moving, Br!InHand, Br!Latest, to
  <2>7. ASSUME ~overlap
        PROVE  LogStands(me)' /\ row'.recommendation = Br!Derived0'
    <3>1. LogStands(session[s])
      BY <1>2, <2>7, OthersIdle, LogIs DEF Br!ResolutionInv
    <3>2. ASSUME NEW i \in DOMAIN events \ cut.log
          PROVE  Br!LeadsTo(events[i]) =
                   IF Br!Logging(me, i) THEN me.from ELSE escalation'[i].status
      <4>1. Br!LeadsTo(events[i]) = escalation[i].status
        BY <1>2, <3>1 DEF LogStands, Br!Logging
      <4>2. i # e => escalation'[i] = escalation[i]
        <5>1. i \in DOMAIN escalation
          BY <1>0, <1>7, TablesTypes
        <5> QED BY <2>3, <5>1 DEF Updated
      <4> QED BY <1>4, <1>8, <2>7, <4>1, <4>2 DEF Br!Logging
    <3>3. LogStands(me)'
      BY <1>2, <3>1, <3>2 DEF LogStands, Br!Logging
    <3> QED BY <1>2, <2>7, <3>3, AdviceStands DEF Br!Derived0
  <2> QED
    BY <1>2, <1>4, <1>5, <1>6, <2>4, <2>5, <2>6, <2>7, OthersIdle, HandlerMoves
<1> QED BY <1>9, <1>10

(* The event of what the handler has written leads from the status it had  *)
(* read to the one of the escalation.                                      *)
LEMMA EventRecorded ==
  ASSUME Br!ResolutionInv, NEW s \in ResolutionSessions, Br!RecordEvent(s)
  PROVE  Br!ResolutionInv'
<1>0. Br!TablesOK /\ Br!HandlerOK(session[s])
  BY DEF Br!ResolutionInv, Br!TypeOK
<1> DEFINE Entry == [from : Br!Statuses \cup Br!Unwritten, to : Br!Statuses]
           e     == session[s].esc
           to    == Br!StatusAfter(session[s].type, session[s].from)
           ev    == [from |-> session[s].from, to |-> to]
           list  == Append(events[e], ev)
<1>1. PICK me : me = [session[s] EXCEPT !.pc = "row", !.from = to]
  OBVIOUS
<1>2. /\ session[s].pc = "event"
      /\ events' = [events EXCEPT ![e] = list]
      /\ session' = [session EXCEPT ![s] = me]
      /\ UNCHANGED <<kids, row, escalation, decisions, counts, overlap, cut>>
  BY <1>1 DEF Br!RecordEvent
<1>3. /\ to \in Br!Statuses /\ session[s].from \in Br!Statuses \cup Br!Unwritten
      /\ session[s].from # "resolved"
  <2>1. /\ session[s].type \in {"assign", "acknowledge", "start_review", "close",
                                 "escalate_bundle_for_review"}
        /\ session[s].type = "assign" => session[s].from \in Br!Statuses
        /\ session[s].from # "resolved" /\ session[s].from \in Br!Statuses \cup Br!Unwritten
    BY <1>0, <1>2 DEF Br!HandlerOK, Br!Handler, Br!EscalationTransitions
  <2>2. session[s].type # "assign" => to \in Br!Statuses
    BY <2>1 DEF Br!StatusAfter, Br!Statuses
  <2>3. session[s].type = "assign" => to = session[s].from
    BY DEF Br!StatusAfter
  <2> QED BY <2>1, <2>2, <2>3
<1>4. ev \in Entry /\ ev.to = to /\ ev.from = session[s].from
  BY <1>3
<1>5. /\ me \in Br!Handler /\ me.pc = "row" /\ me.type = session[s].type /\ me.esc = e
      /\ me.from = to /\ me.owner = session[s].owner
  BY <1>0, <1>1, <1>3 DEF Br!HandlerOK, Br!Handler
<1>6. Br!HandlerOK(me) /\ Br!Judged(me)
  BY <1>5 DEF Br!HandlerOK, Br!Moving, Br!Judged
<1> HIDE DEF Entry, to, ev, list
<1>7. Br!DecidedWhenSettled'
  BY <1>2 DEF Br!DecidedWhenSettled, Br!ResolutionInv
<1>8. /\ events \in Seq(Seq(Entry)) /\ escalation \in Seq([status : Br!Statuses, owner : ResolutionSessions])
      /\ Len(events) = Len(escalation) /\ DOMAIN events = DOMAIN escalation
  <2>1. /\ events \in Seq(Seq(Entry)) /\ Len(events) = Len(escalation)
        /\ escalation \in Seq([status : Br!Statuses, owner : ResolutionSessions])
    BY <1>0, TablesTypes DEF Entry
  <2>2. DOMAIN events = 1..Len(events) /\ DOMAIN escalation = 1..Len(escalation)
    BY <2>1
  <2> QED BY <2>1, <2>2
<1>9. ASSUME ~overlap
      PROVE  /\ e \in DOMAIN events /\ escalation # <<>> /\ e = Len(escalation)
             /\ escalation[e].status = to /\ escalation[e].owner = session[s].owner
  <2>1. Br!ReadStands(session[s])
    BY <1>9 DEF Br!ResolutionInv, Br!ReadInv
  <2>2. escalation # <<>> /\ e = Len(escalation)
    BY <1>2, <2>1 DEF Br!ReadStands
  <2>3. Br!Latest = escalation[e]
    BY <2>2 DEF Br!Latest
  <2> QED BY <1>2, <1>8, <2>1, <2>2, <2>3, LastEntry DEF Br!ReadStands, to
<1>10. CASE e \notin DOMAIN events
  <2>1. events' = events
    BY <1>2, <1>8, <1>10, UntouchedTable
  <2>2. Br!TablesOK'
    BY <1>0, <1>2, <2>1 DEF Br!TablesOK
  <2>3. overlap
    BY <1>9, <1>10
  <2> QED BY <1>2, <1>6, <1>7, <2>2, <2>3, HandlerMoves
<1>11. CASE e \in DOMAIN events
  <2>1. events[e] \in Seq(Entry)
    BY <1>8, <1>11, EntryOf
  <2>2. list \in Seq(Entry)
    BY <1>4, <2>1 DEF list
  <2>3. events' \in Seq(Seq(Entry)) /\ Updated(events, events', e, list)
    BY <1>2, <1>8, <1>11, <2>2, UpdatedTable
  <2>4. Br!TablesOK'
    <3>1. Len(events') = Len(escalation')
      BY <1>2, <1>8, <2>3 DEF Updated
    <3> QED BY <1>0, <1>2, <2>3, <3>1 DEF Br!TablesOK, Entry
  <2>5. ASSUME ~overlap
        PROVE  Br!ReadStands(me)' /\ \A i \in Br!OpenOnes' : i = Len(escalation')
    <3>1. Br!ReadStands(me)'
      BY <1>2, <1>5, <1>9, <2>5 DEF Br!ReadStands, Br!Moving, Br!InHand, Br!Latest
    <3> QED BY <1>2, <2>5, <3>1 DEF Br!ResolutionInv, Br!LastIsOpen, Br!OpenOnes
  <2>6. ASSUME ~overlap
        PROVE  LogStands(me)' /\ row'.recommendation = Br!Derived0'
    <3>1. LogStands(session[s])
      BY <1>2, <2>6, OthersIdle, LogIs DEF Br!ResolutionInv
    <3>2. ASSUME NEW i \in DOMAIN events' \ cut'.log
          PROVE  Br!Path(events'[i]) /\ Br!LeadsTo(events'[i]) = escalation'[i].status
      <4>1. i \in DOMAIN events \ cut.log
        BY <1>2, <1>8, <2>3 DEF Updated
      <4>2. /\ Br!Path(events[i])
            /\ Br!LeadsTo(events[i]) = IF i = e THEN session[s].from ELSE escalation[i].status
        BY <1>2, <3>1, <4>1 DEF LogStands, Br!Logging
      <4>3. CASE i = e
        <5>1. Br!Path(list) /\ Br!LeadsTo(list) = to
          BY <1>3, <1>4, <2>1, <4>2, <4>3, PathExtends DEF list
        <5>2. events'[i] = list
          BY <2>3, <4>1, <4>3 DEF Updated
        <5> QED BY <1>2, <1>9, <2>6, <4>3, <5>1, <5>2
      <4>4. CASE i # e
        BY <1>2, <2>3, <4>1, <4>2, <4>4 DEF Updated
      <4> QED BY <4>3, <4>4
    <3>3. LogStands(me)'
      BY <1>5, <3>2 DEF LogStands, Br!Logging
    <3> QED BY <1>2, <2>6, <3>3, AdviceStands DEF Br!Derived0
  <2> QED
    BY <1>2, <1>5, <1>6, <1>7, <2>4, <2>5, <2>6, OthersIdle, HandlerMoves
<1> QED BY <1>10, <1>11

(* A handler that stops leaves its escalation in cut, if the event of it   *)
(* was still to be recorded, and the row, if it was still to be written.   *)
LEMMA Stopped ==
  ASSUME Br!ResolutionInv, NEW s \in ResolutionSessions, Br!Stop(s)
  PROVE  Br!ResolutionInv'
<1>0. Br!TablesOK /\ Br!HandlerOK(session[s])
  BY DEF Br!ResolutionInv, Br!TypeOK
<1>1. PICK me : me = Br!Idle
  OBVIOUS
<1>2. /\ session[s].pc # "idle" /\ session' = [session EXCEPT ![s] = me]
      /\ counts' = [counts EXCEPT !.requests = @ + 1]
      /\ UNCHANGED <<kids, row, escalation, events, decisions, overlap>>
  BY <1>1 DEF Br!Stop
<1>3. me.pc \in {"done", "idle"} /\ Br!HandlerOK(me) /\ Br!Judged(me) /\ Br!ReadStands(me)'
  BY <1>1, HandlerEnds
<1>4. session[s].esc \in Nat
  BY <1>0 DEF Br!HandlerOK, Br!Handler
<1>5. /\ cut' \in [log : SUBSET Nat, row : BOOLEAN] /\ cut.log \subseteq cut'.log
      /\ session[s].pc = "event" => session[s].esc \in cut'.log
      /\ ~cut'.row => ~cut.row /\ session[s].pc \notin {"event", "row"}
  <2>1. cut \in [log : SUBSET Nat, row : BOOLEAN]
    BY <1>0, TablesTypes
  <2> QED BY <1>4, <2>1 DEF Br!Stop
<1>6. counts' \in [requests : Nat, changes : Nat] /\ counts'.changes = counts.changes
  BY <1>0, <1>2, TablesTypes
<1>7. Br!TablesOK'
  BY <1>0, <1>2, <1>5, <1>6 DEF Br!TablesOK
<1>8. Br!DecidedWhenSettled'
  BY <1>2 DEF Br!DecidedWhenSettled, Br!ResolutionInv
<1>9. ASSUME ~overlap
      PROVE  (~cut'.row => Br!RowShows') /\ row'.recommendation = Br!Derived0'
  BY <1>2, <1>5, <1>9, RowShown, AdviceStands DEF Br!RowShows, Br!Latest, Br!Derived0
<1> QED BY <1>2, <1>3, <1>5, <1>6, <1>7, <1>8, <1>9, HandlerSteps

(* A child that is requeued, or settles, after a request was judged. *)
LEMMA ChildChanged ==
  ASSUME Br!ResolutionInv, Br!ChildChanges
  PROVE  Br!ResolutionInv'
<1>1. /\ counts' = [counts EXCEPT !.changes = @ + 1] /\ kids' = [kids EXCEPT !.inflight = 1 - @]
      /\ UNCHANGED <<row, escalation, events, decisions, session, overlap, cut>>
  BY DEF Br!ChildChanges
<1>2. Br!TypeOK /\ Br!TablesOK
  BY DEF Br!ResolutionInv, Br!TypeOK
<1>3. /\ counts' \in [requests : Nat, changes : Nat] /\ counts'.changes = counts.changes + 1
      /\ counts.changes \in Nat
  BY <1>1, <1>2, TablesTypes
<1>4. kids' \in [status : {"failed", "requires_intervention"},
                 outcome : {"partial_application", "failed"}, pending : {0}, inflight : 0..1]
  <2>1. kids.inflight \in 0..1 /\ 1 - kids.inflight \in 0..1
    BY <1>2, TablesTypes
  <2> QED BY <1>1, <1>2, <2>1 DEF Br!TablesOK
<1>5. Br!TypeOK'
  BY <1>1, <1>2, <1>3, <1>4 DEF Br!TypeOK, Br!TablesOK
<1>6. Br!JudgedInv'
  <2> SUFFICES ASSUME NEW z \in ResolutionSessions, session[z].open,
                      session[z].pc \in {"opening_sync", "decide"}
               PROVE  session[z].seen <= counts'.changes /\ session[z].seen # counts'.changes
    BY <1>1 DEF Br!JudgedInv, Br!Judged
  <2>1. session[z].seen <= counts.changes /\ session[z].seen \in Nat
    BY <1>2 DEF Br!ResolutionInv, Br!JudgedInv, Br!Judged, Br!TypeOK, Br!Handler
  <2> QED BY <1>3, <2>1
<1>7. Br!AloneInv' /\ Br!LastIsOpen' /\ Br!RowInv' /\ Br!DecidedWhenSettled'
  BY <1>1 DEF Br!ResolutionInv, Br!AloneInv, Br!LastIsOpen, Br!OpenOnes, Br!RowInv, Br!RowShows,
              Br!Latest, Br!DecidedWhenSettled
<1>8. Br!ReadInv'
  BY <1>1 DEF Br!ResolutionInv, Br!ReadInv, Br!ReadStands, Br!InHand, Br!Latest, Br!OpenOnes,
              Br!Derived0
<1>9. Br!EventsFormPath'
  BY <1>1 DEF Br!ResolutionInv, Br!EventsFormPath, Br!Logged
<1>10. Br!OverlayAgrees'
  BY <1>1 DEF Br!ResolutionInv, Br!OverlayAgrees, Br!RowShows, Br!Latest, Br!Derived0
<1> QED BY <1>5, <1>6, <1>7, <1>8, <1>9, <1>10 DEF Br!ResolutionInv

(* Every step of the resolutions keeps the invariant. *)
LEMMA ResolutionStep ==
  ASSUME Br!ResolutionInv, [Br!Next]_Br!vars
  PROVE  Br!ResolutionInv'
<1>1. CASE UNCHANGED Br!vars
  <2>1. UNCHANGED <<kids, row, escalation, events, decisions, session, counts, overlap, cut>>
    BY <1>1 DEF Br!vars
  <2>2. Br!TypeOK' /\ Br!JudgedInv'
    BY <2>1 DEF Br!ResolutionInv, Br!TypeOK, Br!TablesOK, Br!JudgedInv, Br!Judged
  <2>3. Br!AloneInv' /\ Br!LastIsOpen' /\ Br!RowInv' /\ Br!DecidedWhenSettled'
    BY <2>1 DEF Br!ResolutionInv, Br!AloneInv, Br!LastIsOpen, Br!OpenOnes, Br!RowInv, Br!RowShows,
                Br!Latest, Br!DecidedWhenSettled
  <2>4. Br!ReadInv' /\ Br!OverlayAgrees'
    BY <2>1 DEF Br!ResolutionInv, Br!ReadInv, Br!ReadStands, Br!InHand, Br!Latest, Br!OpenOnes,
                Br!Derived0, Br!OverlayAgrees, Br!RowShows
  <2>5. Br!EventsFormPath'
    BY <2>1 DEF Br!ResolutionInv, Br!EventsFormPath, Br!Logged
  <2> QED BY <2>2, <2>3, <2>4, <2>5 DEF Br!ResolutionInv
<1> QED
  BY <1>1, ChildChanged, RequestsBegin, Synced, Resolved, Overlaid, Created, Transitioned,
     EventRecorded, Stopped
  DEF Br!Next, Br!SessionStep

(* It holds of a bundle nobody has decided on yet. *)
LEMMA ResolutionInit == Br!Init => Br!ResolutionInv
<1> SUFFICES ASSUME Br!Init PROVE Br!ResolutionInv
  OBVIOUS
<1>1. /\ row = [resolution |-> "unresolved", recommendation |-> "inspect_child_failures",
                latest |-> 0, status |-> "none", owner |-> "none"]
      /\ escalation = <<>> /\ events = <<>> /\ decisions = {}
      /\ session = [s \in ResolutionSessions |-> Br!Idle]
      /\ counts = [requests |-> 0, changes |-> 0] /\ overlap = FALSE
      /\ cut = [log |-> {}, row |-> FALSE]
  BY DEF Br!Init
<1>2. kids \in [status : {"failed", "requires_intervention"},
                outcome : {"partial_application", "failed"}, pending : {0}, inflight : 0..1]
  BY DEF Br!Init, Br!Settled
<1>3. Br!Idle \in Br!Handler /\ Br!Idle.pc = "idle"
  BY DEF Br!Idle, Br!Handler, Br!Unwritten
<1>4. \A s \in ResolutionSessions :
        /\ session[s].pc = "idle" /\ Br!HandlerOK(session[s])
        /\ Br!ReadStands(session[s]) /\ Br!Judged(session[s])
  BY <1>1, <1>3 DEF Br!HandlerOK, Br!Moving, Br!ReadStands, Br!Judged
<1>5. Br!TablesOK
  <2>1. row \in [resolution : {"unresolved", "accepted_partial", "manually_resolved", "escalated"},
                 recommendation : Br!Advice \cup Br!Unwritten, latest : Nat,
                 status : Br!Statuses \cup Br!Unwritten,
                 owner : ResolutionSessions \cup Br!Unwritten]
    BY <1>1 DEF Br!Advice, Br!Unwritten
  <2>2. /\ escalation \in Seq([status : Br!Statuses, owner : ResolutionSessions])
        /\ events \in Seq(Seq([from : Br!Statuses \cup Br!Unwritten, to : Br!Statuses]))
        /\ Len(events) = Len(escalation)
    BY <1>1
  <2>3. /\ counts \in [requests : Nat, changes : Nat] /\ overlap \in BOOLEAN
        /\ cut \in [log : SUBSET Nat, row : BOOLEAN]
    BY <1>1
  <2> QED BY <1>2, <2>1, <2>2, <2>3 DEF Br!TablesOK
<1>6. Br!TypeOK /\ Br!AloneInv /\ Br!ReadInv /\ Br!JudgedInv
  BY <1>1, <1>3, <1>4, <1>5 DEF Br!TypeOK, Br!AloneInv, Br!ReadInv, Br!JudgedInv
<1>7. Br!LastIsOpen /\ Br!EventsFormPath /\ Br!DecidedWhenSettled
  BY <1>1 DEF Br!LastIsOpen, Br!OpenOnes, Br!EventsFormPath, Br!DecidedWhenSettled
<1>8. Br!RowShows /\ row.recommendation = Br!Derived0
  BY <1>1 DEF Br!RowShows, Br!Derived0, Br!RecommendationForResolutionState
<1> QED BY <1>6, <1>7, <1>8 DEF Br!ResolutionInv, Br!RowInv, Br!OverlayAgrees

-----------------------------------------------------------------------------
(* The workflows side by side.                                             *)

wfVars == <<part, session, counts, overlap, bundleOnly, resolutionOnly, promotionOnly, vaultOnly,
            dossierOnly, cexOnly>>

(* The part is chosen once, and a step of the review's part is one of the  *)
(* review.                                                                 *)
LEMMA PromotionPart ==
  ASSUME [Next]_wfVars
  PROVE  /\ UNCHANGED part
         /\ part = "promotion" => [Cp!Next]_Cp!vars
         /\ part # "promotion" => UNCHANGED promotions
BY DEF wfVars, Next, Bundle, Resolution, Promotion, VaultStep, Dossier, CexStep,
       bundleOnly, resolutionOnly, promotionOnly, vaultOnly, dossierOnly, cexOnly, Cp!vars

(* Connector promotions, for any number of operators and administrators    *)
(* and any snapshots in between: unless requests overlap, at most one      *)
(* promotion stands and the recorded events explain its status; an         *)
(* approval on evidence that was lost is not eligible; and a venue is      *)
(* eligible only with the approval and the evidence of now.                *)
THEOREM PromotionIsSoundHolds == Spec => []PromotionIsSound
<1> DEFINE Inv == part = "promotion" => Cp!PromotionInv
<1>1. Init => Inv
  BY PromotionInit DEF Init
<1>2. Inv /\ [Next]_wfVars => Inv'
  BY PromotionPart, PromotionStep
<1>3. Inv => PromotionIsSound
  BY PromotionPromises DEF PromotionIsSound
<1> QED
  BY <1>1, <1>2, <1>3, PTL DEF Spec, wfVars

(* A decided promotion changes no more, except from approved to suspended, *)
(* unless decisions overlap: store.ts writes a decision to the row that is *)
(* the latest at the write, and alone that is the row it was judged on.    *)
THEOREM DecisionIsFinalHolds == Spec => DecisionIsFinal
<1> DEFINE Inv == IF part = "promotion" THEN Cp!PromotionInv ELSE promotions = <<>>
           Final == \A i \in DOMAIN promotions :
                      ~overlap' /\ promotions[i].status # "pending_review" =>
                        \/ promotions'[i].status = promotions[i].status
                        \/ promotions[i].status = "approved" /\ promotions'[i].status = "suspended"
<1>1. Init => Inv
  BY PromotionInit DEF Init, PromotionOff
<1>2. Inv /\ [Next]_wfVars => Inv'
  BY PromotionPart, PromotionStep
<1>3. ASSUME Cp!PromotionInv, [Cp!Next]_Cp!vars PROVE Final
  <2>0. promotions \in Seq(Cp!Promotion) /\ overlap \in BOOLEAN
    BY <1>3 DEF Cp!PromotionInv, Cp!TypeOK
  <2>1. CASE UNCHANGED promotions
    BY <2>1
  <2>2. ASSUME NEW s \in PromotionSessions, Cp!requestConnectorPromotion(s) PROVE Final
    BY <2>0, <2>2 DEF Cp!requestConnectorPromotion
  <2>3. ASSUME NEW s \in PromotionSessions, Cp!DecideConnectorPromotion(s) PROVE Final
    <3> SUFFICES ASSUME NEW i \in DOMAIN promotions, ~overlap',
                        promotions[i].status # "pending_review"
                 PROVE  \/ promotions'[i].status = promotions[i].status
                        \/ promotions[i].status = "approved" /\ promotions'[i].status = "suspended"
      OBVIOUS
    <3>1. /\ session[s].pc = "write" /\ session[s].kind \in DOMAIN Cp!Decisions /\ ~overlap
          /\ promotions'[Cp!LatestRow].status = Cp!Decisions[session[s].kind]
          /\ i # Cp!LatestRow => promotions'[i] = promotions[i]
      <4>1. promotions # <<>>
        BY <2>0
      <4>2. Cp!LatestRow \in DOMAIN promotions
        BY <1>3, <4>1, LatestRowExists DEF Cp!PromotionInv
      <4> QED BY <2>0, <2>3, <4>2 DEF Cp!DecideConnectorPromotion
    <3>2. CASE i # Cp!LatestRow
      BY <3>1, <3>2
    <3>3. CASE i = Cp!LatestRow
      <4>1. promotions # <<>>
        BY <2>0
      <4>2. promotions[i].status = Cp!StatusNow
        BY <1>3, <3>3, <4>1, LatestRowExists DEF Cp!PromotionInv
      <4>3. Cp!StatusNow \in Cp!JudgedOn(session[s].kind)
        BY <1>3, <3>1 DEF Cp!PromotionInv, Cp!AloneInv
      <4>4. session[s].kind = "suspend"
        BY <3>1, <4>2, <4>3 DEF Cp!JudgedOn, Cp!Decisions
      <4> QED BY <3>1, <3>3, <4>2, <4>3, <4>4 DEF Cp!JudgedOn, Cp!Decisions
    <3> QED BY <3>2, <3>3
  <2> QED
    BY <1>3, <2>1, <2>2, <2>3
    DEF Cp!Next, Cp!vars, Cp!RecordSnapshot, Cp!SnapshotAges, Cp!SessionStep, Cp!Judge,
        Cp!insertConnectorPromotionEvent, Cp!Stop
<1>4. Inv /\ [Next]_wfVars => [Final]_Cp!vars
  <2> SUFFICES ASSUME Inv, [Next]_wfVars PROVE Final
    OBVIOUS
  <2>1. CASE part = "promotion"
    BY <1>3, <2>1, PromotionPart
  <2>2. CASE part # "promotion"
    BY <2>2
  <2> QED BY <2>1, <2>2
<1> QED
  BY <1>1, <1>2, <1>4, PTL DEF Spec, wfVars, DecisionIsFinal, Cp!DecisionIsFinal

(* A step of the dossier's part is one of the dossier. *)
LEMMA DossierPart ==
  ASSUME [Next]_wfVars
  PROVE  /\ UNCHANGED part
         /\ part = "dossier" => [Sd!Next]_Sd!dossierVars
BY DEF wfVars, Next, Bundle, Resolution, Promotion, VaultStep, Dossier, CexStep,
       bundleOnly, resolutionOnly, promotionOnly, vaultOnly, dossierOnly, cexOnly, Sd!dossierVars

(* The dossier, whatever operations time out and whoever updates it at     *)
(* once: beside what operators gave by hand it claims no Ranger operation  *)
(* that never landed, it keeps what it was told unless an operator clears  *)
(* it or a crossing write overtook that marker, and its export agrees with *)
(* its readiness.                                                          *)
THEOREM DossierIsHonestHolds == Spec => []DossierIsHonest
<1> DEFINE Inv == part = "dossier" => Sd!DossierInv
<1>1. Init => Inv
  BY DossierInit DEF Init
<1>2. Inv /\ [Next]_wfVars => Inv'
  BY DossierPart, DossierStep
<1>3. Inv => DossierIsHonest
  BY ExportMatches DEF DossierIsHonest, Sd!DossierInv
<1> QED
  BY <1>1, <1>2, <1>3, PTL DEF Spec, wfVars

(* The same for the part of the resolutions. *)
LEMMA ResolutionPart ==
  ASSUME [Next]_wfVars
  PROVE  /\ UNCHANGED part
         /\ part = "resolution" => [Br!Next]_Br!vars
BY DEF wfVars, Next, Bundle, Resolution, Promotion, VaultStep, Dossier, CexStep,
       bundleOnly, resolutionOnly, promotionOnly, vaultOnly, dossierOnly, cexOnly, Br!vars

(* Resolutions and escalations, for any number of operators and requests,  *)
(* wherever their handlers stop: unless requests overlap, at most one      *)
(* escalation is open and the row's recommendation is the one of its       *)
(* resolution; an escalation's events form a path to its status, and the   *)
(* row shows the latest one, but where a handler stopped in between; and   *)
(* overlapping or not, no decision is completed over a child that was in   *)
(* flight when the request was judged.                                     *)
THEOREM ResolutionIsSoundHolds == Spec => []ResolutionIsSound
<1> DEFINE Inv == part = "resolution" => Br!ResolutionInv
<1>1. Init => Inv
  BY ResolutionInit DEF Init
<1>2. Inv /\ [Next]_wfVars => Inv'
  BY ResolutionPart, ResolutionStep
<1>3. Inv => ResolutionIsSound
  BY DEF ResolutionIsSound, Br!ResolutionInv, Br!OneOpenEscalation, Br!LastIsOpen
<1> QED
  BY <1>1, <1>2, <1>3, PTL DEF Spec, wfVars

-----------------------------------------------------------------------------
(***************************************************************************)
(* Rebalance bundles: BundleInv of RebalanceBundle is inductive.           *)
(***************************************************************************)

(***************************************************************************)
(* What the proofs need of the operators.                                  *)
(***************************************************************************)
(* The proposal, its children and no target at all are different.          *)
LEMMA TargetsDiffer ==
  /\ Rb!Proposal \notin Rb!Children /\ Rb!NoTarget \notin Rb!Children /\ Rb!NoTarget # Rb!Proposal
  /\ Rb!Targets = {Rb!Proposal} \cup Rb!Children /\ Rb!Proposal \in Rb!Targets
  /\ <<"bundle", 0>> \notin Rb!Targets /\ <<"bundle", 0>> # Rb!NoTarget
BY DEF Rb!Proposal, Rb!NoTarget, Rb!Children, Rb!Targets

(* The derived columns of a bundle row are among those of the table. *)
LEMMA SnapshotTypes ==
  ASSUME NEW p, NEW family PROVE Rb!Snapshot(p, family) \in Rb!View
BY DEF Rb!Snapshot, Rb!SnapshotOfChildren, Rb!Derived, Rb!View, Rb!ActionableBundleStatuses

(* What an actor at rest holds. *)
LEMMA IdleIs ==
  /\ Rb!IdleActor \in Rb!Actor(Rb!SessionSteps) /\ Rb!IdleActor \in Rb!Actor(Rb!WorkerSteps)
  /\ Rb!IdleActor.pc = "idle" /\ Rb!IdleActor.of = Rb!NoTarget /\ Rb!IdleActor.next = "none"
  /\ Rb!IdleActor.rec = 0 /\ Rb!IdleActor.cmd = 0 /\ Rb!IdleActor.i = 0 /\ Rb!NoView \in Rb!View
<1>1. Rb!NoView \in Rb!View
  BY DEF Rb!NoView, Rb!Derived, Rb!View
<1> QED BY <1>1 DEF Rb!IdleActor, Rb!Actor, Rb!SessionSteps, Rb!WorkerSteps, Rb!NoTarget

(* An eligible child: what is on record of it, and the bundle.             *)
LEMMA EligibleIs ==
  ASSUME NEW b, NEW ready, NEW c, Rb!Eligible(b, ready, c)
  PROVE  /\ b \in Rb!ActionableBundleStatuses /\ ~Rb!Completed(c) /\ ~Rb!InFlight(c)
         /\ c.status # "cancelled" /\ c.executable /\ ~c.progress
<1> DEFINE R == Rb!RecoveryBlocks(b, ready, c)
<1>1. R = {}
  BY DEF Rb!Eligible
<1>2. /\ "bundle_not_actionable" \notin R /\ "target_child_already_completed" \notin R
      /\ "target_child_has_inflight_command" \notin R /\ "target_child_not_retryable" \notin R
      /\ "target_child_remains_blocked" \notin R /\ "partial_progress_detected" \notin R
  BY <1>1
<1>a. ("bundle_not_actionable" \notin R) => b \in Rb!ActionableBundleStatuses
  BY DEF Rb!RecoveryBlocks
<1>b. ("target_child_already_completed" \notin R) => ~Rb!Completed(c)
  BY DEF Rb!RecoveryBlocks
<1>c. ("target_child_has_inflight_command" \notin R) => ~Rb!InFlight(c)
  BY DEF Rb!RecoveryBlocks
<1>d. ("target_child_not_retryable" \notin R) => c.status # "cancelled"
  BY DEF Rb!RecoveryBlocks
<1>e. ("target_child_remains_blocked" \notin R) => c.executable
  BY DEF Rb!RecoveryBlocks
<1>f. ("partial_progress_detected" \notin R) => ~c.progress
  BY DEF Rb!RecoveryBlocks
<1> QED BY <1>2, <1>a, <1>b, <1>c, <1>d, <1>e, <1>f

(* While a child is pending or executing, the bundle is not actionable. *)
LEMMA InFlightNotActionable ==
  ASSUME NEW p, NEW family, NEW k \in DOMAIN family, Rb!ChildState(family[k]) \in {"pending",
         "executing"}
  PROVE  Rb!Snapshot(p, family).status \notin Rb!ActionableBundleStatuses
<1>1. Rb!AnyIn(family, {"pending", "executing"})
  BY DEF Rb!AnyIn
<1> QED BY <1>1 DEF Rb!Snapshot, Rb!Derived, Rb!ActionableBundleStatuses

(* The action of the budget is never eligible. *)
LEMMA BudgetIneligible ==
  ASSUME Rb!TypeOK, Rb!BudgetInv, NEW k \in DOMAIN child, k[1] = "budget", NEW ready
  PROVE  ~Rb!CandidateEligible(k, ready)
<1> SUFFICES ASSUME Rb!CandidateEligible(k, ready) PROVE FALSE
  OBVIOUS
<1>1. /\ Rb!Snapshot(proposal, child).status \in Rb!ActionableBundleStatuses
      /\ ~Rb!Completed(child[k]) /\ ~Rb!InFlight(child[k])
  BY EligibleIs DEF Rb!CandidateEligible
<1>2. /\ child[k].executable /\ child[k].executions \in {<<>>, <<"executing">>, <<"completed">>}
      /\ child[k].status \in {"recommended", "approved", "queued", "executing", "completed"}
  BY DEF Rb!BudgetInv
<1>3. child[k].status \in {"recommended", "approved"}
  BY <1>1, <1>2 DEF Rb!Completed, Rb!InFlight
<1>4. child[k].executions # <<"completed">>
  BY <1>1 DEF Rb!Completed, Rb!SeqHas
<1>5. CASE child[k].executions = <<>>
  <2>1. Rb!ChildState(child[k]) \in {"pending", "executing"}
    BY <1>2, <1>3, <1>5 DEF Rb!ChildState, Rb!SeqHas
  <2> QED BY <1>1, <2>1, InFlightNotActionable
<1>6. CASE child[k].executions = <<"executing">>
  <2>1. Rb!ChildState(child[k]) = "executing"
    BY <1>6 DEF Rb!ChildState, Rb!SeqHas, Rb!SeqAll
  <2> QED BY <1>1, <2>1, InFlightNotActionable
<1> QED BY <1>2, <1>4, <1>5, <1>6

(* An uncontested carry child that is eligible has failed. *)
LEMMA EligibleHasFailed ==
  ASSUME Rb!TypeOK, NEW k \in DOMAIN child, Rb!UncontestedInv(k), NEW ready,
         Rb!CandidateEligible(k, ready)
  PROVE  child[k].status = "failed"
<1>1. /\ Rb!Snapshot(proposal, child).status \in Rb!ActionableBundleStatuses
      /\ ~Rb!Completed(child[k]) /\ ~Rb!InFlight(child[k])
      /\ child[k].status # "cancelled" /\ child[k].executable
  BY EligibleIs DEF Rb!CandidateEligible
<1>2. child[k].status \in {"recommended", "approved", "failed"} /\ child[k] \in Rb!Row
  BY <1>1 DEF Rb!TypeOK, Rb!Row, Rb!ActionStatuses, Rb!Completed, Rb!InFlight
<1>3. CASE child[k].status = "recommended"
  <2>1. child[k].executions = <<>>
    BY <1>3 DEF Rb!UncontestedInv
  <2>2. Rb!ChildState(child[k]) = "pending"
    BY <1>1, <1>3, <2>1 DEF Rb!ChildState, Rb!SeqHas
  <2> QED BY <1>1, <2>2, InFlightNotActionable
<1>4. CASE child[k].status = "approved"
  <2>1. ~Rb!SeqHas(child[k].executions, "failed")
    BY <1>4 DEF Rb!UncontestedInv
  <2>2. ~Rb!SeqHas(child[k].executions, "completed")
    BY <1>1 DEF Rb!Completed
  <2>3. child[k].executions \in Seq({"executing", "completed", "failed"})
    BY <1>2 DEF Rb!Row
  <2>4. child[k].executions # <<>> => ~Rb!SeqAll(child[k].executions, "completed")
    BY <2>2, <2>3 DEF Rb!SeqHas, Rb!SeqAll
  <2>5. Rb!ChildState(child[k]) = "executing"
    BY <1>1, <1>4, <2>1, <2>4 DEF Rb!ChildState
  <2> QED BY <1>1, <2>5, InFlightNotActionable
<1> QED BY <1>2, <1>3, <1>4

-----------------------------------------------------------------------------
(***************************************************************************)
(* What a step leaves alone.                                               *)
(***************************************************************************)
(* The handler of session s moves on to a, the others stay where they are. *)
Handler(s, a) ==
  /\ session' \in [BundleSessions -> Rb!Actor(Rb!SessionSteps)]
  /\ session'[s] = a
  /\ \A z \in BundleSessions : z # s => session'[z] = session[z]

(* A write to one entry of session moves that handler alone. *)
LEMMA BundleHandlerMoves ==
  ASSUME Rb!TypeOK, NEW s \in BundleSessions, NEW a \in Rb!Actor(Rb!SessionSteps),
         session' = [session EXCEPT ![s] = a]
  PROVE  Handler(s, a)
BY DEF Rb!TypeOK, Handler

(* A handler that awaits a sync keeps what it holds. *)
LEMMA SyncIs ==
  ASSUME NEW steps, {"sync"} \subseteq steps, NEW me \in Rb!Actor(steps), NEW next \in steps
  PROVE  /\ Rb!Synced(me, next) \in Rb!Actor(steps)
         /\ Rb!Synced(me, next).pc = "sync" /\ Rb!Synced(me, next).next = next
         /\ Rb!Synced(me, next).of = me.of /\ Rb!Synced(me, next).rec = me.rec
         /\ Rb!Synced(me, next).cmd = me.cmd /\ Rb!Synced(me, next).i = me.i
         /\ Rb!Synced(me, next).snap = Rb!Snapshot(proposal', child')
BY SnapshotTypes DEF Rb!Synced, Rb!Actor

(* The history of children and commands is kept. *)
PastKept ==
  /\ past' \in Rb!History
  /\ UNCHANGED <<past.overtaken, past.unrecorded, past.reached, past.twice>>
  /\ past.thrown \subseteq past'.thrown /\ past.died \subseteq past'.died
  /\ past'.thrown \cup past'.died \subseteq DOMAIN command
  /\ past.contested \subseteq past'.contested
  /\ past'.contested \subseteq {Rb!Proposal} \cup DOMAIN child

(* Recovery requests are added, or their status is changed. *)
RecoveryGrows ==
  /\ DOMAIN recovery \subseteq DOMAIN recovery'
  /\ \A r \in DOMAIN recovery : recovery'[r].of = recovery[r].of

RequestsKept == Rb!BudgetNeverRequeued /\ Rb!RecoveryFollowsCommand
TablesInv == Rb!CommandInv /\ Rb!WorkerInv /\ Rb!HistoryInv /\ Rb!BudgetInv /\ Rb!ChildAppliedOnce

(* The children are the same, and the rows of the budget's actions. *)
ChildrenKept ==
  /\ DOMAIN child' = DOMAIN child
  /\ \A k \in DOMAIN child : k[1] = "budget" => child'[k] = child[k]

(* What does not depend on the handlers of the API is kept.                *)
LEMMA RowsKept ==
  ASSUME Rb!BundleInv, UNCHANGED <<runs, command, worker>>, ChildrenKept, RecoveryGrows, PastKept
  PROVE  TablesInv'
<1> USE DEF Rb!BundleInv
<1>1. Rb!CommandInv'
  BY DEF Rb!CommandInv, Rb!CarryChild, RecoveryGrows, ChildrenKept
<1>2. Rb!WorkerInv'
  BY DEF Rb!WorkerInv, Rb!AboutToCreate, Rb!CarryChild, ChildrenKept
<1>3. Rb!HistoryInv'
  BY DEF Rb!HistoryInv, Rb!Excused, PastKept, ChildrenKept
<1>4. Rb!BudgetInv'
  BY DEF Rb!BudgetInv, ChildrenKept
<1>5. Rb!ChildAppliedOnce'
  BY DEF Rb!ChildAppliedOnce, PastKept
<1> QED BY <1>1, <1>2, <1>3, <1>4, <1>5 DEF TablesInv

(* What does not depend on the handlers is kept where they alone move. *)
LEMMA TablesKept ==
  ASSUME Rb!BundleInv, UNCHANGED <<runs, child, command, worker>>, RecoveryGrows, PastKept
  PROVE  TablesInv'
BY RowsKept DEF ChildrenKept

(* Where commands and recovery requests are the same, so is what is said of them. *)
LEMMA RecoveryKept ==
  ASSUME Rb!BundleInv, UNCHANGED <<recovery, command>>, PastKept,
         worker'.cmd = worker.cmd \/ worker.cmd \in past'.died
  PROVE  RequestsKept' /\ RecoveryGrows
BY DEF Rb!BundleInv, RequestsKept, RecoveryGrows, PastKept, Rb!RecoveryFollowsCommand,
       Rb!BudgetNeverRequeued

(* An unchanged history is kept. *)
LEMMA PastSame ==
  ASSUME Rb!BundleInv, UNCHANGED past PROVE PastKept
BY DEF Rb!BundleInv, Rb!TypeOK, Rb!HistoryInv, Rb!Excused, PastKept, Rb!History

(* What holds of a child k is kept where its row and its commands are, the *)
(* worker is not before its orders unless it was, and the session that     *)
(* handles k is about to write the bundle's row or goes on requeueing it.  *)
SameTask ==
  /\ worker'.of = worker.of /\ worker'.cmd = worker.cmd
  /\ worker'.pc = worker.pc \/ (worker.pc = "begin" /\ worker'.pc = "start")

LEMMA CarryKept ==
  ASSUME Rb!BundleInv, NEW k \in DOMAIN child, k[1] = "carry", UNCHANGED child[k],
         UNCHANGED <<Rb!CommandsOf(k), Rb!Waiting(k)>>,
         \A c \in Rb!Excused : command[c].of = k => c \in Rb!Excused' /\ command'[c].of = k,
         k \notin past'.contested =>
           \A z \in BundleSessions : \/ session'[z] = session[z]
                                     \/ session'[z].of # k
                                     \/ /\ session[z].of = k
                                        /\ session'[z].pc \in {"sync", "refuse"}
                                        /\ session'[z].next # "recover"
                                     \/ /\ session[z].of = k
                                        /\ \/ session[z].pc \in {"recover", "reread"}
                                           \/ session[z].pc = "sync" /\ session[z].next = "recover"
                                        /\ session'[z].pc \in {"recover", "reread", "insert"},
         \/ SameTask
         \/ /\ ~Rb!WorkerIs(k, {"begin", "start"} \cup Rb!ChildSteps)'
            /\ Rb!WorkerIs(k, {"begin", "start", "mark_child"}) /\ child[k].status = "queued" =>
                 \E c \in Rb!Excused' : command'[c].of = k,
         past.contested \subseteq past'.contested, past.unrecorded \subseteq past'.unrecorded,
         k \in past'.reached => k \in past.reached
  PROVE  Rb!CarryInv(k)'
<1>0. Rb!CarryInv(k)
  BY DEF Rb!BundleInv, Rb!ChildInv
<1>1. ASSUME k \notin past'.contested PROVE Rb!UncontestedInv(k)'
  <2>1. Rb!UncontestedInv(k)
    BY <1>0, <1>1 DEF Rb!CarryInv
  <2> QED BY <1>1, <2>1
          DEF Rb!UncontestedInv, Rb!Early, Rb!WorkerIs, Rb!Armed, Rb!ChildSteps, SameTask
<1>2. ASSUME k \notin past'.contested \cup past'.unrecorded PROVE Rb!ReachedInv(k)'
  <2>1. Rb!ReachedInv(k)
    BY <1>0, <1>2 DEF Rb!CarryInv
  <2> QED BY <1>2, <2>1
          DEF Rb!ReachedInv, Rb!Early, Rb!WorkerIs, Rb!Armed, Rb!ChildSteps, SameTask
<1>3. CASE SameTask
  BY <1>0, <1>1, <1>2, <1>3 DEF Rb!CarryInv, Rb!WorkerIs, SameTask
<1>4. CASE Rb!WorkerIs(k, {"begin", "start", "mark_child"}) /\ child[k].status = "queued" =>
             \E c \in Rb!Excused' : command'[c].of = k
  BY <1>0, <1>1, <1>2, <1>4 DEF Rb!CarryInv
<1> QED BY <1>3, <1>4

(* A child the session does not handle, where only the session moves. *)
LEMMA OthersKept ==
  ASSUME Rb!BundleInv, UNCHANGED <<command, worker>>, PastKept,
         NEW s \in BundleSessions, NEW a, Handler(s, a),
         NEW k \in DOMAIN child, k[1] = "carry", UNCHANGED child[k],
         \/ a.of # k \/ k \in past'.contested
         \/ session[s].of = k /\ a.pc \in {"sync", "refuse"} /\ a.next # "recover"
         \/ /\ session[s].of = k
            /\ session[s].pc \in {"recover", "reread"}
                \/ (session[s].pc = "sync" /\ session[s].next = "recover")
            /\ a.pc \in {"recover", "reread", "insert"}
  PROVE  Rb!CarryInv(k)'
<1>1. Rb!CommandsOf(k)' = Rb!CommandsOf(k) /\ Rb!Waiting(k)' = Rb!Waiting(k)
  BY DEF Rb!CommandsOf, Rb!Waiting
<1>2. SameTask /\ \A c \in Rb!Excused : c \in Rb!Excused'
  BY DEF SameTask, PastKept, Rb!Excused
<1> QED BY <1>1, <1>2, CarryKept DEF Handler, PastKept

(* The proposal's part is kept where its row and its commands are, the     *)
(* worker does not start it and no session turns to deciding it.           *)
LEMMA ProposalKept ==
  ASSUME Rb!BundleInv, UNCHANGED <<proposal, runs, past.rejected>>,
         UNCHANGED <<Rb!CommandsOf(Rb!Proposal), Rb!Waiting(Rb!Proposal)>>,
         past.contested \subseteq past'.contested,
         Rb!Proposal \notin past'.contested =>
           \A z \in BundleSessions : \/ session'[z] = session[z]
                                     \/ session'[z].of # Rb!Proposal
                                     \/ /\ session[z].of = Rb!Proposal
                                        /\ session'[z].pc \notin {"approve", "reject"}
                                        /\ Rb!AboutToInsert(session'[z]) => Rb!AboutToInsert(session[z]),
         worker'.of = Rb!Proposal /\ worker'.pc \in {"begin", "start"} =>
           worker.of = Rb!Proposal /\ worker.pc \in {"begin", "start"}
  PROVE  Rb!ProposalInv'
BY DEF Rb!BundleInv, Rb!ProposalInv, Rb!WorkerIs

-----------------------------------------------------------------------------
(***************************************************************************)
(* Requests.                                                               *)
(***************************************************************************)
(* A request is contested if its target is being handled. *)
LEMMA RequestMade ==
  ASSUME Rb!BundleInv, NEW s \in BundleSessions,
         NEW t \in {Rb!Proposal, <<"bundle", 0>>} \cup DOMAIN child, Rb!Request(s, t)
  PROVE  /\ requests' \in Nat /\ session[s] = Rb!IdleActor /\ PastKept
         /\ UNCHANGED <<past.rejected, past.lost>>
         /\ past'.contested \subseteq past.contested \cup {t}
         /\ t \notin past'.contested => \A z \in BundleSessions : session[z].of # t
<1> USE DEF Rb!BundleInv
<1>1. requests' \in Nat
  BY DEF Rb!Request, Rb!TypeOK
<1>2. session[s] = Rb!IdleActor
  BY DEF Rb!Request, Rb!SessionInv
<1>3. past.contested \subseteq {Rb!Proposal} \cup DOMAIN child
  BY DEF Rb!HistoryInv
<1>4. DOMAIN child \subseteq Rb!Targets /\ Rb!Proposal \in Rb!Targets
  BY TargetsDiffer DEF Rb!TypeOK
<1>5. \A z \in BundleSessions : session[z].of # <<"bundle", 0>>
  BY TargetsDiffer DEF Rb!TypeOK, Rb!Actor
<1>6. past \in Rb!History
  BY DEF Rb!TypeOK
<1>7. past' = [past EXCEPT !.contested = IF \E z \in BundleSessions : session[z].of = t
                                         THEN past.contested \cup {t} ELSE past.contested]
  BY DEF Rb!Request
<1>8. /\ past' \in Rb!History
      /\ UNCHANGED <<past.overtaken, past.unrecorded, past.reached, past.twice, past.thrown,
                     past.died, past.rejected, past.lost>>
      /\ past'.contested = IF \E z \in BundleSessions : session[z].of = t
                           THEN past.contested \cup {t} ELSE past.contested
  BY <1>4, <1>5, <1>6, <1>7 DEF Rb!History
<1> QED BY <1>1, <1>2, <1>3, <1>5, <1>8 DEF PastKept, Rb!HistoryInv, Rb!Excused

(* approveRebalanceProposal and approveCarryAction, up to the write. *)
LEMMA ApprovalRead ==
  ASSUME Rb!BundleInv, NEW s \in BundleSessions, NEW t \in {Rb!Proposal} \cup DOMAIN child,
         Rb!ApproveRead(s, t)
  PROVE  Rb!BundleInv'
<1> USE DEF Rb!BundleInv
<1>0. /\ UNCHANGED <<proposal, runs, child, bundle, recovery, command, worker>>
      /\ Rb!Request(s, t) /\ Rb!Approvable(t)
  BY DEF Rb!ApproveRead
<1>1. /\ requests' \in Nat /\ session[s] = Rb!IdleActor /\ PastKept
      /\ UNCHANGED <<past.rejected, past.lost>>
      /\ past'.contested \subseteq past.contested \cup {t}
      /\ t \notin past'.contested => \A z \in BundleSessions : session[z].of # t
  BY <1>0, RequestMade
<1>2. TablesInv' /\ RequestsKept'
  BY <1>0, <1>1, TablesKept, RecoveryKept
<1> DEFINE a == [Rb!IdleActor EXCEPT !.pc = "approve", !.of = t]
<1>3. /\ a \in Rb!Actor(Rb!SessionSteps) /\ a.pc = "approve" /\ a.of = t /\ a.next = "none"
      /\ a.rec = 0 /\ t \in Rb!Targets
  BY IdleIs, TargetsDiffer DEF Rb!Actor, Rb!SessionSteps, Rb!TypeOK
<1>4. session' = [session EXCEPT ![s] = a]
  BY <1>1 DEF Rb!ApproveRead
<1> HIDE DEF a
<1>5. Handler(s, a)
  BY <1>3, <1>4, BundleHandlerMoves
<1>6. Rb!TypeOK'
  BY <1>0, <1>1, <1>5 DEF Rb!TypeOK, Handler, PastKept
<1>7. Rb!SessionInv'
  BY <1>0, <1>1, <1>3, <1>5, IdleIs
  DEF Rb!SessionInv, Rb!CarryChild, Rb!Requeueing, Rb!Approvable, Handler, PastKept
<1>8. Rb!RowInv'
  BY <1>0, <1>3, <1>5 DEF Rb!RowInv, Handler
<1>9. Rb!ProposalInv'
  <2>1. t = Rb!Proposal => proposal = "proposed"
    BY <1>0, TargetsDiffer DEF Rb!Approvable, Rb!TypeOK
  <2>2. /\ Rb!CommandsOf(Rb!Proposal)' = Rb!CommandsOf(Rb!Proposal)
        /\ Rb!Waiting(Rb!Proposal)' = Rb!Waiting(Rb!Proposal)
    BY <1>0 DEF Rb!CommandsOf, Rb!Waiting
  <2> QED BY <1>0, <1>1, <1>3, <1>5, <2>1, <2>2
          DEF Rb!ProposalInv, Rb!WorkerIs, Rb!AboutToInsert, Handler, PastKept
<1>10. Rb!ChildInv'
  <2> SUFFICES ASSUME NEW k \in DOMAIN child, k[1] = "carry" PROVE Rb!CarryInv(k)'
    BY <1>0 DEF Rb!ChildInv
  <2>2. CASE t # k \/ k \in past'.contested
    BY <1>0, <1>1, <1>3, <1>5, <2>2, OthersKept
  <2>3. CASE t = k /\ k \notin past'.contested
    <3>1. child[k].status = "recommended"
      BY <2>3, <1>0, TargetsDiffer DEF Rb!Approvable, Rb!TypeOK
    <3>2. Rb!UncontestedInv(k)
      BY <1>1, <2>3 DEF Rb!ChildInv, Rb!CarryInv, PastKept
    <3>3. Rb!CommandsOf(k)' = Rb!CommandsOf(k) /\ Rb!Waiting(k)' = Rb!Waiting(k)
      BY <1>0 DEF Rb!CommandsOf, Rb!Waiting
    <3>4. Rb!UncontestedInv(k)'
      BY <1>0, <1>1, <1>3, <1>5, <2>3, <3>1, <3>2, <3>3
      DEF Rb!UncontestedInv, Rb!Early, Rb!WorkerIs, Rb!Armed, Rb!ChildSteps, Handler, PastKept
    <3>5. k \notin past'.reached
      BY <1>1, <3>1, <3>2 DEF Rb!UncontestedInv, PastKept
    <3> QED BY <1>0, <3>1, <3>4, <3>5 DEF Rb!CarryInv, Rb!ReachedInv
  <2> QED BY <2>2, <2>3
<1> QED BY <1>2, <1>6, <1>7, <1>8, <1>9, <1>10 DEF TablesInv, RequestsKept

(* rejectRebalanceProposal, up to the write. *)
LEMMA RejectionRead ==
  ASSUME Rb!BundleInv, NEW s \in BundleSessions, Rb!RejectRead(s)
  PROVE  Rb!BundleInv'
<1> USE DEF Rb!BundleInv
<1>0. /\ UNCHANGED <<proposal, runs, child, bundle, recovery, command, worker>>
      /\ Rb!Request(s, Rb!Proposal) /\ proposal = "proposed"
  BY DEF Rb!RejectRead
<1>1. /\ requests' \in Nat /\ session[s] = Rb!IdleActor /\ PastKept
      /\ UNCHANGED <<past.rejected, past.lost>>
      /\ Rb!Proposal \notin past'.contested => \A z \in BundleSessions : session[z].of # Rb!Proposal
  BY <1>0, RequestMade
<1>2. TablesInv' /\ RequestsKept'
  BY <1>0, <1>1, TablesKept, RecoveryKept
<1> DEFINE a == [Rb!IdleActor EXCEPT !.pc = "reject", !.of = Rb!Proposal]
<1>3. /\ a \in Rb!Actor(Rb!SessionSteps) /\ a.pc = "reject" /\ a.of = Rb!Proposal /\ a.next = "none"
      /\ a.rec = 0
  BY IdleIs, TargetsDiffer DEF Rb!Actor, Rb!SessionSteps
<1>4. session' = [session EXCEPT ![s] = a]
  BY <1>1 DEF Rb!RejectRead
<1> HIDE DEF a
<1>5. Handler(s, a)
  BY <1>3, <1>4, BundleHandlerMoves
<1>6. Rb!TypeOK'
  BY <1>0, <1>1, <1>5 DEF Rb!TypeOK, Handler, PastKept
<1>7. Rb!SessionInv'
  BY <1>0, <1>1, <1>3, <1>5, IdleIs
  DEF Rb!SessionInv, Rb!CarryChild, Rb!Requeueing, Handler, PastKept
<1>8. Rb!RowInv'
  BY <1>0, <1>3, <1>5 DEF Rb!RowInv, Handler
<1>9. Rb!ProposalInv'
  <2>1. /\ Rb!CommandsOf(Rb!Proposal)' = Rb!CommandsOf(Rb!Proposal)
        /\ Rb!Waiting(Rb!Proposal)' = Rb!Waiting(Rb!Proposal)
    BY <1>0 DEF Rb!CommandsOf, Rb!Waiting
  <2> QED BY <1>0, <1>1, <1>3, <1>5, <2>1
          DEF Rb!ProposalInv, Rb!WorkerIs, Rb!AboutToInsert, Handler, PastKept
<1>10. Rb!ChildInv'
  BY <1>0, <1>1, <1>3, <1>5, OthersKept, TargetsDiffer DEF Rb!ChildInv, Rb!TypeOK
<1> QED BY <1>2, <1>6, <1>7, <1>8, <1>9, <1>10 DEF TablesInv, RequestsKept

(* getRebalanceBundle, which syncs the row. *)
LEMMA BundleRead ==
  ASSUME Rb!BundleInv, NEW s \in BundleSessions, Rb!ReadBundle(s)
  PROVE  Rb!BundleInv'
<1> USE DEF Rb!BundleInv
<1>0. /\ UNCHANGED <<proposal, runs, child, bundle, recovery, command, worker>>
      /\ Rb!Request(s, <<"bundle", 0>>)
  BY DEF Rb!ReadBundle
<1>1. /\ requests' \in Nat /\ session[s] = Rb!IdleActor /\ PastKept
      /\ UNCHANGED <<past.rejected, past.lost>>
  BY <1>0, RequestMade
<1>2. TablesInv' /\ RequestsKept'
  BY <1>0, <1>1, TablesKept, RecoveryKept
<1> DEFINE a == Rb!Synced(Rb!IdleActor, "idle")
<1>3. /\ a \in Rb!Actor(Rb!SessionSteps) /\ a.pc = "sync" /\ a.of = Rb!NoTarget /\ a.next = "idle"
      /\ a.rec = 0
  <2>1. "sync" \in Rb!SessionSteps /\ "idle" \in Rb!SessionSteps
    BY DEF Rb!SessionSteps
  <2> QED BY <2>1, IdleIs, SyncIs
<1>4. session' = [session EXCEPT ![s] = a]
  BY <1>1 DEF Rb!ReadBundle
<1> HIDE DEF a
<1>5. Handler(s, a)
  BY <1>3, <1>4, BundleHandlerMoves
<1>6. Rb!TypeOK'
  BY <1>0, <1>1, <1>5 DEF Rb!TypeOK, Handler, PastKept
<1>7. Rb!SessionInv'
  BY <1>0, <1>1, <1>3, <1>5, IdleIs
  DEF Rb!SessionInv, Rb!CarryChild, Rb!Requeueing, Handler, PastKept
<1>8. Rb!RowInv'
  BY <1>0, <1>3, <1>5 DEF Rb!RowInv, Handler
<1>9. Rb!ProposalInv'
  <2>1. /\ Rb!CommandsOf(Rb!Proposal)' = Rb!CommandsOf(Rb!Proposal)
        /\ Rb!Waiting(Rb!Proposal)' = Rb!Waiting(Rb!Proposal)
    BY <1>0 DEF Rb!CommandsOf, Rb!Waiting
  <2> QED BY <1>0, <1>1, <1>3, <1>5, <2>1, ProposalKept, TargetsDiffer DEF Handler, PastKept
<1>10. Rb!ChildInv'
  BY <1>0, <1>1, <1>3, <1>5, OthersKept, TargetsDiffer DEF Rb!ChildInv, Rb!TypeOK
<1> QED BY <1>2, <1>6, <1>7, <1>8, <1>9, <1>10 DEF TablesInv, RequestsKept

(* Only carry children are found eligible. *)
LEMMA CarryEligible ==
  ASSUME Rb!BundleInv, NEW t \in {Rb!Proposal} \cup DOMAIN child, NEW ready,
         Rb!CandidateEligible(t, ready)
  PROVE  Rb!CarryChild(t) /\ t # Rb!Proposal /\ ~child[t].progress
<1>1. t # Rb!Proposal /\ t \in DOMAIN child
  BY DEF Rb!CandidateEligible
<1>2. t[1] # "budget"
  BY <1>1, BudgetIneligible DEF Rb!BundleInv
<1>3. t \in Rb!Children
  BY <1>1 DEF Rb!BundleInv, Rb!TypeOK
<1>4. t[1] \in {"carry", "budget"}
  BY <1>3 DEF Rb!Children
<1>5. ~child[t].progress
  BY EligibleIs DEF Rb!CandidateEligible
<1> QED BY <1>1, <1>2, <1>4, <1>5 DEF Rb!CarryChild

(* requestRebalanceBundleRecoveryAction judges the candidate. *)
LEMMA RecoveryRead ==
  ASSUME Rb!BundleInv, NEW s \in BundleSessions, NEW t \in {Rb!Proposal} \cup DOMAIN child,
         Rb!RecoverRead(s, t)
  PROVE  Rb!BundleInv'
<1> USE DEF Rb!BundleInv
<1>0. /\ UNCHANGED <<proposal, runs, child, bundle, recovery, command, worker>>
      /\ Rb!Request(s, t)
  BY DEF Rb!RecoverRead
<1>1. /\ requests' \in Nat /\ session[s] = Rb!IdleActor /\ PastKept
      /\ UNCHANGED <<past.rejected, past.lost>>
      /\ t \notin past'.contested => \A z \in BundleSessions : session[z].of # t
  BY <1>0, RequestMade
<1>2. TablesInv' /\ RequestsKept'
  BY <1>0, <1>1, TablesKept, RecoveryKept
<1>3. PICK ready \in BOOLEAN :
        session' = [session EXCEPT ![s] =
                      Rb!Synced([session[s] EXCEPT !.of = t],
                                IF Rb!CandidateEligible(t, ready) THEN "recover" ELSE "refuse")]
  BY DEF Rb!RecoverRead
<1> DEFINE next == IF Rb!CandidateEligible(t, ready) THEN "recover" ELSE "refuse"
           me == [Rb!IdleActor EXCEPT !.of = t]
           a == Rb!Synced(me, next)
<1>4. /\ a \in Rb!Actor(Rb!SessionSteps) /\ a.pc = "sync" /\ a.of = t /\ a.rec = 0
      /\ a.next = next /\ next \in {"recover", "refuse"} /\ t \in Rb!Targets
  <2>1. me \in Rb!Actor(Rb!SessionSteps) /\ me.of = t /\ me.rec = 0 /\ t \in Rb!Targets
    BY IdleIs, TargetsDiffer DEF Rb!Actor, Rb!TypeOK
  <2>2. "sync" \in Rb!SessionSteps /\ next \in Rb!SessionSteps /\ next \in {"recover", "refuse"}
    BY DEF Rb!SessionSteps
  <2> HIDE DEF me, next
  <2> QED BY <2>1, <2>2, SyncIs
<1>5. session' = [session EXCEPT ![s] = a]
  BY <1>1, <1>3
<1> HIDE DEF a
<1>6. Handler(s, a)
  BY <1>4, <1>5, BundleHandlerMoves
<1>7. Rb!TypeOK'
  BY <1>0, <1>1, <1>6 DEF Rb!TypeOK, Handler, PastKept
<1>8. a.next = "recover" => Rb!CarryChild(t) /\ Rb!CandidateEligible(t, ready) /\ ~child[t].progress
  BY <1>4, CarryEligible
<1> HIDE DEF next
<1>9. Rb!SessionInv'
  BY <1>0, <1>1, <1>4, <1>6, <1>8, IdleIs
  DEF Rb!SessionInv, Rb!CarryChild, Rb!Requeueing, Handler, PastKept
<1>10. Rb!RowInv'
  BY <1>0, <1>4, <1>6 DEF Rb!RowInv, Handler
<1>11. Rb!ProposalInv'
  <2>1. /\ Rb!CommandsOf(Rb!Proposal)' = Rb!CommandsOf(Rb!Proposal)
        /\ Rb!Waiting(Rb!Proposal)' = Rb!Waiting(Rb!Proposal)
    BY <1>0 DEF Rb!CommandsOf, Rb!Waiting
  <2> QED BY <1>0, <1>1, <1>4, <1>6, <2>1
          DEF Rb!ProposalInv, Rb!WorkerIs, Rb!AboutToInsert, Handler, PastKept
<1>12. Rb!ChildInv'
  <2> SUFFICES ASSUME NEW k \in DOMAIN child, k[1] = "carry" PROVE Rb!CarryInv(k)'
    BY <1>0 DEF Rb!ChildInv
  <2>1. CASE t # k \/ k \in past'.contested
    BY <1>0, <1>1, <1>4, <1>6, <2>1, OthersKept
  <2>2. CASE t = k /\ k \notin past'.contested
    <3>1. Rb!UncontestedInv(k)
      BY <1>1, <2>2 DEF Rb!ChildInv, Rb!CarryInv, PastKept
    <3>2. Rb!CommandsOf(k)' = Rb!CommandsOf(k) /\ Rb!Waiting(k)' = Rb!Waiting(k)
      BY <1>0 DEF Rb!CommandsOf, Rb!Waiting
    <3>3. a.next = "recover" => child[k].status = "failed"
      BY <1>8, <2>2, <3>1, EligibleHasFailed
    <3>4. Rb!UncontestedInv(k)'
      BY <1>0, <1>1, <1>4, <1>6, <2>2, <3>1, <3>2, <3>3
      DEF Rb!UncontestedInv, Rb!Early, Rb!WorkerIs, Rb!Armed, Rb!ChildSteps, Handler, PastKept
    <3>5. k \notin past'.unrecorded => Rb!ReachedInv(k)'
      <4> SUFFICES ASSUME k \notin past.contested \cup past.unrecorded PROVE Rb!ReachedInv(k)'
        BY <1>1, <2>2 DEF PastKept
      <4>1. Rb!ReachedInv(k)
        BY DEF Rb!ChildInv, Rb!CarryInv
      <4> QED BY <1>0, <1>1, <1>4, <1>6, <1>8, <2>2, <3>2, <4>1
              DEF Rb!ReachedInv, Rb!Early, Rb!WorkerIs, Rb!Armed, Handler, PastKept
    <3>6. \A c \in Rb!Excused : c \in Rb!Excused'
      BY <1>1 DEF PastKept, Rb!Excused
    <3>7. Rb!CarryInv(k)
      BY DEF Rb!ChildInv
    <3> QED BY <1>0, <3>2, <3>4, <3>5, <3>6, <3>7 DEF Rb!CarryInv, Rb!WorkerIs
  <2> QED BY <2>1, <2>2
<1> QED BY <1>2, <1>7, <1>9, <1>10, <1>11, <1>12 DEF TablesInv, RequestsKept

(* A handler writes the bundle row it has derived. *)
LEMMA SessionSynced ==
  ASSUME Rb!BundleInv, NEW s \in BundleSessions, Rb!SessionSync(s)
  PROVE  Rb!BundleInv'
<1> USE DEF Rb!BundleInv
<1>0. /\ UNCHANGED <<proposal, runs, child, recovery, command, worker, requests>>
      /\ session[s].pc = "sync" /\ bundle' = session[s].snap
  BY DEF Rb!SessionSync, Rb!SyncRow
<1>1. session[s] \in Rb!Actor(Rb!SessionSteps) /\ past \in Rb!History
  BY DEF Rb!TypeOK
<1>2. /\ PastKept /\ UNCHANGED past.rejected
      /\ past'.lost = {} => bundle' = Rb!Snapshot(proposal, child)
  BY <1>1 DEF Rb!SessionSync, Rb!SyncRow, PastKept, Rb!History, Rb!HistoryInv, Rb!Excused
<1>3. TablesInv' /\ RequestsKept'
  BY <1>0, <1>2, TablesKept, RecoveryKept
<1> DEFINE a == IF session[s].next = "idle" THEN Rb!IdleActor
                ELSE [session[s] EXCEPT !.pc = session[s].next, !.snap = Rb!NoView, !.next = "none"]
<1>4. session' = [session EXCEPT ![s] = a]
  BY DEF Rb!SessionSync
<1>5. session[s].next \in {"idle", "insert", "recover", "refuse"}
  BY <1>0 DEF Rb!SessionInv
<1>6. /\ a \in Rb!Actor(Rb!SessionSteps) /\ a.pc = session[s].next /\ a.next = "none"
      /\ a.pc = "idle" => a = Rb!IdleActor
      /\ a.pc # "idle" => a.of = session[s].of /\ a.rec = session[s].rec
  BY <1>1, <1>5, IdleIs DEF Rb!Actor, Rb!SessionSteps
<1> HIDE DEF a
<1>7. Handler(s, a)
  BY <1>4, <1>6, BundleHandlerMoves
<1>8. Rb!TypeOK'
  BY <1>0, <1>1, <1>2, <1>7 DEF Rb!TypeOK, Handler, PastKept, Rb!Actor
<1>9. Rb!SessionInv'
  BY <1>0, <1>2, <1>5, <1>6, <1>7, IdleIs
  DEF Rb!SessionInv, Rb!CarryChild, Rb!Requeueing, Handler, PastKept
<1>10. Rb!RowInv'
  BY <1>0, <1>2 DEF Rb!RowInv
<1>11. Rb!ProposalInv'
  <2>1. /\ Rb!CommandsOf(Rb!Proposal)' = Rb!CommandsOf(Rb!Proposal)
        /\ Rb!Waiting(Rb!Proposal)' = Rb!Waiting(Rb!Proposal)
    BY <1>0 DEF Rb!CommandsOf, Rb!Waiting
  <2>2. Rb!AboutToInsert(a) => Rb!AboutToInsert(session[s])
    BY <1>0, <1>5, <1>6 DEF Rb!AboutToInsert
  <2> QED BY <1>0, <1>2, <1>5, <1>6, <1>7, <2>1, <2>2, IdleIs, ProposalKept, TargetsDiffer
          DEF Handler, PastKept
<1>12. Rb!ChildInv'
  <2> SUFFICES ASSUME NEW k \in DOMAIN child, k[1] = "carry" PROVE Rb!CarryInv(k)'
    BY <1>0 DEF Rb!ChildInv
  <2>1. k # Rb!Proposal /\ k # Rb!NoTarget
    BY TargetsDiffer DEF Rb!TypeOK
  <2>2. session[s].next = "insert" => session[s].of = Rb!Proposal
    BY <1>0 DEF Rb!SessionInv
  <2> QED BY <1>0, <1>2, <1>5, <1>6, <1>7, <2>1, <2>2, IdleIs, OthersKept
<1> QED BY <1>3, <1>8, <1>9, <1>10, <1>11, <1>12 DEF TablesInv, RequestsKept

(* The child of a recovery request is read again. *)
LEMMA ChildReread ==
  ASSUME Rb!BundleInv, NEW s \in BundleSessions, Rb!RereadChild(s)
  PROVE  Rb!BundleInv'
<1> USE DEF Rb!BundleInv
<1>0. /\ UNCHANGED <<proposal, runs, child, bundle, recovery, command, worker, requests, past>>
      /\ session[s].pc = "reread"
  BY DEF Rb!RereadChild
<1>1. session[s] \in Rb!Actor(Rb!SessionSteps) /\ PastKept
  BY <1>0, PastSame DEF Rb!TypeOK
<1>2. TablesInv' /\ RequestsKept'
  BY <1>0, <1>1, TablesKept, RecoveryKept
<1> DEFINE k0 == session[s].of
           pc == IF Rb!StatusOf(k0) = "recommended" THEN "approve" ELSE "insert"
           a == [session[s] EXCEPT !.pc = pc]
<1>3. session' = [session EXCEPT ![s] = a]
  BY DEF Rb!RereadChild
<1>4. /\ a \in Rb!Actor(Rb!SessionSteps) /\ a.pc = pc /\ pc \in {"approve", "insert"}
      /\ a.of = k0 /\ a.rec = session[s].rec /\ a.next = session[s].next
  BY <1>1 DEF Rb!Actor, Rb!SessionSteps
<1>5. /\ Rb!CarryChild(k0) /\ k0 # Rb!Proposal
      /\ a.pc = "approve" => child[k0].status = "recommended"
  <2>1. Rb!CarryChild(k0)
    BY <1>0 DEF Rb!SessionInv, Rb!Requeueing
  <2>2. k0 # Rb!Proposal
    BY <2>1, TargetsDiffer DEF Rb!CarryChild, Rb!TypeOK
  <2> QED BY <1>4, <2>1, <2>2 DEF Rb!StatusOf
<1> HIDE DEF a, pc
<1>6. Handler(s, a)
  BY <1>3, <1>4, BundleHandlerMoves
<1>7. Rb!TypeOK'
  BY <1>0, <1>1, <1>6 DEF Rb!TypeOK, Handler, PastKept
<1>8. Rb!SessionInv'
  BY <1>0, <1>4, <1>5, <1>6 DEF Rb!SessionInv, Rb!CarryChild, Rb!Requeueing, Handler
<1>9. Rb!RowInv'
  BY <1>0, <1>4, <1>6 DEF Rb!RowInv, Handler
<1>10. Rb!ProposalInv'
  <2>1. /\ Rb!CommandsOf(Rb!Proposal)' = Rb!CommandsOf(Rb!Proposal)
        /\ Rb!Waiting(Rb!Proposal)' = Rb!Waiting(Rb!Proposal)
    BY <1>0 DEF Rb!CommandsOf, Rb!Waiting
  <2> QED BY <1>0, <1>4, <1>5, <1>6, <2>1, ProposalKept DEF Handler
<1>11. Rb!ChildInv'
  <2> SUFFICES ASSUME NEW k \in DOMAIN child, k[1] = "carry" PROVE Rb!CarryInv(k)'
    BY <1>0 DEF Rb!ChildInv
  <2>1. CASE a.of # k \/ k \in past'.contested \/ a.pc = "insert"
    BY <1>0, <1>1, <1>4, <1>6, <2>1, OthersKept
  <2>2. CASE k0 = k /\ k \notin past.contested /\ a.pc = "approve"
    <3>1. Rb!UncontestedInv(k) /\ child[k].status = "recommended"
      BY <1>5, <2>2 DEF Rb!ChildInv, Rb!CarryInv
    <3> QED BY <1>0, <2>2, <3>1 DEF Rb!UncontestedInv
  <2> QED BY <1>0, <1>4, <2>1, <2>2
<1> QED BY <1>2, <1>7, <1>8, <1>9, <1>10, <1>11 DEF TablesInv, RequestsKept

-----------------------------------------------------------------------------
(***************************************************************************)
(* Requests write recovery rows.                                           *)
(***************************************************************************)
(* A handler that writes a recovery row and then syncs the bundle.         *)
LEMMA RecoveryWritten ==
  ASSUME Rb!BundleInv, NEW s \in BundleSessions,
         UNCHANGED <<proposal, runs, child, bundle, command, worker, requests>>,
         PastKept, UNCHANGED past.rejected, RecoveryGrows, RequestsKept',
         recovery' \in Seq(Rb!Recovery), session[s].pc # "idle",
         session' = [session EXCEPT ![s] = Rb!Synced(session[s], "idle")]
  PROVE  Rb!BundleInv'
<1> USE DEF Rb!BundleInv
<1>1. TablesInv'
  BY TablesKept
<1> DEFINE a == Rb!Synced(session[s], "idle")
<1>2. session[s] \in Rb!Actor(Rb!SessionSteps)
  BY DEF Rb!TypeOK
<1>3. /\ a \in Rb!Actor(Rb!SessionSteps) /\ a.pc = "sync" /\ a.next = "idle"
      /\ a.of = session[s].of /\ a.rec = session[s].rec
  <2>1. "sync" \in Rb!SessionSteps /\ "idle" \in Rb!SessionSteps
    BY DEF Rb!SessionSteps
  <2> QED BY <1>2, <2>1, SyncIs
<1> HIDE DEF a
<1>4. Handler(s, a)
  BY <1>3, BundleHandlerMoves DEF a
<1>5. Rb!TypeOK'
  BY <1>4 DEF Rb!TypeOK, Handler, PastKept
<1>6. Rb!SessionInv'
  BY <1>3, <1>4 DEF Rb!SessionInv, Rb!CarryChild, Rb!Requeueing, Handler, PastKept, RecoveryGrows
<1>7. Rb!RowInv'
  BY <1>3, <1>4 DEF Rb!RowInv, Handler
<1>8. Rb!ProposalInv'
  <2>1. /\ Rb!CommandsOf(Rb!Proposal)' = Rb!CommandsOf(Rb!Proposal)
        /\ Rb!Waiting(Rb!Proposal)' = Rb!Waiting(Rb!Proposal)
    BY DEF Rb!CommandsOf, Rb!Waiting
  <2> QED BY <1>3, <1>4, <2>1, ProposalKept DEF Handler, PastKept, Rb!AboutToInsert
<1>9. Rb!ChildInv'
  BY <1>3, <1>4, OthersKept DEF Rb!ChildInv
<1> QED BY <1>1, <1>5, <1>6, <1>7, <1>8, <1>9 DEF TablesInv, RequestsKept

(* The request for a child that is not eligible is recorded as blocked. *)
LEMMA RecoveryRefused ==
  ASSUME Rb!BundleInv, NEW s \in BundleSessions, Rb!RefuseRecovery(s)
  PROVE  Rb!BundleInv'
<1> USE DEF Rb!BundleInv
<1> DEFINE e == [of |-> session[s].of, status |-> "blocked"]
<1>0. /\ UNCHANGED <<proposal, runs, child, bundle, command, worker, requests, past>>
      /\ session[s].pc = "refuse" /\ recovery' = Append(recovery, e)
      /\ session' = [session EXCEPT ![s] = Rb!Synced(session[s], "idle")]
  BY DEF Rb!RefuseRecovery
<1>1. e \in Rb!Recovery
  BY <1>0 DEF Rb!SessionInv, Rb!Recovery
<1>2. recovery \in Seq(Rb!Recovery) /\ PastKept
  BY <1>0, PastSame DEF Rb!TypeOK
<1>3. e.of = session[s].of /\ e.status = "blocked"
  OBVIOUS
<1> HIDE DEF e
<1>4. recovery' \in Seq(Rb!Recovery) /\ Extended(recovery, recovery', e)
  BY <1>0, <1>1, <1>2, ExtendedTable
<1>5. RecoveryGrows
  BY <1>4 DEF Extended, RecoveryGrows
<1>6. RequestsKept'
  <2>1. Rb!BudgetNeverRequeued'
    BY <1>3, <1>4 DEF Extended, Rb!BudgetNeverRequeued
  <2>2. Rb!RecoveryFollowsCommand'
    BY <1>0, <1>4 DEF Extended, Rb!RecoveryFollowsCommand, Rb!CommandInv
  <2> QED BY <2>1, <2>2 DEF RequestsKept
<1> QED BY <1>0, <1>2, <1>4, <1>5, <1>6, RecoveryWritten

(* The recovery row of a session, and of no command before its own. *)
LEMMA RecoveryMarked ==
  ASSUME Rb!BundleInv, NEW r \in DOMAIN recovery, recovery[r].of[1] # "budget",
         NEW st \in {"queued", "executing", "completed", "failed"},
         recovery' = [recovery EXCEPT ![r].status = st]
  PROVE  /\ recovery' \in Seq(Rb!Recovery) /\ RecoveryGrows /\ Rb!BudgetNeverRequeued'
         /\ DOMAIN recovery' = DOMAIN recovery /\ recovery'[r].status = st
         /\ \A x \in DOMAIN recovery : x # r => recovery'[x] = recovery[x]
<1> DEFINE e == [recovery[r] EXCEPT !.status = st]
<1>1. recovery \in Seq(Rb!Recovery) /\ recovery[r] \in Rb!Recovery
  BY DEF Rb!BundleInv, Rb!TypeOK
<1>2. /\ e \in Rb!Recovery /\ e.of = recovery[r].of /\ e.status = st
      /\ recovery' = [recovery EXCEPT ![r] = e]
  BY <1>1 DEF Rb!Recovery
<1> HIDE DEF e
<1>3. recovery' \in Seq(Rb!Recovery) /\ Updated(recovery, recovery', r, e)
  BY <1>1, <1>2, UpdatedTable
<1>4. RecoveryGrows
  BY <1>2, <1>3 DEF Updated, RecoveryGrows
<1>5. Rb!BudgetNeverRequeued'
  BY <1>2, <1>3 DEF Updated, Rb!BudgetNeverRequeued, Rb!BundleInv
<1> QED BY <1>2, <1>3, <1>4, <1>5 DEF Updated

(* The row a session holds is that of a carry child. *)
LEMMA RowOfCarry ==
  ASSUME Rb!BundleInv, NEW s \in BundleSessions, session[s].rec # 0
  PROVE  session[s].rec \in DOMAIN recovery /\ recovery[session[s].rec].of[1] # "budget"
BY DEF Rb!BundleInv, Rb!SessionInv, Rb!CarryChild

(* The recovery request is marked queued. *)
LEMMA RecoveryIsQueued ==
  ASSUME Rb!BundleInv, NEW s \in BundleSessions, Rb!RecoveryQueued(s)
  PROVE  Rb!BundleInv'
<1> USE DEF Rb!BundleInv
<1> DEFINE r == session[s].rec
<1>0. /\ UNCHANGED <<proposal, runs, child, bundle, command, worker, requests, past>>
      /\ session[s].pc = "recovery_queued" /\ recovery' = [recovery EXCEPT ![r].status = "queued"]
      /\ session' = [session EXCEPT ![s] = Rb!Synced(session[s], "idle")]
  BY DEF Rb!RecoveryQueued
<1>1. /\ r # 0 /\ session[s].cmd \in DOMAIN command /\ command[session[s].cmd].rec = r
      /\ command[session[s].cmd].status = "pending" \/ session[s].cmd \in past.overtaken
  BY <1>0 DEF Rb!SessionInv
<1>2. r \in DOMAIN recovery /\ recovery[r].of[1] # "budget" /\ PastKept
  BY <1>0, <1>1, RowOfCarry, PastSame
<1>3. /\ recovery' \in Seq(Rb!Recovery) /\ RecoveryGrows /\ Rb!BudgetNeverRequeued'
      /\ \A x \in DOMAIN recovery : x # r => recovery'[x] = recovery[x]
  BY <1>0, <1>2, RecoveryMarked
<1>4. Rb!RecoveryFollowsCommand'
  BY <1>0, <1>1, <1>3 DEF Rb!RecoveryFollowsCommand, Rb!CommandInv
<1> QED BY <1>0, <1>2, <1>3, <1>4, RecoveryWritten DEF RequestsKept

(* The catch block marks the recovery request failed. *)
LEMMA RecoveryHasThrown ==
  ASSUME Rb!BundleInv, NEW s \in BundleSessions, Rb!RecoveryThrows(s)
  PROVE  Rb!BundleInv'
<1> USE DEF Rb!BundleInv
<1> DEFINE r == session[s].rec
<1>0. /\ UNCHANGED <<proposal, runs, child, bundle, command, worker, requests>>
      /\ session[s].pc \in {"reread", "insert", "queue", "recovery_queued"}
      /\ recovery' = [recovery EXCEPT ![r].status = "failed"] /\ r # 0
      /\ session' = [session EXCEPT ![s] = Rb!Synced(session[s], "idle")]
  BY DEF Rb!RecoveryThrows
<1>1. PastKept /\ UNCHANGED <<past.rejected, past.overtaken, past.died>>
  <2>1. past \in Rb!History /\ past' = [past EXCEPT !.faults = past.faults + 1]
    BY DEF Rb!RecoveryThrows, Rb!TypeOK
  <2>2. /\ past' \in Rb!History
        /\ UNCHANGED <<past.overtaken, past.unrecorded, past.reached, past.twice, past.rejected,
                       past.contested, past.thrown, past.died>>
    BY <2>1 DEF Rb!History
  <2> QED BY <2>2 DEF Rb!HistoryInv, Rb!Excused, PastKept
<1>2. r \in DOMAIN recovery /\ recovery[r].of[1] # "budget"
  BY <1>0, RowOfCarry
<1>3. /\ recovery' \in Seq(Rb!Recovery) /\ RecoveryGrows /\ Rb!BudgetNeverRequeued'
      /\ \A x \in DOMAIN recovery : x # r => recovery'[x] = recovery[x]
  BY <1>0, <1>2, RecoveryMarked
<1>4. Rb!RecoveryFollowsCommand'
  <2>1. ASSUME NEW c \in DOMAIN command, command[c].rec = r
        PROVE  command[c].status = "pending" \/ c \in past.overtaken
    <3>1. c = session[s].cmd /\ session[s].pc \in {"queue", "recovery_queued"}
      BY <1>0, <2>1 DEF Rb!SessionInv, Rb!CommandInv
    <3> QED BY <3>1 DEF Rb!SessionInv
  <2>2. \A c \in DOMAIN command : command[c].rec # 0 => command[c].rec \in DOMAIN recovery
    BY DEF Rb!CommandInv
  <2> QED BY <1>0, <1>1, <1>3, <2>1, <2>2 DEF Rb!RecoveryFollowsCommand
<1> QED BY <1>0, <1>1, <1>3, <1>4, RecoveryWritten DEF RequestsKept

(* The recovery request becomes a row. *)
LEMMA RecoveryStarted ==
  ASSUME Rb!BundleInv, NEW s \in BundleSessions, Rb!StartRecovery(s)
  PROVE  Rb!BundleInv'
<1> USE DEF Rb!BundleInv
<1> DEFINE e == [of |-> session[s].of, status |-> "requested"]
           n == Len(recovery) + 1
           a == [session[s] EXCEPT !.pc = "reread", !.rec = n]
<1>0. /\ UNCHANGED <<proposal, runs, child, bundle, command, worker, requests, past>>
      /\ session[s].pc = "recover" /\ recovery' = Append(recovery, e)
      /\ session' = [session EXCEPT ![s] = a]
  BY DEF Rb!StartRecovery
<1>1. Rb!CarryChild(session[s].of) /\ session[s].of # Rb!Proposal /\ session[s].of \in Rb!Targets
  <2>1. Rb!CarryChild(session[s].of)
    BY <1>0 DEF Rb!SessionInv, Rb!Requeueing
  <2> QED BY <2>1, TargetsDiffer DEF Rb!CarryChild, Rb!TypeOK
<1>2. /\ recovery \in Seq(Rb!Recovery) /\ PastKept /\ e \in Rb!Recovery
      /\ session[s] \in Rb!Actor(Rb!SessionSteps)
  BY <1>0, <1>1, PastSame DEF Rb!TypeOK, Rb!Recovery
<1>3. e.of = session[s].of
  OBVIOUS
<1>4. n \in Nat /\ n # 0 /\ n = Len(recovery')
  BY <1>0, <1>2
<1>5. /\ a \in Rb!Actor(Rb!SessionSteps) /\ a.pc = "reread" /\ a.rec = n
      /\ a.of = session[s].of /\ a.next = session[s].next
  BY <1>2, <1>4 DEF Rb!Actor, Rb!SessionSteps
<1> HIDE DEF e, a, n
<1>6. recovery' \in Seq(Rb!Recovery) /\ Extended(recovery, recovery', e)
  BY <1>0, <1>2, ExtendedTable
<1>7. /\ RecoveryGrows /\ n \in DOMAIN recovery' /\ n \notin DOMAIN recovery
      /\ recovery'[n].of = session[s].of
  BY <1>3, <1>4, <1>6 DEF Extended, RecoveryGrows
<1>8. TablesInv'
  BY <1>0, <1>2, <1>7, TablesKept
<1>9. Handler(s, a)
  BY <1>0, <1>5, BundleHandlerMoves
<1>10. Rb!TypeOK'
  BY <1>0, <1>6, <1>9 DEF Rb!TypeOK, Handler
<1>11. Rb!SessionInv'
  <2>1. \A c \in DOMAIN command : command[c].rec # n
    BY <1>4, <1>7 DEF Rb!CommandInv
  <2>2. \A z \in BundleSessions : session[z].rec # n
    BY <1>4, <1>7 DEF Rb!SessionInv
  <2> QED BY <1>0, <1>1, <1>5, <1>7, <1>9, <2>1, <2>2
          DEF Rb!SessionInv, Rb!CarryChild, Rb!Requeueing, Handler, RecoveryGrows
<1>12. Rb!RowInv'
  BY <1>0, <1>5, <1>9 DEF Rb!RowInv, Handler
<1>13. Rb!ProposalInv'
  <2>1. /\ Rb!CommandsOf(Rb!Proposal)' = Rb!CommandsOf(Rb!Proposal)
        /\ Rb!Waiting(Rb!Proposal)' = Rb!Waiting(Rb!Proposal)
    BY <1>0 DEF Rb!CommandsOf, Rb!Waiting
  <2> QED BY <1>0, <1>1, <1>5, <1>9, <2>1, ProposalKept DEF Handler
<1>14. Rb!ChildInv'
  BY <1>0, <1>2, <1>5, <1>9, OthersKept DEF Rb!ChildInv
<1>15. RequestsKept'
  <2>1. Rb!BudgetNeverRequeued'
    BY <1>1, <1>4, <1>6, <1>7 DEF Extended, Rb!BudgetNeverRequeued, Rb!CarryChild
  <2>2. Rb!RecoveryFollowsCommand'
    BY <1>0, <1>6 DEF Extended, Rb!RecoveryFollowsCommand, Rb!CommandInv
  <2> QED BY <2>1, <2>2 DEF RequestsKept
<1> QED BY <1>8, <1>10, <1>11, <1>12, <1>13, <1>14, <1>15 DEF TablesInv, RequestsKept

-----------------------------------------------------------------------------
(***************************************************************************)
(* Requests write the status of their target and insert its command.       *)
(***************************************************************************)
(* The status of one child is written. *)
LEMMA ChildWritten ==
  ASSUME Rb!TypeOK, NEW k \in DOMAIN child, NEW st \in Rb!ActionStatuses, Rb!SetChild(k, st)
  PROVE  /\ DOMAIN child' = DOMAIN child /\ \A j \in DOMAIN child : child'[j] \in Rb!Row
         /\ \A j \in DOMAIN child : j # k => child'[j] = child[j]
         /\ child'[k].status = st /\ child'[k].executions = child[k].executions
         /\ child'[k].progress = child[k].progress /\ child'[k].executable = child[k].executable
<1>1. child' = [child EXCEPT ![k] = [child[k] EXCEPT !.status = st]] /\ child[k] \in Rb!Row
  BY DEF Rb!SetChild, Rb!TypeOK
<1> QED BY <1>1 DEF Rb!TypeOK, Rb!Row

(* The command of a session that is about to mark its target queued. *)
LEMMA WorkerHolds ==
  ASSUME Rb!BundleInv, worker.pc # "idle"
  PROVE  worker.cmd \in Rb!CommandsOf(worker.of) /\ worker.cmd \notin Rb!Waiting(worker.of)
BY DEF Rb!BundleInv, Rb!WorkerInv, Rb!StatusAt, Rb!CommandsOf, Rb!Waiting

(* The approval is written, whatever the status is by now. *)
LEMMA ApprovalWritten ==
  ASSUME Rb!BundleInv, NEW s \in BundleSessions, Rb!ApproveWrite(s)
  PROVE  Rb!BundleInv'
<1> USE DEF Rb!BundleInv
<1> DEFINE t == session[s].of
           a == IF t = Rb!Proposal THEN Rb!Synced(session[s], "insert")
                ELSE [session[s] EXCEPT !.pc = "insert"]
<1>0. /\ UNCHANGED <<runs, bundle, recovery, command, worker, requests, past>>
      /\ session[s].pc = "approve" /\ session' = [session EXCEPT ![s] = a]
      /\ t = Rb!Proposal => proposal' = "approved" /\ UNCHANGED child
      /\ t # Rb!Proposal => Rb!SetChild(t, "approved") /\ UNCHANGED proposal
  BY DEF Rb!ApproveWrite, Rb!Overwrite
<1>1. session[s] \in Rb!Actor(Rb!SessionSteps) /\ PastKept
  BY <1>0, PastSame DEF Rb!TypeOK
<1>2. /\ a \in Rb!Actor(Rb!SessionSteps) /\ a.of = t /\ a.rec = session[s].rec
      /\ t = Rb!Proposal => a.pc = "sync" /\ a.next = "insert" /\ a.rec = 0
      /\ t # Rb!Proposal => a.pc = "insert" /\ a.next = session[s].next
  <2>1. "sync" \in Rb!SessionSteps /\ "insert" \in Rb!SessionSteps
    BY DEF Rb!SessionSteps
  <2>2. t = Rb!Proposal => session[s].rec = 0
    BY TargetsDiffer DEF Rb!SessionInv, Rb!CarryChild, Rb!TypeOK
  <2> QED BY <1>1, <2>1, <2>2, SyncIs DEF Rb!Actor
<1>3. t = Rb!Proposal \/ Rb!CarryChild(t)
  BY <1>0 DEF Rb!SessionInv
<1> HIDE DEF a
<1>4. Handler(s, a)
  BY <1>0, <1>2, BundleHandlerMoves
<1>5. /\ DOMAIN child' = DOMAIN child /\ \A j \in DOMAIN child : child'[j] \in Rb!Row
      /\ \A j \in DOMAIN child : j # t => child'[j] = child[j]
      /\ t # Rb!Proposal => /\ child'[t].status = "approved"
                            /\ child'[t].executions = child[t].executions
  <2>1. CASE t = Rb!Proposal
    BY <1>0, <2>1 DEF Rb!TypeOK
  <2>2. CASE t # Rb!Proposal
    <3>1. t \in DOMAIN child /\ "approved" \in Rb!ActionStatuses /\ Rb!SetChild(t, "approved")
      BY <1>0, <1>3, <2>2 DEF Rb!CarryChild, Rb!ActionStatuses
    <3> QED BY <3>1, ChildWritten
  <2> QED BY <2>1, <2>2
<1>6. Rb!TypeOK'
  BY <1>0, <1>1, <1>4, <1>5 DEF Rb!TypeOK, Handler, PastKept
<1>7. ChildrenKept
  BY <1>3, <1>5, TargetsDiffer DEF ChildrenKept, Rb!CarryChild, Rb!TypeOK
<1>8. TablesInv' /\ RequestsKept'
  BY <1>0, <1>1, <1>7, RowsKept, RecoveryKept
<1>9. Rb!SessionInv'
  BY <1>0, <1>2, <1>3, <1>4, <1>5 DEF Rb!SessionInv, Rb!CarryChild, Rb!Requeueing, Handler
<1>10. Rb!RowInv'
  BY <1>2, <1>4 DEF Rb!RowInv, Handler
<1>11. Rb!ProposalInv'
  <2>1. /\ Rb!CommandsOf(Rb!Proposal)' = Rb!CommandsOf(Rb!Proposal)
        /\ Rb!Waiting(Rb!Proposal)' = Rb!Waiting(Rb!Proposal)
    BY <1>0 DEF Rb!CommandsOf, Rb!Waiting
  <2>2. CASE t # Rb!Proposal
    BY <1>0, <1>2, <1>4, <2>1, <2>2, ProposalKept DEF Handler
  <2>3. CASE t = Rb!Proposal
    BY <1>0, <1>2, <1>4, <2>1, <2>3 DEF Rb!ProposalInv, Rb!WorkerIs, Rb!AboutToInsert, Handler
  <2> QED BY <2>2, <2>3
<1>12. Rb!ChildInv'
  <2> SUFFICES ASSUME NEW k \in DOMAIN child, k[1] = "carry" PROVE Rb!CarryInv(k)'
    BY <1>5 DEF Rb!ChildInv
  <2>1. k # Rb!Proposal
    BY TargetsDiffer DEF Rb!TypeOK
  <2>2. CASE k # t
    BY <1>0, <1>1, <1>2, <1>4, <1>5, <2>2, OthersKept
  <2>3. CASE k = t
    <3>1. CASE k \in past.contested
      BY <1>0, <1>5, <2>1, <2>3, <3>1 DEF Rb!CarryInv
    <3>2. CASE k \notin past.contested
      <4>1. Rb!UncontestedInv(k)
        BY <3>2 DEF Rb!ChildInv, Rb!CarryInv
      <4>2. child[k].status = "recommended"
        BY <1>0, <2>3, <4>1 DEF Rb!UncontestedInv
      <4>3. Rb!CommandsOf(k) = {} /\ child[k].executions = <<>> /\ k \notin past.reached
        BY <4>1, <4>2 DEF Rb!UncontestedInv
      <4>4. Rb!CommandsOf(k)' = {} /\ Rb!Waiting(k)' = {}
        BY <1>0, <4>3 DEF Rb!CommandsOf, Rb!Waiting
      <4>5. worker.pc # "idle" => worker.of # k
        BY <4>3, WorkerHolds
      <4>6. ~Rb!SeqHas(<<>>, "failed")
        BY DEF Rb!SeqHas
      <4>7. Rb!UncontestedInv(k)'
        BY <1>0, <1>2, <1>4, <1>5, <2>1, <2>3, <4>1, <4>2, <4>3, <4>4, <4>5, <4>6
        DEF Rb!UncontestedInv, Rb!Early, Rb!WorkerIs, Rb!Armed, Rb!ChildSteps, Handler
      <4> QED BY <1>0, <1>5, <2>1, <2>3, <4>3, <4>7 DEF Rb!CarryInv, Rb!ReachedInv
    <3> QED BY <3>1, <3>2
  <2> QED BY <2>2, <2>3
<1> QED BY <1>6, <1>8, <1>9, <1>10, <1>11, <1>12 DEF TablesInv, RequestsKept

(* The target is marked queued, after its command is in the table. *)
LEMMA QueueWritten ==
  ASSUME Rb!BundleInv, NEW s \in BundleSessions, Rb!QueueWrite(s)
  PROVE  Rb!BundleInv'
<1> USE DEF Rb!BundleInv
<1> DEFINE t == session[s].of
           a == IF session[s].rec = 0 THEN Rb!Synced(session[s], "idle")
                ELSE [session[s] EXCEPT !.pc = "recovery_queued"]
<1>0. /\ UNCHANGED <<runs, bundle, recovery, command, worker, requests, past>>
      /\ session[s].pc = "queue" /\ session' = [session EXCEPT ![s] = a]
      /\ t = Rb!Proposal => proposal' = "queued" /\ UNCHANGED child
      /\ t # Rb!Proposal => Rb!SetChild(t, "queued") /\ UNCHANGED proposal
  BY DEF Rb!QueueWrite, Rb!Overwrite
<1>1. session[s] \in Rb!Actor(Rb!SessionSteps) /\ PastKept
  BY <1>0, PastSame DEF Rb!TypeOK
<1>2. /\ a \in Rb!Actor(Rb!SessionSteps) /\ a.of = t /\ a.rec = session[s].rec
      /\ a.cmd = session[s].cmd
      /\ a.rec = 0 => a.pc = "sync" /\ a.next = "idle"
      /\ a.rec # 0 => a.pc = "recovery_queued" /\ a.next = session[s].next
      /\ t = Rb!Proposal => a.rec = 0
  <2>1. /\ "sync" \in Rb!SessionSteps /\ "idle" \in Rb!SessionSteps
        /\ "recovery_queued" \in Rb!SessionSteps
    BY DEF Rb!SessionSteps
  <2>2. t = Rb!Proposal => session[s].rec = 0
    BY TargetsDiffer DEF Rb!SessionInv, Rb!CarryChild, Rb!TypeOK
  <2> QED BY <1>1, <2>1, <2>2, SyncIs DEF Rb!Actor
<1>3. t = Rb!Proposal \/ Rb!CarryChild(t)
  BY <1>0 DEF Rb!SessionInv
<1> HIDE DEF a
<1>4. Handler(s, a)
  BY <1>0, <1>2, BundleHandlerMoves
<1>5. /\ DOMAIN child' = DOMAIN child /\ \A j \in DOMAIN child : child'[j] \in Rb!Row
      /\ \A j \in DOMAIN child : j # t => child'[j] = child[j]
      /\ t # Rb!Proposal => /\ child'[t].status = "queued" /\ child'[t].progress = child[t].progress
                            /\ child'[t].executions = child[t].executions
  <2>1. CASE t = Rb!Proposal
    BY <1>0, <2>1 DEF Rb!TypeOK
  <2>2. CASE t # Rb!Proposal
    <3>1. t \in DOMAIN child /\ "queued" \in Rb!ActionStatuses /\ Rb!SetChild(t, "queued")
      BY <1>0, <1>3, <2>2 DEF Rb!CarryChild, Rb!ActionStatuses
    <3> QED BY <3>1, ChildWritten
  <2> QED BY <2>1, <2>2
<1>6. Rb!TypeOK'
  BY <1>0, <1>1, <1>4, <1>5 DEF Rb!TypeOK, Handler, PastKept
<1>7. ChildrenKept
  BY <1>3, <1>5, TargetsDiffer DEF ChildrenKept, Rb!CarryChild, Rb!TypeOK
<1>8. TablesInv' /\ RequestsKept'
  BY <1>0, <1>1, <1>7, RowsKept, RecoveryKept
<1>9. Rb!SessionInv'
  BY <1>0, <1>2, <1>3, <1>4, <1>5 DEF Rb!SessionInv, Rb!CarryChild, Rb!Requeueing, Handler
<1>10. Rb!RowInv'
  BY <1>2, <1>4 DEF Rb!RowInv, Handler
<1>11. Rb!ProposalInv'
  <2>1. /\ Rb!CommandsOf(Rb!Proposal)' = Rb!CommandsOf(Rb!Proposal)
        /\ Rb!Waiting(Rb!Proposal)' = Rb!Waiting(Rb!Proposal)
    BY <1>0 DEF Rb!CommandsOf, Rb!Waiting
  <2>2. CASE t # Rb!Proposal
    BY <1>0, <1>2, <1>4, <2>1, <2>2, ProposalKept DEF Handler
  <2>3. CASE t = Rb!Proposal
    BY <1>0, <1>2, <1>4, <2>1, <2>3 DEF Rb!ProposalInv, Rb!WorkerIs, Rb!AboutToInsert, Handler
  <2> QED BY <2>2, <2>3
<1>12. Rb!ChildInv'
  <2> SUFFICES ASSUME NEW k \in DOMAIN child, k[1] = "carry" PROVE Rb!CarryInv(k)'
    BY <1>5 DEF Rb!ChildInv
  <2>1. k # Rb!Proposal
    BY TargetsDiffer DEF Rb!TypeOK
  <2>2. CASE k # t
    BY <1>0, <1>1, <1>2, <1>4, <1>5, <2>2, OthersKept
  <2>3. CASE k = t
    <3> DEFINE n == session[s].cmd
    <3>1. Rb!CommandsOf(k)' = Rb!CommandsOf(k) /\ Rb!Waiting(k)' = Rb!Waiting(k)
      BY <1>0 DEF Rb!CommandsOf, Rb!Waiting
    <3>2. n \in Rb!Waiting(k) \/ (n \in past.overtaken /\ command[n].of = k)
      BY <1>0, <2>3 DEF Rb!SessionInv, Rb!CommandsOf, Rb!Waiting
    <3>3. ASSUME k \notin past.contested PROVE Rb!UncontestedInv(k)'
      <4>1. Rb!UncontestedInv(k)
        BY <3>3 DEF Rb!ChildInv, Rb!CarryInv
      <4>2. worker.pc # "idle" /\ worker.of = k => worker.cmd \notin Rb!Waiting(k)
        BY WorkerHolds
      <4> QED
        BY <1>0, <1>2, <1>4, <1>5, <2>1, <2>3, <3>1, <4>1, <4>2
        DEF Rb!UncontestedInv, Rb!Early, Rb!WorkerIs, Rb!Armed, Rb!ChildSteps, Handler
    <3>4. ASSUME k \notin past.contested \cup past.unrecorded PROVE Rb!ReachedInv(k)'
      <4>1. Rb!ReachedInv(k) /\ Rb!UncontestedInv(k)
        BY <3>4 DEF Rb!ChildInv, Rb!CarryInv
      <4> QED
        BY <1>0, <1>2, <1>4, <1>5, <2>1, <2>3, <3>1, <4>1
        DEF Rb!ReachedInv, Rb!UncontestedInv, Rb!Early, Rb!WorkerIs, Rb!Armed, Handler
    <3> QED BY <1>0, <3>1, <3>2, <3>3, <3>4 DEF Rb!CarryInv, Rb!Excused
  <2> QED BY <2>2, <2>3
<1> QED BY <1>6, <1>8, <1>9, <1>10, <1>11, <1>12 DEF TablesInv, RequestsKept

(* The rejection is written. *)
LEMMA RejectionWritten ==
  ASSUME Rb!BundleInv, NEW s \in BundleSessions, Rb!RejectWrite(s)
  PROVE  Rb!BundleInv'
<1> USE DEF Rb!BundleInv
<1> DEFINE a == Rb!Synced(session[s], "idle")
<1>0. /\ UNCHANGED <<runs, child, bundle, recovery, command, worker, requests>>
      /\ session[s].pc = "reject" /\ session' = [session EXCEPT ![s] = a]
      /\ proposal' = "rejected"
  BY DEF Rb!RejectWrite
<1>1. session[s] \in Rb!Actor(Rb!SessionSteps) /\ session[s].of = Rb!Proposal
  BY <1>0 DEF Rb!TypeOK, Rb!SessionInv
<1>2. PastKept /\ UNCHANGED past.contested
  <2>1. past \in Rb!History /\ past' = [past EXCEPT !.rejected = TRUE]
    BY DEF Rb!RejectWrite, Rb!TypeOK
  <2>2. /\ past' \in Rb!History
        /\ UNCHANGED <<past.overtaken, past.unrecorded, past.reached, past.twice, past.contested,
                       past.thrown, past.died>>
    BY <2>1 DEF Rb!History
  <2> QED BY <2>2 DEF Rb!HistoryInv, Rb!Excused, PastKept
<1>3. /\ a \in Rb!Actor(Rb!SessionSteps) /\ a.pc = "sync" /\ a.next = "idle"
      /\ a.of = Rb!Proposal /\ a.rec = session[s].rec
  <2>1. "sync" \in Rb!SessionSteps /\ "idle" \in Rb!SessionSteps
    BY DEF Rb!SessionSteps
  <2> QED BY <1>1, <2>1, SyncIs
<1> HIDE DEF a
<1>4. Handler(s, a)
  BY <1>0, <1>3, BundleHandlerMoves
<1>5. Rb!TypeOK'
  BY <1>0, <1>2, <1>4 DEF Rb!TypeOK, Handler, PastKept
<1>6. TablesInv' /\ RequestsKept'
  BY <1>0, <1>2, TablesKept, RecoveryKept
<1>7. Rb!SessionInv'
  BY <1>0, <1>1, <1>2, <1>3, <1>4 DEF Rb!SessionInv, Rb!CarryChild, Rb!Requeueing, Handler, PastKept
<1>8. Rb!RowInv'
  BY <1>3, <1>4 DEF Rb!RowInv, Handler
<1>9. Rb!ProposalInv'
  <2>1. /\ Rb!CommandsOf(Rb!Proposal)' = Rb!CommandsOf(Rb!Proposal)
        /\ Rb!Waiting(Rb!Proposal)' = Rb!Waiting(Rb!Proposal)
    BY <1>0 DEF Rb!CommandsOf, Rb!Waiting
  <2> QED
    BY <1>0, <1>1, <1>2, <1>3, <1>4, <2>1 DEF Rb!ProposalInv, Rb!WorkerIs, Rb!AboutToInsert, Handler
<1>10. Rb!ChildInv'
  BY <1>0, <1>2, <1>3, <1>4, OthersKept, TargetsDiffer DEF Rb!ChildInv, Rb!TypeOK
<1> QED BY <1>5, <1>6, <1>7, <1>8, <1>9, <1>10 DEF TablesInv, RequestsKept

(* The command of an approval or a recovery is inserted. *)
LEMMA CommandInserted ==
  ASSUME Rb!BundleInv, NEW s \in BundleSessions, Rb!InsertCommand(s)
  PROVE  Rb!BundleInv'
<1> USE DEF Rb!BundleInv
<1> DEFINE t == session[s].of
           e == [of |-> t, rec |-> session[s].rec, status |-> "pending"]
           n == Len(command) + 1
           a == [session[s] EXCEPT !.pc = "queue", !.cmd = n]
<1>0. /\ UNCHANGED <<proposal, runs, child, bundle, recovery, worker, requests, past>>
      /\ session[s].pc = "insert" /\ command' = Append(command, e)
      /\ session' = [session EXCEPT ![s] = a]
  BY DEF Rb!InsertCommand
<1>1. t = Rb!Proposal \/ Rb!CarryChild(t)
  BY <1>0 DEF Rb!SessionInv
<1>2. t \in Rb!Targets /\ session[s] \in Rb!Actor(Rb!SessionSteps) /\ PastKept
  BY <1>0, <1>1, TargetsDiffer, PastSame DEF Rb!TypeOK, Rb!CarryChild
<1>3. e \in Rb!Command /\ command \in Seq(Rb!Command)
  BY <1>2 DEF Rb!Command, Rb!Actor, Rb!TypeOK
<1>4. e.of = t /\ e.rec = session[s].rec /\ e.status = "pending"
  OBVIOUS
<1>5. n \in Nat /\ n # 0 /\ n = Len(command')
  BY <1>0, <1>3
<1>6. /\ a \in Rb!Actor(Rb!SessionSteps) /\ a.pc = "queue" /\ a.cmd = n /\ a.of = t
      /\ a.rec = session[s].rec /\ a.next = session[s].next
  BY <1>2, <1>5 DEF Rb!Actor, Rb!SessionSteps
<1> HIDE DEF e, a, n
<1>7. command' \in Seq(Rb!Command) /\ Extended(command, command', e)
  BY <1>0, <1>3, ExtendedTable
<1>8. /\ DOMAIN command' = DOMAIN command \cup {n} /\ n \notin DOMAIN command
      /\ command'[n] = e /\ \A c \in DOMAIN command : command'[c] = command[c]
  BY <1>5, <1>7 DEF Extended
<1>9. Handler(s, a)
  BY <1>0, <1>6, BundleHandlerMoves
<1>10. Rb!TypeOK'
  BY <1>0, <1>7, <1>9 DEF Rb!TypeOK, Handler
<1>11. session[s].rec # 0 => \A c \in DOMAIN command : command[c].rec # session[s].rec
  BY <1>0 DEF Rb!SessionInv
<1>12. t = Rb!Proposal => session[s].rec = 0
  BY TargetsDiffer DEF Rb!SessionInv, Rb!CarryChild, Rb!TypeOK
<1>13. TablesInv'
  <2>1. Rb!CommandInv'
    BY <1>0, <1>1, <1>4, <1>8, <1>11, <1>12 DEF Rb!CommandInv, Rb!CarryChild, Rb!SessionInv
  <2>2. Rb!WorkerInv'
    BY <1>0, <1>8 DEF Rb!WorkerInv, Rb!AboutToCreate, Rb!CarryChild
  <2>3. Rb!HistoryInv' /\ Rb!BudgetInv' /\ Rb!ChildAppliedOnce'
    BY <1>0, <1>8 DEF Rb!HistoryInv, Rb!Excused, Rb!BudgetInv, Rb!ChildAppliedOnce
  <2> QED BY <2>1, <2>2, <2>3 DEF TablesInv
<1>14. RequestsKept'
  BY <1>0, <1>4, <1>8
  DEF RequestsKept, Rb!BudgetNeverRequeued, Rb!RecoveryFollowsCommand
<1>15. Rb!SessionInv'
  BY <1>0, <1>1, <1>4, <1>6, <1>8, <1>9, <1>11
  DEF Rb!SessionInv, Rb!CarryChild, Rb!Requeueing, Handler
<1>16. Rb!RowInv'
  BY <1>0, <1>6, <1>9 DEF Rb!RowInv, Handler
<1>17. ASSUME NEW x
       PROVE  /\ Rb!CommandsOf(x)' = IF x = t THEN Rb!CommandsOf(x) \cup {n} ELSE Rb!CommandsOf(x)
              /\ Rb!Waiting(x)' = IF x = t THEN Rb!Waiting(x) \cup {n} ELSE Rb!Waiting(x)
  BY <1>4, <1>8 DEF Rb!CommandsOf, Rb!Waiting
<1>18. Rb!ProposalInv'
  <2>1. CASE t # Rb!Proposal
    BY <1>0, <1>6, <1>9, <1>17, <2>1, ProposalKept DEF Handler
  <2>2. CASE t = Rb!Proposal
    BY <1>0, <1>6, <1>9, <1>17, <2>2 DEF Rb!ProposalInv, Rb!WorkerIs, Rb!AboutToInsert, Handler
  <2> QED BY <2>1, <2>2
<1>19. Rb!ChildInv'
  <2> SUFFICES ASSUME NEW k \in DOMAIN child, k[1] = "carry" PROVE Rb!CarryInv(k)'
    BY <1>0 DEF Rb!ChildInv
  <2>1. Rb!Excused \subseteq DOMAIN command /\ Rb!Excused' = Rb!Excused /\ SameTask
    BY <1>0 DEF Rb!HistoryInv, Rb!Excused, SameTask
  <2>2. CASE k # t
    BY <1>0, <1>6, <1>8, <1>9, <1>17, <2>1, <2>2, CarryKept DEF Handler
  <2>3. CASE k = t
    <3>1. ASSUME k \notin past.contested
          PROVE  Rb!UncontestedInv(k) /\ Rb!UncontestedInv(k)' /\ Rb!Early(session[s], k)
      <4>1. Rb!UncontestedInv(k) /\ Rb!Early(session[s], k)
        BY <1>0, <2>3, <3>1 DEF Rb!ChildInv, Rb!CarryInv, Rb!Early
      <4>2. child[k].status # "recommended" /\ ~Rb!WorkerIs(k, {"mark_child", "checks"})
            /\ (Rb!Armed(k) => Rb!Waiting(k) = {} /\ ~Rb!WorkerIs(k, {"begin", "start"}))
            /\ child[k].status \in {"approved", "failed"}
        BY <1>0, <2>3, <4>1 DEF Rb!UncontestedInv
      <4> QED
        BY <1>0, <1>6, <1>9, <1>17, <2>3, <4>1, <4>2
        DEF Rb!UncontestedInv, Rb!Early, Rb!WorkerIs, Rb!Armed, Handler
    <3>2. k \notin past.contested \cup past.unrecorded => Rb!ReachedInv(k)'
      BY <1>0, <3>1 DEF Rb!ChildInv, Rb!CarryInv, Rb!ReachedInv
    <3> QED BY <1>0, <1>8, <1>17, <2>3, <3>1, <3>2 DEF Rb!CarryInv, Rb!WorkerIs
  <2> QED BY <2>2, <2>3
<1> QED BY <1>10, <1>13, <1>14, <1>15, <1>16, <1>18, <1>19 DEF TablesInv, RequestsKept

-----------------------------------------------------------------------------
(***************************************************************************)
(* The worker moves.                                                       *)
(***************************************************************************)
(* The worker goes to another step and holds what it held. *)
LEMMA WorkerMoves ==
  ASSUME Rb!TypeOK, NEW pc \in Rb!WorkerSteps, Rb!WorkerAt(pc)
  PROVE  /\ worker' \in Rb!Actor(Rb!WorkerSteps) /\ worker'.pc = pc /\ worker'.of = worker.of
         /\ worker'.next = worker.next /\ worker'.cmd = worker.cmd /\ worker'.rec = worker.rec
         /\ worker'.i = worker.i
BY DEF Rb!WorkerAt, Rb!TypeOK, Rb!Actor

(* A step of the worker that ends with a sync keeps what the worker holds. *)
LEMMA WorkerSyncs ==
  ASSUME Rb!TypeOK, NEW next \in Rb!WorkerSteps, worker' = Rb!Synced(worker, next)
  PROVE  /\ worker' \in Rb!Actor(Rb!WorkerSteps) /\ worker'.pc = "sync" /\ worker'.of = worker.of
         /\ worker'.next = next /\ worker'.cmd = worker.cmd /\ worker'.rec = worker.rec
         /\ worker'.i = worker.i
<1>1. "sync" \in Rb!WorkerSteps /\ worker \in Rb!Actor(Rb!WorkerSteps)
  BY DEF Rb!WorkerSteps, Rb!TypeOK
<1> QED BY <1>1, SyncIs

(* The handlers of the API do not notice. *)
LEMMA SessionsKept ==
  ASSUME Rb!BundleInv, UNCHANGED session, RecoveryGrows, DOMAIN child \subseteq DOMAIN child',
         DOMAIN command' = DOMAIN command,
         \A c \in DOMAIN command : /\ command'[c].of = command[c].of
                                   /\ command'[c].rec = command[c].rec,
         \A s \in BundleSessions : session[s].pc \in {"queue", "recovery_queued"} =>
           command'[session[s].cmd].status = "pending" \/ session[s].cmd \in past'.overtaken
  PROVE  Rb!SessionInv'
<1>1. Rb!SessionInv
  BY DEF Rb!BundleInv
<1> QED BY <1>1 DEF Rb!SessionInv, Rb!CarryChild, Rb!Requeueing, RecoveryGrows

(* The handlers where neither rows nor commands they hold change. *)
LEMMA SessionsUnmoved ==
  ASSUME Rb!BundleInv, UNCHANGED <<session, recovery, command>>,
         DOMAIN child \subseteq DOMAIN child',
         past.overtaken \subseteq past'.overtaken
  PROVE  Rb!SessionInv'
<1>1. RecoveryGrows
  BY DEF RecoveryGrows
<1>2. \A s \in BundleSessions : session[s].pc \in {"queue", "recovery_queued"} =>
        command'[session[s].cmd].status = "pending" \/ session[s].cmd \in past'.overtaken
  BY DEF Rb!BundleInv, Rb!SessionInv
<1> QED BY <1>1, <1>2, SessionsKept

(* Only the worker moves, and not towards an execution. *)
LEMMA WorkerOnly ==
  ASSUME Rb!BundleInv, UNCHANGED <<proposal, runs, child, recovery, command, session, requests>>,
         PastKept, UNCHANGED past.rejected, bundle' \in Rb!View,
         worker' \in Rb!Actor(Rb!WorkerSteps), Rb!WorkerInv', Rb!RowInv',
         worker'.pc \notin {"begin", "start", "budget"} \cup Rb!ChildSteps,
         worker'.cmd = worker.cmd \/ worker.cmd \in past'.died,
         worker.pc \in {"begin", "start", "mark_child"} =>
           \/ worker.of = Rb!Proposal \/ child[worker.of].status # "queued"
           \/ worker.cmd \in past'.thrown \cup past'.died
  PROVE  Rb!BundleInv'
<1> USE DEF Rb!BundleInv
<1>1. Rb!TypeOK'
  BY DEF Rb!TypeOK, PastKept
<1>2. Rb!SessionInv'
  BY SessionsUnmoved DEF PastKept
<1>3. Rb!CommandInv' /\ Rb!HistoryInv' /\ Rb!BudgetInv' /\ Rb!ChildAppliedOnce'
  BY DEF Rb!CommandInv, Rb!HistoryInv, Rb!Excused, Rb!BudgetInv, Rb!ChildAppliedOnce, PastKept,
         Rb!CarryChild
<1>4. RequestsKept'
  BY RecoveryKept
<1>5. ASSUME NEW x PROVE Rb!CommandsOf(x)' = Rb!CommandsOf(x) /\ Rb!Waiting(x)' = Rb!Waiting(x)
  BY DEF Rb!CommandsOf, Rb!Waiting
<1>6. Rb!ProposalInv'
  BY <1>5, ProposalKept DEF PastKept
<1>7. Rb!ChildInv'
  <2> SUFFICES ASSUME NEW k \in DOMAIN child, k[1] = "carry" PROVE Rb!CarryInv(k)'
    BY DEF Rb!ChildInv
  <2>1. ~Rb!WorkerIs(k, {"begin", "start"} \cup Rb!ChildSteps)'
    BY DEF Rb!WorkerIs
  <2>2. k # Rb!Proposal /\ \A c \in Rb!Excused : c \in Rb!Excused'
    BY TargetsDiffer DEF Rb!TypeOK, PastKept, Rb!Excused
  <2>3. ASSUME Rb!WorkerIs(k, {"begin", "start", "mark_child"}), child[k].status = "queued"
        PROVE  \E c \in Rb!Excused' : command'[c].of = k
    <3>1. worker.cmd \in Rb!Excused' /\ command[worker.cmd].of = k
      BY <2>2, <2>3 DEF Rb!WorkerIs, Rb!WorkerInv, Rb!Excused
    <3> QED BY <3>1
  <2> QED BY <1>5, <2>1, <2>2, <2>3, CarryKept DEF PastKept
<1> QED BY <1>1, <1>2, <1>3, <1>4, <1>6, <1>7 DEF RequestsKept

(* A command whose target is neither queued nor approved fails. *)
LEMMA NotExecuted ==
  ASSUME Rb!BundleInv, Rb!NotExecutable
  PROVE  Rb!BundleInv'
<1>0. /\ worker.pc = "start" /\ ~Rb!Executable /\ Rb!WorkerAt("fail_command")
      /\ UNCHANGED <<proposal, runs, child, bundle, recovery, command, session, requests, past>>
  BY DEF Rb!NotExecutable
<1>1. /\ worker' \in Rb!Actor(Rb!WorkerSteps) /\ worker'.pc = "fail_command"
      /\ worker'.of = worker.of
      /\ worker'.next = worker.next /\ worker'.cmd = worker.cmd /\ worker'.rec = worker.rec
  <2>1. "fail_command" \in Rb!WorkerSteps
    BY DEF Rb!WorkerSteps
  <2> QED BY <1>0, <2>1, WorkerMoves DEF Rb!BundleInv
<1>2. Rb!WorkerInv'
  BY <1>0, <1>1
  DEF Rb!BundleInv, Rb!WorkerInv, Rb!AboutToCreate, Rb!CarryChild, Rb!ProposalSteps, Rb!ChildSteps,
      Rb!StatusAt
<1>3. Rb!RowInv'
  BY <1>0, <1>1 DEF Rb!BundleInv, Rb!RowInv
<1>4. worker.of = Rb!Proposal \/ child[worker.of].status # "queued"
  BY <1>0 DEF Rb!Executable, Rb!StatusOf
<1>5. PastKept /\ bundle' \in Rb!View /\ worker'.pc \notin {"begin", "start", "budget"} \cup Rb!ChildSteps
  BY <1>0, <1>1, PastSame DEF Rb!BundleInv, Rb!TypeOK, Rb!ChildSteps
<1> QED BY <1>0, <1>1, <1>2, <1>3, <1>4, <1>5, WorkerOnly

(* A proposal without a treasury part. *)
LEMMA BudgetSkipped ==
  ASSUME Rb!BundleInv, Rb!NoBudget
  PROVE  Rb!BundleInv'
<1>0. /\ worker.pc = "create_budget" /\ Rb!WorkerAt("complete_proposal")
      /\ UNCHANGED <<proposal, runs, child, bundle, recovery, command, session, requests, past>>
  BY DEF Rb!NoBudget
<1>1. /\ worker' \in Rb!Actor(Rb!WorkerSteps) /\ worker'.pc = "complete_proposal"
      /\ worker'.of = worker.of
      /\ worker'.next = worker.next /\ worker'.cmd = worker.cmd /\ worker'.rec = worker.rec
  <2>1. "complete_proposal" \in Rb!WorkerSteps
    BY DEF Rb!WorkerSteps
  <2> QED BY <1>0, <2>1, WorkerMoves DEF Rb!BundleInv
<1>2. Rb!WorkerInv'
  BY <1>0, <1>1
  DEF Rb!BundleInv, Rb!WorkerInv, Rb!AboutToCreate, Rb!CarryChild, Rb!ProposalSteps, Rb!ChildSteps,
      Rb!StatusAt
<1>3. Rb!RowInv'
  BY <1>0, <1>1 DEF Rb!BundleInv, Rb!RowInv
<1>4. PastKept /\ bundle' \in Rb!View /\ worker'.pc \notin {"begin", "start", "budget"} \cup Rb!ChildSteps
  BY <1>0, <1>1, PastSame DEF Rb!BundleInv, Rb!TypeOK, Rb!ChildSteps
<1> QED BY <1>0, <1>1, <1>2, <1>3, <1>4, WorkerOnly

(* The worker writes the bundle row it has derived. *)
LEMMA WorkerSynced ==
  ASSUME Rb!BundleInv, Rb!WorkerSync
  PROVE  Rb!BundleInv'
<1> USE DEF Rb!BundleInv
<1>0. /\ worker.pc = "sync" /\ bundle' = worker.snap
      /\ UNCHANGED <<proposal, runs, child, recovery, command, session, requests>>
      /\ worker' = [worker EXCEPT !.pc = worker.next, !.snap = Rb!NoView, !.next = "none"]
  BY DEF Rb!WorkerSync, Rb!SyncRow
<1>1. worker \in Rb!Actor(Rb!WorkerSteps) /\ past \in Rb!History
  BY DEF Rb!TypeOK
<1>2. /\ PastKept /\ UNCHANGED past.rejected
      /\ past'.lost = {} => bundle' = Rb!Snapshot(proposal, child)
  BY <1>1 DEF Rb!WorkerSync, Rb!SyncRow, PastKept, Rb!History, Rb!HistoryInv, Rb!Excused
<1>3. worker.next \in {"create_carry", "finish", "fail_command"}
  BY <1>0 DEF Rb!WorkerInv
<1>4. /\ worker' \in Rb!Actor(Rb!WorkerSteps) /\ worker'.pc = worker.next /\ worker'.of = worker.of
      /\ worker'.next = "none" /\ worker'.cmd = worker.cmd /\ worker'.rec = worker.rec
  BY <1>0, <1>1, <1>3, IdleIs DEF Rb!Actor, Rb!WorkerSteps
<1>5. Rb!WorkerInv'
  BY <1>0, <1>3, <1>4
  DEF Rb!WorkerInv, Rb!AboutToCreate, Rb!CarryChild, Rb!ProposalSteps, Rb!ChildSteps,
      Rb!StatusAt
<1>6. Rb!RowInv'
  BY <1>0, <1>2 DEF Rb!RowInv
<1>7. bundle' \in Rb!View /\ worker'.pc \notin {"begin", "start", "budget"} \cup Rb!ChildSteps
  BY <1>0, <1>1, <1>3, <1>4 DEF Rb!Actor, Rb!ChildSteps
<1> QED BY <1>0, <1>2, <1>4, <1>5, <1>6, <1>7, WorkerOnly

(* A fault of the worker is recorded in the history. *)
LEMMA FaultMade ==
  ASSUME Rb!BundleInv, past.thrown \subseteq past'.thrown, past.died \subseteq past'.died,
         past'.thrown \cup past'.died \subseteq DOMAIN command,
         past' = [past EXCEPT !.faults = past.faults + 1, !.lost = past.lost \cup {"fault"},
                              !.thrown = past'.thrown, !.died = past'.died]
  PROVE  PastKept /\ UNCHANGED past.rejected /\ past'.lost # {}
<1> DEFINE n == past.faults + 1
           l == past.lost \cup {"fault"}
           t == past'.thrown
           d == past'.died
<1>1. past \in Rb!History /\ t \in SUBSET Nat /\ d \in SUBSET Nat
  BY DEF Rb!BundleInv, Rb!TypeOK
<1>2. n \in Nat /\ l \in SUBSET {"late_write", "guardrail", "fault"} /\ l # {}
  BY <1>1 DEF Rb!History
<1>3. past' = [past EXCEPT !.faults = n, !.lost = l, !.thrown = t, !.died = d]
  OBVIOUS
<1>4. past.contested \subseteq {Rb!Proposal} \cup DOMAIN child
  BY DEF Rb!BundleInv, Rb!HistoryInv
<1> HIDE DEF n, l, t, d
<1>5. /\ past' \in Rb!History /\ past'.lost = l
      /\ UNCHANGED <<past.overtaken, past.unrecorded, past.reached, past.twice,
                     past.rejected, past.contested>>
  BY <1>1, <1>2, <1>3 DEF Rb!History
<1> QED BY <1>2, <1>4, <1>5 DEF PastKept

(* An exception outside every try block. *)
LEMMA Abandoned ==
  ASSUME Rb!BundleInv, Rb!Abandon
  PROVE  Rb!BundleInv'
<1> DEFINE thrown == past.thrown \cup {worker.cmd}
<1>0. /\ worker.pc \notin {"idle", "begin", "fail_command", "recovery_failed"}
      /\ Rb!WorkerAt("fail_command")
      /\ UNCHANGED <<proposal, runs, child, bundle, recovery, command, session, requests>>
      /\ past' = [past EXCEPT !.faults = past.faults + 1, !.lost = past.lost \cup {"fault"},
                              !.thrown = past'.thrown, !.died = past'.died]
      /\ past'.thrown = thrown /\ past'.died = past.died
  <2>1. past \in Rb!History
    BY DEF Rb!BundleInv, Rb!TypeOK
  <2> QED BY <2>1 DEF Rb!Abandon, Rb!History
<1>1. /\ worker' \in Rb!Actor(Rb!WorkerSteps) /\ worker'.pc = "fail_command"
      /\ worker'.of = worker.of
      /\ worker'.next = worker.next /\ worker'.cmd = worker.cmd /\ worker'.rec = worker.rec
  <2>1. "fail_command" \in Rb!WorkerSteps
    BY DEF Rb!WorkerSteps
  <2> QED BY <1>0, <2>1, WorkerMoves DEF Rb!BundleInv
<1>2. Rb!WorkerInv'
  BY <1>0, <1>1
  DEF Rb!BundleInv, Rb!WorkerInv, Rb!AboutToCreate, Rb!CarryChild, Rb!ProposalSteps, Rb!ChildSteps,
      Rb!StatusAt
<1>3. PastKept /\ UNCHANGED past.rejected /\ past'.lost # {} /\ past'.thrown = thrown
  <2>1. worker.cmd \in DOMAIN command /\ past.thrown \cup past.died \subseteq DOMAIN command
    BY <1>0 DEF Rb!BundleInv, Rb!WorkerInv, Rb!HistoryInv, Rb!Excused
  <2>2. /\ past.thrown \subseteq past'.thrown /\ past.died \subseteq past'.died
        /\ past'.thrown \cup past'.died \subseteq DOMAIN command
    BY <1>0, <2>1
  <2> QED BY <1>0, <2>2, FaultMade
<1>4. Rb!RowInv'
  BY <1>3 DEF Rb!RowInv
<1>5. bundle' \in Rb!View /\ worker'.pc \notin {"begin", "start", "budget"} \cup Rb!ChildSteps
  BY <1>0, <1>1 DEF Rb!BundleInv, Rb!TypeOK, Rb!ChildSteps
<1> QED BY <1>0, <1>1, <1>2, <1>3, <1>4, <1>5, WorkerOnly

(* The process dies. *)
LEMMA Crashed ==
  ASSUME Rb!BundleInv, Rb!Crash
  PROVE  Rb!BundleInv'
<1> DEFINE died == past.died \cup {worker.cmd}
<1>0. /\ worker' = Rb!IdleActor /\ worker.pc # "idle"
      /\ UNCHANGED <<proposal, runs, child, bundle, recovery, command, session, requests>>
      /\ past' = [past EXCEPT !.faults = past.faults + 1, !.lost = past.lost \cup {"fault"},
                              !.thrown = past'.thrown, !.died = past'.died]
      /\ past'.thrown = past.thrown /\ past'.died = died
  <2>1. past \in Rb!History
    BY DEF Rb!BundleInv, Rb!TypeOK
  <2> QED BY <2>1 DEF Rb!Crash, Rb!History
<1>1. Rb!WorkerInv'
  BY <1>0, IdleIs
  DEF Rb!BundleInv, Rb!WorkerInv, Rb!AboutToCreate, Rb!CarryChild, Rb!ProposalSteps, Rb!ChildSteps,
      Rb!StatusAt
<1>2. PastKept /\ UNCHANGED past.rejected /\ past'.lost # {} /\ past'.died = died
  <2>1. worker.cmd \in DOMAIN command /\ past.thrown \cup past.died \subseteq DOMAIN command
    BY <1>0 DEF Rb!BundleInv, Rb!WorkerInv, Rb!HistoryInv, Rb!Excused
  <2>2. /\ past.thrown \subseteq past'.thrown /\ past.died \subseteq past'.died
        /\ past'.thrown \cup past'.died \subseteq DOMAIN command
    BY <1>0, <2>1
  <2> QED BY <1>0, <2>2, FaultMade
<1>3. Rb!RowInv'
  BY <1>2 DEF Rb!RowInv
<1>4. bundle' \in Rb!View /\ worker'.pc \notin {"begin", "start", "budget"} \cup Rb!ChildSteps
  BY <1>0, IdleIs DEF Rb!BundleInv, Rb!TypeOK, Rb!ChildSteps
<1> QED BY <1>0, <1>1, <1>2, <1>3, <1>4, IdleIs, WorkerOnly

-----------------------------------------------------------------------------
(***************************************************************************)
(* The worker takes a command and ends it.                                 *)
(***************************************************************************)
(* The status of one command is written. *)
LEMMA CommandMarked ==
  ASSUME Rb!TypeOK, NEW c \in DOMAIN command, NEW st \in {"running", "completed", "failed"},
         command' = [command EXCEPT ![c].status = st]
  PROVE  /\ command' \in Seq(Rb!Command) /\ DOMAIN command' = DOMAIN command
         /\ \A d \in DOMAIN command : /\ command'[d].of = command[d].of
                                      /\ command'[d].rec = command[d].rec
                                      /\ d # c => command'[d] = command[d]
         /\ command'[c].status = st
<1> DEFINE e == [command[c] EXCEPT !.status = st]
<1>1. command \in Seq(Rb!Command) /\ command[c] \in Rb!Command
  BY DEF Rb!TypeOK
<1>2. /\ e \in Rb!Command /\ e.of = command[c].of /\ e.rec = command[c].rec /\ e.status = st
      /\ command' = [command EXCEPT ![c] = e]
  BY <1>1 DEF Rb!Command
<1> HIDE DEF e
<1>3. command' \in Seq(Rb!Command) /\ Updated(command, command', c, e)
  BY <1>1, <1>2, UpdatedTable
<1> QED BY <1>2, <1>3 DEF Updated

(* The recovery row of a command follows it. *)
LEMMA RecoveryFollows ==
  ASSUME Rb!BundleInv, NEW c \in DOMAIN command, NEW st \in {"executing", "completed", "failed"},
         Rb!SetRecovery(command[c].rec, st)
  PROVE  /\ recovery' \in Seq(Rb!Recovery) /\ RecoveryGrows /\ Rb!BudgetNeverRequeued'
         /\ command[c].rec # 0 => recovery'[command[c].rec].status = st
         /\ \A x \in DOMAIN recovery : x # command[c].rec => recovery'[x] = recovery[x]
<1> DEFINE r == command[c].rec
<1>1. CASE r = 0
  BY <1>1 DEF Rb!SetRecovery, Rb!BundleInv, Rb!TypeOK, RecoveryGrows, Rb!BudgetNeverRequeued
<1>2. CASE r # 0
  <2>1. r \in DOMAIN recovery /\ recovery[r].of[1] # "budget"
    BY <1>2 DEF Rb!BundleInv, Rb!CommandInv, Rb!CarryChild
  <2>2. recovery' = [recovery EXCEPT ![r].status = st]
    BY <1>2 DEF Rb!SetRecovery
  <2> HIDE DEF r
  <2>3. /\ recovery' \in Seq(Rb!Recovery) /\ RecoveryGrows /\ Rb!BudgetNeverRequeued'
        /\ recovery'[r].status = st
        /\ \A x \in DOMAIN recovery : x # r => recovery'[x] = recovery[x]
    BY <2>1, <2>2, RecoveryMarked
  <2> QED BY <2>3 DEF r
<1> QED BY <1>1, <1>2

(* The worker takes the oldest pending command. *)
LEMMA CommandTaken ==
  ASSUME Rb!BundleInv, NEW c \in DOMAIN command, Rb!TakeCommand(c)
  PROVE  Rb!BundleInv'
<1> USE DEF Rb!BundleInv
<1> DEFINE t == command[c].of
           r == command[c].rec
<1>0. /\ worker.pc = "idle" /\ command[c].status = "pending"
      /\ command' = [command EXCEPT ![c].status = "running"]
      /\ worker' = [Rb!IdleActor EXCEPT !.pc = "begin", !.of = t, !.cmd = c, !.rec = r]
      /\ past' = [past EXCEPT !.overtaken = IF Rb!MarkedQueued(c) THEN past.overtaken
                                            ELSE past.overtaken \cup {c}]
      /\ UNCHANGED <<proposal, runs, child, bundle, recovery, session, requests>>
  BY DEF Rb!TakeCommand
<1>1. /\ command' \in Seq(Rb!Command) /\ DOMAIN command' = DOMAIN command
      /\ \A d \in DOMAIN command : /\ command'[d].of = command[d].of
                                   /\ command'[d].rec = command[d].rec
                                   /\ d # c => command'[d] = command[d]
      /\ command'[c].status = "running"
  BY <1>0, CommandMarked
<1>2. RecoveryGrows /\ Rb!BudgetNeverRequeued'
  BY <1>0 DEF RecoveryGrows, Rb!BudgetNeverRequeued
<1>3. c \in Nat /\ command[c] \in Rb!Command
  BY DEF Rb!TypeOK
<1>4. /\ worker' \in Rb!Actor(Rb!WorkerSteps) /\ worker'.pc = "begin" /\ worker'.of = t
      /\ worker'.cmd = c /\ worker'.rec = r /\ worker'.next = "none"
  BY <1>0, <1>3, IdleIs DEF Rb!Actor, Rb!WorkerSteps, Rb!Command
<1>5. /\ past' \in Rb!History
      /\ UNCHANGED <<past.contested, past.unrecorded, past.reached, past.twice, past.lost,
                     past.rejected, past.thrown, past.died>>
      /\ past.overtaken \subseteq past'.overtaken /\ past'.overtaken \subseteq DOMAIN command
      /\ ~Rb!MarkedQueued(c) => c \in past'.overtaken
  <2>1. past \in Rb!History /\ past.overtaken \subseteq DOMAIN command
    BY DEF Rb!TypeOK, Rb!HistoryInv, Rb!Excused
  <2> HIDE DEF Rb!BundleInv
  <2> QED BY <1>0, <1>3, <2>1 DEF Rb!History
<1>6. Rb!TypeOK'
  BY <1>0, <1>1, <1>2, <1>4, <1>5 DEF Rb!TypeOK
<1>7. Rb!SessionInv'
  <2>1. \A s \in BundleSessions : session[s].pc \in {"queue", "recovery_queued"} =>
          command'[session[s].cmd].status = "pending" \/ session[s].cmd \in past'.overtaken
    BY <1>1, <1>5 DEF Rb!SessionInv, Rb!MarkedQueued
  <2> QED BY <1>0, <1>1, <1>2, <2>1, SessionsKept
<1>8. Rb!CommandInv' /\ Rb!HistoryInv' /\ Rb!BudgetInv' /\ Rb!ChildAppliedOnce'
  <2>1. Rb!CommandInv'
    BY <1>0, <1>1, <1>2 DEF Rb!CommandInv, Rb!CarryChild, RecoveryGrows
  <2> QED
    BY <1>0, <1>1, <1>4, <1>5, <2>1 DEF Rb!HistoryInv, Rb!Excused, Rb!BudgetInv, Rb!ChildAppliedOnce
<1>9. Rb!WorkerInv'
  <2>1. "running" \in Rb!StatusAt("begin")
    BY DEF Rb!StatusAt
  <2> QED BY <1>0, <1>1, <1>4, <2>1
          DEF Rb!WorkerInv, Rb!AboutToCreate, Rb!CarryChild, Rb!ProposalSteps, Rb!ChildSteps
<1>10. Rb!RowInv'
  BY <1>0, <1>4, <1>5 DEF Rb!RowInv
<1>11. Rb!RecoveryFollowsCommand'
  <2>1. \A d \in DOMAIN command : d # worker.cmd
    BY <1>0, IdleIs DEF Rb!WorkerInv, Rb!TypeOK
  <2> QED BY <1>0, <1>1, <1>5, <2>1 DEF Rb!RecoveryFollowsCommand
<1>12. ASSUME NEW x
       PROVE  Rb!CommandsOf(x)' = Rb!CommandsOf(x) /\ Rb!Waiting(x)' = Rb!Waiting(x) \ {c}
  BY <1>0, <1>1 DEF Rb!CommandsOf, Rb!Waiting
<1>13. ASSUME NEW x
       PROVE  c \in Rb!Waiting(x) <=> x = t
  BY <1>0 DEF Rb!CommandsOf, Rb!Waiting
<1> HIDE DEF t
<1>14. Rb!ProposalInv'
  <2>1. CASE t # Rb!Proposal
    <3>1. Rb!Waiting(Rb!Proposal)' = Rb!Waiting(Rb!Proposal)
      BY <1>12, <1>13, <2>1
    <3> QED BY <1>0, <1>4, <1>5, <1>12, <2>1, <3>1, ProposalKept
  <2>2. CASE t = Rb!Proposal
    <3>1. Rb!Waiting(Rb!Proposal) # {}
      BY <1>13, <2>2
    <3> QED BY <1>0, <1>4, <1>5, <1>12, <2>2, <3>1 DEF Rb!ProposalInv, Rb!WorkerIs
  <2> QED BY <2>1, <2>2
<1>15. Rb!ChildInv'
  <2> SUFFICES ASSUME NEW k \in DOMAIN child, k[1] = "carry" PROVE Rb!CarryInv(k)'
    BY <1>0 DEF Rb!ChildInv
  <2>1. k # Rb!NoTarget
    BY TargetsDiffer DEF Rb!TypeOK
  <2>2. CASE k # t
    <3>1. Rb!Waiting(k)' = Rb!Waiting(k)
      BY <1>12, <1>13, <2>2
    <3>2. /\ ~Rb!WorkerIs(k, {"begin", "start"} \cup Rb!ChildSteps)'
          /\ ~Rb!WorkerIs(k, {"begin", "start", "mark_child"})
      BY <1>0, <1>4, <2>2 DEF Rb!WorkerIs
    <3>3. \A d \in Rb!Excused : command[d].of = k => d \in Rb!Excused' /\ command'[d].of = k
      BY <1>1, <1>5 DEF Rb!HistoryInv, Rb!Excused
    <3>4. /\ UNCHANGED child[k] /\ UNCHANGED Rb!CommandsOf(k)
          /\ \A z \in BundleSessions : session'[z] = session[z]
      BY <1>0, <1>12
    <3>5. /\ past'.contested = past.contested /\ past'.unrecorded = past.unrecorded
          /\ past'.reached = past.reached
      BY <1>5
    <3> HIDE DEF Rb!BundleInv
    <3> QED BY <3>1, <3>2, <3>3, <3>4, <3>5, CarryKept
  <2>3. CASE k = t
    <3>1. c \in Rb!Waiting(k)
      BY <1>13, <2>3
    <3>2. ASSUME k \notin past.contested PROVE Rb!UncontestedInv(k)'
      <4>1. Rb!UncontestedInv(k)
        BY <3>2 DEF Rb!ChildInv, Rb!CarryInv
      <4> QED BY <1>0, <1>4, <1>5, <1>12, <2>3, <3>1, <4>1
              DEF Rb!UncontestedInv, Rb!Early, Rb!WorkerIs, Rb!Armed, Rb!ChildSteps
    <3>3. ASSUME k \notin past.contested \cup past.unrecorded PROVE Rb!ReachedInv(k)'
      <4>1. Rb!ReachedInv(k)
        BY <3>3 DEF Rb!ChildInv, Rb!CarryInv
      <4> QED BY <1>0, <1>4, <1>5, <1>12, <2>3, <3>1, <4>1
              DEF Rb!ReachedInv, Rb!Early, Rb!WorkerIs, Rb!Armed
    <3> QED BY <1>4, <1>5, <2>3, <3>2, <3>3 DEF Rb!CarryInv, Rb!WorkerIs
  <2> QED BY <2>2, <2>3
<1> QED BY <1>2, <1>6, <1>7, <1>8, <1>9, <1>10, <1>11, <1>14, <1>15

(* The recovery row of the command becomes executing. *)
LEMMA CommandBegun ==
  ASSUME Rb!BundleInv, Rb!BeginCommand
  PROVE  Rb!BundleInv'
<1> USE DEF Rb!BundleInv
<1> DEFINE c == worker.cmd
<1>0. /\ worker.pc = "begin" /\ Rb!SetRecovery(worker.rec, "executing") /\ Rb!WorkerAt("start")
      /\ UNCHANGED <<proposal, runs, child, bundle, command, session, requests, past>>
  BY DEF Rb!BeginCommand
<1>1. /\ c \in DOMAIN command /\ command[c].status = "running" /\ command[c].of = worker.of
      /\ command[c].rec = worker.rec
  BY <1>0 DEF Rb!WorkerInv, Rb!StatusAt
<1>2. /\ worker' \in Rb!Actor(Rb!WorkerSteps) /\ worker'.pc = "start" /\ worker'.of = worker.of
      /\ worker'.next = worker.next /\ worker'.cmd = c /\ worker'.rec = worker.rec
  <2>1. "start" \in Rb!WorkerSteps
    BY DEF Rb!WorkerSteps
  <2> QED BY <1>0, <2>1, WorkerMoves
<1>3. /\ recovery' \in Seq(Rb!Recovery) /\ RecoveryGrows /\ Rb!BudgetNeverRequeued'
      /\ \A x \in DOMAIN recovery : x # command[c].rec => recovery'[x] = recovery[x]
  BY <1>0, <1>1, RecoveryFollows
<1>4. Rb!TypeOK'
  BY <1>0, <1>2, <1>3 DEF Rb!TypeOK
<1>5. Rb!SessionInv'
  <2>1. \A s \in BundleSessions : session[s].pc \in {"queue", "recovery_queued"} =>
          command'[session[s].cmd].status = "pending" \/ session[s].cmd \in past'.overtaken
    BY <1>0 DEF Rb!SessionInv
  <2> QED BY <1>0, <1>3, <2>1, SessionsKept
<1>6. Rb!CommandInv' /\ Rb!HistoryInv' /\ Rb!BudgetInv' /\ Rb!ChildAppliedOnce'
  <2>1. Rb!CommandInv'
    BY <1>0, <1>3 DEF Rb!CommandInv, Rb!CarryChild, RecoveryGrows
  <2> QED BY <1>0, <1>2, <2>1 DEF Rb!HistoryInv, Rb!Excused, Rb!BudgetInv, Rb!ChildAppliedOnce
<1>7. Rb!WorkerInv'
  BY <1>0, <1>1, <1>2
  DEF Rb!WorkerInv, Rb!AboutToCreate, Rb!CarryChild, Rb!ProposalSteps, Rb!ChildSteps, Rb!StatusAt
<1>8. Rb!RowInv'
  BY <1>0, <1>2 DEF Rb!RowInv
<1>9. Rb!RecoveryFollowsCommand'
  BY <1>0, <1>1, <1>2, <1>3 DEF Rb!RecoveryFollowsCommand, Rb!CommandInv
<1>10. ASSUME NEW x
       PROVE  Rb!CommandsOf(x)' = Rb!CommandsOf(x) /\ Rb!Waiting(x)' = Rb!Waiting(x)
  BY <1>0 DEF Rb!CommandsOf, Rb!Waiting
<1>11. Rb!ProposalInv'
  BY <1>0, <1>2, <1>10, ProposalKept
<1>12. Rb!ChildInv'
  <2>1. SameTask /\ Rb!Excused' = Rb!Excused
    BY <1>0, <1>2 DEF SameTask, Rb!Excused
  <2> QED BY <1>0, <1>10, <2>1, CarryKept DEF Rb!ChildInv
<1> QED BY <1>3, <1>4, <1>5, <1>6, <1>7, <1>8, <1>9, <1>11, <1>12

(* The command ends; the worker is still at it. *)
LEMMA CommandEnded ==
  ASSUME Rb!BundleInv, NEW st \in {"completed", "failed"},
         NEW next \in {"recovery_completed", "recovery_failed"},
         Rb!StatusAt(next) = {st}, worker.pc \in {"finish", "fail_command"}, Rb!EndCommand(st, next)
  PROVE  Rb!BundleInv'
<1> USE DEF Rb!BundleInv
<1> DEFINE c == worker.cmd
<1>0. /\ command' = [command EXCEPT ![c].status = st] /\ Rb!WorkerAt(next)
      /\ UNCHANGED <<proposal, runs, child, bundle, recovery, session, requests, past>>
  BY DEF Rb!EndCommand
<1>1. /\ c \in DOMAIN command /\ command[c].status # "pending" /\ command[c].of = worker.of
      /\ command[c].rec = worker.rec
  BY DEF Rb!WorkerInv, Rb!StatusAt
<1> HIDE DEF c
<1>2. /\ command' \in Seq(Rb!Command) /\ DOMAIN command' = DOMAIN command
      /\ \A d \in DOMAIN command : /\ command'[d].of = command[d].of
                                   /\ command'[d].rec = command[d].rec
                                   /\ d # c => command'[d] = command[d]
      /\ command'[c].status = st
  BY <1>0, <1>1, CommandMarked
<1>3. /\ worker' \in Rb!Actor(Rb!WorkerSteps) /\ worker'.pc = next /\ worker'.of = worker.of
      /\ worker'.next = worker.next /\ worker'.cmd = c /\ worker'.rec = worker.rec
  <2>1. next \in Rb!WorkerSteps
    BY DEF Rb!WorkerSteps
  <2> QED BY <1>0, <2>1, WorkerMoves DEF c
<1>4. RecoveryGrows /\ Rb!BudgetNeverRequeued' /\ PastKept
  BY <1>0, PastSame DEF RecoveryGrows, Rb!BudgetNeverRequeued
<1>5. Rb!TypeOK'
  BY <1>0, <1>2, <1>3 DEF Rb!TypeOK
<1>6. Rb!SessionInv'
  <2>1. \A s \in BundleSessions : session[s].pc \in {"queue", "recovery_queued"} =>
          command'[session[s].cmd].status = "pending" \/ session[s].cmd \in past'.overtaken
    BY <1>0, <1>1, <1>2 DEF Rb!SessionInv
  <2> QED BY <1>0, <1>2, <1>4, <2>1, SessionsKept
<1>7. Rb!CommandInv' /\ Rb!HistoryInv' /\ Rb!BudgetInv' /\ Rb!ChildAppliedOnce'
  <2>1. Rb!CommandInv'
    BY <1>0, <1>2 DEF Rb!CommandInv, Rb!CarryChild
  <2> QED BY <1>0, <1>2, <1>3, <2>1
          DEF Rb!HistoryInv, Rb!Excused, Rb!BudgetInv, Rb!ChildAppliedOnce
<1>8. Rb!WorkerInv'
  BY <1>0, <1>1, <1>2, <1>3
  DEF Rb!WorkerInv, Rb!AboutToCreate, Rb!CarryChild, Rb!ProposalSteps, Rb!ChildSteps
<1>9. Rb!RowInv'
  BY <1>0, <1>3 DEF Rb!RowInv
<1>10. Rb!RecoveryFollowsCommand'
  BY <1>0, <1>2, <1>3 DEF Rb!RecoveryFollowsCommand, c
<1>11. ASSUME NEW x
       PROVE  Rb!CommandsOf(x)' = Rb!CommandsOf(x) /\ Rb!Waiting(x)' = Rb!Waiting(x)
  BY <1>1, <1>2 DEF Rb!CommandsOf, Rb!Waiting
<1>12. Rb!ProposalInv'
  BY <1>0, <1>3, <1>11, ProposalKept
<1>13. Rb!ChildInv'
  <2> SUFFICES ASSUME NEW k \in DOMAIN child, k[1] = "carry" PROVE Rb!CarryInv(k)'
    BY <1>0 DEF Rb!ChildInv
  <2>1. /\ ~Rb!WorkerIs(k, {"begin", "start"} \cup Rb!ChildSteps)'
        /\ ~Rb!WorkerIs(k, {"begin", "start", "mark_child"})
    BY <1>3 DEF Rb!WorkerIs, Rb!ChildSteps
  <2>2. \A d \in Rb!Excused : command[d].of = k => d \in Rb!Excused' /\ command'[d].of = k
    BY <1>0, <1>2 DEF Rb!HistoryInv, Rb!Excused
  <2> QED BY <1>0, <1>11, <2>1, <2>2, CarryKept
<1> QED BY <1>0, <1>4, <1>5, <1>6, <1>7, <1>8, <1>9, <1>10, <1>12, <1>13

(* The recovery request ends as its command did, and the worker is free. *)
LEMMA RecoveryEnded ==
  ASSUME Rb!BundleInv, NEW st \in {"completed", "failed"}, worker.pc # "idle",
         Rb!StatusAt(worker.pc) = {st}, ~Rb!WorkerIs(worker.of, {"begin", "start", "mark_child"}),
         Rb!EndRecovery(st)
  PROVE  Rb!BundleInv'
<1> USE DEF Rb!BundleInv
<1> DEFINE c == worker.cmd
<1>0. /\ Rb!SetRecovery(worker.rec, st) /\ worker' = Rb!IdleActor
      /\ UNCHANGED <<proposal, runs, child, bundle, command, session, requests, past>>
  BY DEF Rb!EndRecovery
<1>1. /\ c \in DOMAIN command /\ command[c].status = st /\ command[c].rec = worker.rec
  BY DEF Rb!WorkerInv
<1> HIDE DEF c
<1>2. /\ recovery' \in Seq(Rb!Recovery) /\ RecoveryGrows /\ Rb!BudgetNeverRequeued'
      /\ command[c].rec # 0 => recovery'[command[c].rec].status = st
      /\ \A x \in DOMAIN recovery : x # command[c].rec => recovery'[x] = recovery[x]
  BY <1>0, <1>1, RecoveryFollows
<1>3. Rb!TypeOK'
  BY <1>0, <1>2, IdleIs DEF Rb!TypeOK
<1>4. Rb!SessionInv'
  <2>1. \A s \in BundleSessions : session[s].pc \in {"queue", "recovery_queued"} =>
          command'[session[s].cmd].status = "pending" \/ session[s].cmd \in past'.overtaken
    BY <1>0 DEF Rb!SessionInv
  <2> QED BY <1>0, <1>2, <2>1, SessionsKept
<1>5. Rb!CommandInv' /\ Rb!HistoryInv' /\ Rb!BudgetInv' /\ Rb!ChildAppliedOnce'
  <2>1. Rb!CommandInv'
    BY <1>0, <1>2 DEF Rb!CommandInv, Rb!CarryChild, RecoveryGrows
  <2> QED BY <1>0, <2>1, IdleIs DEF Rb!HistoryInv, Rb!Excused, Rb!BudgetInv, Rb!ChildAppliedOnce
<1>6. Rb!WorkerInv'
  BY <1>0, IdleIs DEF Rb!WorkerInv, Rb!AboutToCreate, Rb!CarryChild, Rb!ProposalSteps, Rb!ChildSteps
<1>7. Rb!RowInv'
  BY <1>0, IdleIs DEF Rb!RowInv, Rb!StatusAt
<1>8. Rb!RecoveryFollowsCommand'
  <2>1. ASSUME NEW d \in DOMAIN command, d # c, command[d].rec # 0
        PROVE  command[d].rec \in DOMAIN recovery /\ command[d].rec # command[c].rec
    BY <1>1, <2>1 DEF Rb!CommandInv
  <2> QED BY <1>0, <1>1, <1>2, <2>1 DEF Rb!RecoveryFollowsCommand, c
<1>9. ASSUME NEW x
      PROVE  Rb!CommandsOf(x)' = Rb!CommandsOf(x) /\ Rb!Waiting(x)' = Rb!Waiting(x)
  BY <1>0 DEF Rb!CommandsOf, Rb!Waiting
<1>10. Rb!ProposalInv'
  BY <1>0, <1>9, IdleIs, ProposalKept
<1>11. Rb!ChildInv'
  <2> SUFFICES ASSUME NEW k \in DOMAIN child, k[1] = "carry" PROVE Rb!CarryInv(k)'
    BY <1>0 DEF Rb!ChildInv
  <2>1. /\ ~Rb!WorkerIs(k, {"begin", "start"} \cup Rb!ChildSteps)'
        /\ ~Rb!WorkerIs(k, {"begin", "start", "mark_child"}) /\ Rb!Excused' = Rb!Excused
    BY <1>0, IdleIs DEF Rb!WorkerIs, Rb!ChildSteps, Rb!Excused
  <2> QED BY <1>0, <1>9, <2>1, CarryKept
<1> QED BY <1>2, <1>3, <1>4, <1>5, <1>6, <1>7, <1>8, <1>10, <1>11

-----------------------------------------------------------------------------
(***************************************************************************)
(* executeRebalanceProposal.                                               *)
(***************************************************************************)
(* A step of it that adds no child: what is kept in any case.              *)
LEMMA ProposalMoves ==
  ASSUME Rb!BundleInv, UNCHANGED <<child, bundle, recovery, command, session, requests, past>>,
         worker.of = Rb!Proposal, worker'.of = Rb!Proposal, worker'.cmd = worker.cmd,
         worker'.pc # "budget",
         worker' \in Rb!Actor(Rb!WorkerSteps), runs' \in Nat,
         proposal' \in {"proposed", "approved", "queued", "executing", "completed", "rejected"},
         Rb!WorkerInv', Rb!RowInv', Rb!ProposalInv'
  PROVE  Rb!BundleInv'
<1> USE DEF Rb!BundleInv
<1>1. Rb!TypeOK'
  BY DEF Rb!TypeOK
<1>2. Rb!SessionInv'
  BY SessionsUnmoved
<1>3. Rb!CommandInv' /\ Rb!HistoryInv' /\ Rb!BudgetInv' /\ Rb!ChildAppliedOnce'
  BY DEF Rb!CommandInv, Rb!HistoryInv, Rb!BudgetInv, Rb!ChildAppliedOnce, Rb!CarryChild,
         Rb!Excused
<1>4. RequestsKept'
  BY RecoveryKept, PastSame
<1>5. Rb!ChildInv'
  <2> SUFFICES ASSUME NEW k \in DOMAIN child, k[1] = "carry" PROVE Rb!CarryInv(k)'
    BY DEF Rb!ChildInv
  <2>1. k # Rb!Proposal
    BY TargetsDiffer DEF Rb!TypeOK
  <2>2. Rb!CommandsOf(k)' = Rb!CommandsOf(k) /\ Rb!Waiting(k)' = Rb!Waiting(k)
    BY DEF Rb!CommandsOf, Rb!Waiting
  <2>3. /\ ~Rb!WorkerIs(k, {"begin", "start"} \cup Rb!ChildSteps)'
        /\ ~Rb!WorkerIs(k, {"begin", "start", "mark_child"}) /\ Rb!Excused' = Rb!Excused
    BY <2>1 DEF Rb!WorkerIs, Rb!Excused
  <2> QED BY <2>2, <2>3, CarryKept
<1> QED BY <1>1, <1>2, <1>3, <1>4, <1>5 DEF RequestsKept

(* The execution of the proposal is created. *)
LEMMA ProposalStarted ==
  ASSUME Rb!BundleInv, Rb!StartProposal
  PROVE  Rb!BundleInv'
<1> USE DEF Rb!BundleInv
<1>0. /\ worker.pc = "start" /\ worker.of = Rb!Proposal /\ proposal \in {"queued", "approved"}
      /\ runs' = runs + 1 /\ Rb!WorkerAt("mark_proposal")
      /\ UNCHANGED <<proposal, child, bundle, recovery, command, session, requests, past>>
  BY DEF Rb!StartProposal, Rb!Executable, Rb!StatusOf
<1>1. /\ worker' \in Rb!Actor(Rb!WorkerSteps) /\ worker'.pc = "mark_proposal"
      /\ worker'.of = worker.of
      /\ worker'.next = worker.next /\ worker'.cmd = worker.cmd /\ worker'.rec = worker.rec
  <2>1. "mark_proposal" \in Rb!WorkerSteps
    BY DEF Rb!WorkerSteps
  <2> QED BY <1>0, <2>1, WorkerMoves
<1>2. runs \in Nat /\ \A k \in DOMAIN child : k[2] \in Nat
  BY DEF Rb!TypeOK, Rb!Children
<1>3. Rb!WorkerInv'
  BY <1>0, <1>1, <1>2
  DEF Rb!WorkerInv, Rb!AboutToCreate, Rb!CarryChild, Rb!ProposalSteps, Rb!ChildSteps,
      Rb!StatusAt
<1>4. Rb!RowInv'
  BY <1>0, <1>1 DEF Rb!RowInv
<1>5. Rb!ProposalInv'
  <2>1. /\ Rb!CommandsOf(Rb!Proposal)' = Rb!CommandsOf(Rb!Proposal)
        /\ Rb!Waiting(Rb!Proposal)' = Rb!Waiting(Rb!Proposal)
    BY <1>0 DEF Rb!CommandsOf, Rb!Waiting
  <2>2. worker.cmd \in Rb!CommandsOf(Rb!Proposal) /\ worker.cmd \notin Rb!Waiting(Rb!Proposal)
        /\ Rb!Waiting(Rb!Proposal) \subseteq Rb!CommandsOf(Rb!Proposal)
    BY <1>0, WorkerHolds DEF Rb!Waiting
  <2> QED BY <1>0, <1>1, <1>2, <2>1, <2>2 DEF Rb!ProposalInv, Rb!WorkerIs
<1> QED BY <1>0, <1>1, <1>2, <1>3, <1>4, <1>5, ProposalMoves DEF Rb!TypeOK

(* The proposal is marked executing. *)
LEMMA ProposalMarked ==
  ASSUME Rb!BundleInv, NEW st \in {"executing", "completed"}, proposal' = st,
         UNCHANGED <<runs, child, bundle, recovery, command, session, requests, past>>,
         \/ worker.pc = "mark_proposal" /\ worker' = Rb!Synced(worker, "create_carry")
         \/ worker.pc = "complete_proposal" /\ worker' = Rb!Synced(worker, "finish")
  PROVE  Rb!BundleInv'
<1> USE DEF Rb!BundleInv
<1>1. /\ worker' \in Rb!Actor(Rb!WorkerSteps) /\ worker'.pc = "sync" /\ worker'.of = worker.of
      /\ worker'.next \in {"create_carry", "finish"}
      /\ worker'.next = "create_carry" => worker.pc = "mark_proposal"
      /\ worker'.cmd = worker.cmd /\ worker'.rec = worker.rec
  <2>1. "create_carry" \in Rb!WorkerSteps /\ "finish" \in Rb!WorkerSteps
    BY DEF Rb!WorkerSteps
  <2> QED BY <2>1, WorkerSyncs
<1>2. worker.of = Rb!Proposal
  BY DEF Rb!WorkerInv, Rb!AboutToCreate, Rb!ProposalSteps
<1>3. Rb!WorkerInv'
  BY <1>1, <1>2 DEF Rb!WorkerInv, Rb!AboutToCreate, Rb!CarryChild, Rb!ProposalSteps, Rb!ChildSteps,
      Rb!StatusAt
<1>4. Rb!RowInv'
  BY <1>1 DEF Rb!RowInv
<1>5. Rb!ProposalInv'
  <2>1. /\ Rb!CommandsOf(Rb!Proposal)' = Rb!CommandsOf(Rb!Proposal)
        /\ Rb!Waiting(Rb!Proposal)' = Rb!Waiting(Rb!Proposal)
    BY DEF Rb!CommandsOf, Rb!Waiting
  <2>2. worker.cmd \in Rb!CommandsOf(Rb!Proposal)
    BY <1>2, WorkerHolds
  <2> QED BY <1>1, <1>2, <2>1, <2>2 DEF Rb!ProposalInv, Rb!WorkerIs, Rb!AboutToInsert
<1> QED BY <1>1, <1>2, <1>3, <1>4, <1>5, ProposalMoves DEF Rb!TypeOK

(* A new child is in the table, recommended. *)
LEMMA ChildIsNew ==
  ASSUME Rb!TypeOK, NEW sleeve \in {"carry", "budget"}, NEW executable \in BOOLEAN, runs > 0,
         <<sleeve, runs>> \notin DOMAIN child, Rb!NewChild(sleeve, executable)
  PROVE  /\ <<sleeve, runs>> \in Rb!Children
         /\ DOMAIN child' = DOMAIN child \cup {<<sleeve, runs>>}
         /\ \A k \in DOMAIN child : child'[k] = child[k]
         /\ child'[<<sleeve, runs>>] \in Rb!Row
         /\ child'[<<sleeve, runs>>].status = "recommended"
         /\ child'[<<sleeve, runs>>].executions = <<>>
         /\ child'[<<sleeve, runs>>].executable = executable
<1> DEFINE entry == Rb!ChildRow(sleeve, "recommended", <<>>, executable)
<1>1. /\ entry \in Rb!Row /\ entry.status = "recommended" /\ entry.executions = <<>>
      /\ entry.executable = executable
  BY DEF Rb!ChildRow, Rb!Row, Rb!ActionStatuses
<1>2. <<sleeve, runs>> \in Rb!Children
  BY DEF Rb!Children, Rb!TypeOK
<1> HIDE DEF entry
<1> QED BY <1>1, <1>2 DEF Rb!NewChild, entry

(* A child is added: no handler, command or history refers to it yet.      *)
LEMMA ChildAdded ==
  ASSUME Rb!BundleInv, NEW n \in Rb!Children, n \notin DOMAIN child,
         DOMAIN child' = DOMAIN child \cup {n}, \A k \in DOMAIN child : child'[k] = child[k],
         child'[n] \in Rb!Row, child'[n].status = "recommended", child'[n].executions = <<>>,
         UNCHANGED <<proposal, runs, bundle, recovery, command, session, requests, past>>,
         worker.of = Rb!Proposal, worker'.of = Rb!Proposal, worker'.cmd = worker.cmd,
         worker' \in Rb!Actor(Rb!WorkerSteps),
         worker'.pc \in {"create_budget", "budget"}, Rb!WorkerInv', Rb!BudgetInv'
  PROVE  Rb!BundleInv'
<1> USE DEF Rb!BundleInv
<1>1. Rb!TypeOK'
  BY DEF Rb!TypeOK
<1>2. Rb!SessionInv'
  BY SessionsUnmoved
<1>3. Rb!CommandInv' /\ Rb!HistoryInv' /\ Rb!ChildAppliedOnce'
  BY DEF Rb!CommandInv, Rb!HistoryInv, Rb!Excused, Rb!ChildAppliedOnce, Rb!CarryChild
<1>4. RequestsKept'
  BY RecoveryKept, PastSame
<1>5. Rb!RowInv'
  BY DEF Rb!RowInv
<1>6. ASSUME NEW x
      PROVE  Rb!CommandsOf(x)' = Rb!CommandsOf(x) /\ Rb!Waiting(x)' = Rb!Waiting(x)
  BY DEF Rb!CommandsOf, Rb!Waiting
<1>7. Rb!ProposalInv'
  BY <1>6, ProposalKept
<1>8. Rb!ChildInv'
  <2> SUFFICES ASSUME NEW k \in DOMAIN child', k[1] = "carry" PROVE Rb!CarryInv(k)'
    BY DEF Rb!ChildInv
  <2>1. k # Rb!Proposal /\ k # Rb!NoTarget
    BY TargetsDiffer DEF Rb!TypeOK
  <2>2. /\ ~Rb!WorkerIs(k, {"begin", "start"} \cup Rb!ChildSteps)'
        /\ ~Rb!WorkerIs(k, {"begin", "start", "mark_child"}) /\ Rb!Excused' = Rb!Excused
    BY <2>1 DEF Rb!WorkerIs, Rb!Excused
  <2>3. CASE k \in DOMAIN child
    BY <1>6, <2>2, <2>3, CarryKept
  <2>4. CASE k = n
    <3>1. Rb!CommandsOf(k) = {}
      BY <2>1, <2>4 DEF Rb!CommandInv, Rb!CommandsOf, Rb!CarryChild
    <3>2. \A s \in BundleSessions : session[s].of # k
      BY <2>1, <2>4 DEF Rb!SessionInv
    <3>3. k \notin past.reached
      BY <2>4 DEF Rb!HistoryInv
    <3>4. Rb!UncontestedInv(k)'
      BY <1>6, <2>1, <2>4, <3>1, <3>2, <3>3 DEF Rb!UncontestedInv, Rb!Early, Rb!WorkerIs, Rb!Armed
    <3> QED BY <2>4, <3>3, <3>4 DEF Rb!CarryInv, Rb!ReachedInv
  <2> QED BY <2>3, <2>4
<1> QED BY <1>1, <1>2, <1>3, <1>4, <1>5, <1>7, <1>8 DEF RequestsKept

(* The carry child of an execution is created. *)
LEMMA CarryCreated ==
  ASSUME Rb!BundleInv, Rb!CreateCarry
  PROVE  Rb!BundleInv'
<1> USE DEF Rb!BundleInv
<1>0. /\ worker.pc = "create_carry"
      /\ worker' = [worker EXCEPT !.pc = "create_budget", !.i = 1]
      /\ UNCHANGED <<proposal, runs, bundle, recovery, command, session, requests, past>>
  BY DEF Rb!CreateCarry
<1>1. /\ worker' \in Rb!Actor(Rb!WorkerSteps) /\ worker'.pc = "create_budget"
      /\ worker'.of = worker.of
      /\ worker'.next = worker.next /\ worker'.cmd = worker.cmd /\ worker'.rec = worker.rec
      /\ worker'.i = 1
  BY <1>0 DEF Rb!TypeOK, Rb!Actor, Rb!WorkerSteps
<1>2. /\ worker.of = Rb!Proposal /\ runs > 0 /\ runs \in Nat
      /\ \A k \in DOMAIN child : k[2] < runs /\ k[2] \in Nat
  BY <1>0 DEF Rb!WorkerInv, Rb!AboutToCreate, Rb!ProposalSteps, Rb!TypeOK, Rb!Children
<1>4. CASE UNCHANGED child
  <2>1. Rb!WorkerInv'
    BY <1>0, <1>1, <1>2, <1>4
    DEF Rb!WorkerInv, Rb!AboutToCreate, Rb!CarryChild, Rb!ProposalSteps, Rb!ChildSteps,
      Rb!StatusAt
  <2>2. Rb!RowInv'
    BY <1>1 DEF Rb!RowInv
  <2>3. /\ Rb!CommandsOf(Rb!Proposal)' = Rb!CommandsOf(Rb!Proposal)
        /\ Rb!Waiting(Rb!Proposal)' = Rb!Waiting(Rb!Proposal)
    BY <1>0 DEF Rb!CommandsOf, Rb!Waiting
  <2>4. Rb!ProposalInv'
    BY <1>0, <1>1, <2>3, ProposalKept
  <2> QED BY <1>0, <1>1, <1>2, <1>4, <2>1, <2>2, <2>4, ProposalMoves DEF Rb!TypeOK
<1>5. ASSUME NEW executable \in BOOLEAN, Rb!NewChild("carry", executable) PROVE Rb!BundleInv'
  <2> DEFINE n == <<"carry", runs>>
  <2>1. n \notin DOMAIN child /\ n[1] = "carry" /\ n[2] = runs
    BY <1>2
  <2>2. /\ n \in Rb!Children
        /\ DOMAIN child' = DOMAIN child \cup {n}
        /\ \A k \in DOMAIN child : child'[k] = child[k]
        /\ child'[n] \in Rb!Row /\ child'[n].status = "recommended" /\ child'[n].executions = <<>>
    BY <1>2, <1>5, <2>1, ChildIsNew
  <2> HIDE DEF n
  <2>3. Rb!WorkerInv'
    BY <1>0, <1>1, <1>2, <2>1, <2>2
    DEF Rb!WorkerInv, Rb!AboutToCreate, Rb!CarryChild, Rb!ProposalSteps, Rb!ChildSteps,
      Rb!StatusAt
  <2>4. Rb!BudgetInv'
    BY <1>0, <1>1, <2>1, <2>2 DEF Rb!BudgetInv
  <2> QED BY <1>0, <1>1, <1>2, <2>1, <2>2, <2>3, <2>4, ChildAdded
<1> QED BY <1>4, <1>5 DEF Rb!CreateCarry

(* The budget's action of an execution is created. *)
LEMMA BudgetCreated ==
  ASSUME Rb!BundleInv, Rb!CreateBudget
  PROVE  Rb!BundleInv'
<1> USE DEF Rb!BundleInv
<1> DEFINE n == <<"budget", runs>>
<1>0. /\ worker.pc = "create_budget" /\ Rb!WorkerAt("budget") /\ Rb!NewChild("budget", TRUE)
      /\ UNCHANGED <<proposal, runs, bundle, recovery, command, session, requests, past>>
  BY DEF Rb!CreateBudget
<1>1. /\ worker' \in Rb!Actor(Rb!WorkerSteps) /\ worker'.pc = "budget" /\ worker'.of = worker.of
      /\ worker'.next = worker.next /\ worker'.cmd = worker.cmd /\ worker'.rec = worker.rec
      /\ worker'.i = worker.i
  <2>1. "budget" \in Rb!WorkerSteps
    BY DEF Rb!WorkerSteps
  <2> QED BY <1>0, <2>1, WorkerMoves
<1>2. /\ worker.of = Rb!Proposal /\ runs > 0 /\ runs \in Nat /\ worker.i = 1
      /\ \A k \in DOMAIN child : (k[2] < runs \/ k[1] = "carry") /\ k[2] \in Nat
  BY <1>0 DEF Rb!WorkerInv, Rb!AboutToCreate, Rb!ProposalSteps, Rb!TypeOK, Rb!Children
<1>3. n \notin DOMAIN child /\ n[1] = "budget" /\ n[2] = runs
  BY <1>2
<1>4. /\ n \in Rb!Children
      /\ DOMAIN child' = DOMAIN child \cup {n}
      /\ \A k \in DOMAIN child : child'[k] = child[k]
      /\ child'[n] \in Rb!Row /\ child'[n].status = "recommended" /\ child'[n].executions = <<>>
      /\ child'[n].executable
  BY <1>0, <1>2, <1>3, ChildIsNew
<1>5. Len(Rb!BudgetWrites) = 6
  BY DEF Rb!BudgetWrites
<1>7. Rb!WorkerInv'
  BY <1>0, <1>1, <1>2, <1>3, <1>4, <1>5
  DEF Rb!WorkerInv, Rb!AboutToCreate, Rb!CarryChild, Rb!ProposalSteps, Rb!ChildSteps,
      Rb!StatusAt
<1>8. Rb!BudgetInv'
  <2> HIDE DEF n
  <2>1. n' = n
    BY <1>0 DEF n
  <2> QED BY <1>0, <1>1, <1>2, <1>3, <1>4, <1>5, <2>1 DEF Rb!BudgetInv, n
<1> HIDE DEF n
<1> QED BY <1>0, <1>1, <1>2, <1>3, <1>4, <1>7, <1>8, ChildAdded

(* A step of the worker that writes the row of one child k: what is kept   *)
(* besides what is said of k and of the history.                           *)
LEMMA RowMoves ==
  ASSUME Rb!BundleInv, NEW k \in DOMAIN child, DOMAIN child' = DOMAIN child, child'[k] \in Rb!Row,
         \A j \in DOMAIN child : j # k => child'[j] = child[j],
         UNCHANGED <<proposal, runs, bundle, recovery, command, session, requests>>,
         k[1] = "budget" => worker.of = Rb!Proposal, k[1] = "carry" => worker.of = k,
         worker'.of = worker.of, worker'.cmd = worker.cmd, worker' \in Rb!Actor(Rb!WorkerSteps),
         worker'.pc \notin {"begin", "start"}, past' \in Rb!History,
         UNCHANGED <<past.contested, past.overtaken, past.thrown, past.died, past.rejected>>,
         past.unrecorded \subseteq past'.unrecorded,
         past'.reached \subseteq past.reached \cup {k}, k[1] = "budget" => UNCHANGED past,
         Rb!WorkerInv', Rb!BudgetInv', Rb!RowInv', Rb!ChildAppliedOnce',
         k[1] = "carry" => Rb!CarryInv(k)'
  PROVE  Rb!BundleInv'
<1> USE DEF Rb!BundleInv
<1>0. Rb!Excused' = Rb!Excused
  BY DEF Rb!Excused
<1>1. Rb!TypeOK'
  BY DEF Rb!TypeOK
<1>2. Rb!SessionInv'
  BY SessionsUnmoved
<1>3. Rb!CommandInv' /\ Rb!HistoryInv'
  BY <1>0 DEF Rb!CommandInv, Rb!HistoryInv, Rb!CarryChild
<1>4. RequestsKept'
  BY DEF RequestsKept, Rb!BudgetNeverRequeued, Rb!RecoveryFollowsCommand
<1>5. ASSUME NEW x
      PROVE  Rb!CommandsOf(x)' = Rb!CommandsOf(x) /\ Rb!Waiting(x)' = Rb!Waiting(x)
  BY DEF Rb!CommandsOf, Rb!Waiting
<1>6. Rb!ProposalInv'
  BY <1>5, ProposalKept
<1>7. Rb!ChildInv'
  <2> SUFFICES ASSUME NEW j \in DOMAIN child, j[1] = "carry", j # k PROVE Rb!CarryInv(j)'
    BY DEF Rb!ChildInv
  <2>1. k[1] \in {"carry", "budget"} /\ j # Rb!Proposal
    BY TargetsDiffer DEF Rb!TypeOK, Rb!Children
  <2>2. /\ ~Rb!WorkerIs(j, {"begin", "start"} \cup Rb!ChildSteps)'
        /\ ~Rb!WorkerIs(j, {"begin", "start", "mark_child"})
    BY <2>1 DEF Rb!WorkerIs
  <2>3. /\ j \in past'.reached => j \in past.reached
        /\ child'[j] = child[j]
    OBVIOUS
  <2> HIDE DEF Rb!BundleInv
  <2> QED BY <1>0, <1>5, <2>2, <2>3, CarryKept
<1> QED BY <1>1, <1>2, <1>3, <1>4, <1>6, <1>7 DEF RequestsKept

(* The worker's six writes to the budget's action. *)
LEMMA BudgetMoves ==
  ASSUME Rb!BundleInv, Rb!BudgetStep
  PROVE  Rb!BundleInv'
<1> USE DEF Rb!BundleInv
<1> DEFINE k == <<"budget", runs>>
           w == Rb!BudgetWrites[worker.i]
           entry == CASE w = "create_execution"   -> [child[k] EXCEPT !.executions = <<"executing">>]
                      [] w = "complete_execution" -> [child[k] EXCEPT !.executions = <<"completed">>]
                      [] OTHER                    -> [child[k] EXCEPT !.status = w]
<1>0. /\ worker.pc = "budget" /\ child' = [child EXCEPT ![k] = entry]
      /\ worker' = [worker EXCEPT !.pc = IF worker.i = Len(Rb!BudgetWrites)
                                         THEN "complete_proposal" ELSE "budget",
                                  !.i = worker.i + 1]
      /\ UNCHANGED <<proposal, runs, bundle, recovery, command, session, requests, past>>
  BY DEF Rb!BudgetStep
<1>1. /\ worker.of = Rb!Proposal /\ k \in DOMAIN child /\ k[1] = "budget"
      /\ worker.i \in 1..6 /\ Len(Rb!BudgetWrites) = 6
  BY <1>0 DEF Rb!WorkerInv, Rb!ProposalSteps, Rb!BudgetWrites
<1>2. /\ worker' \in Rb!Actor(Rb!WorkerSteps) /\ worker'.of = worker.of
      /\ worker'.pc = IF worker.i = 6 THEN "complete_proposal" ELSE "budget"
      /\ worker'.next = worker.next /\ worker'.cmd = worker.cmd /\ worker'.rec = worker.rec
      /\ worker'.i = worker.i + 1
  <2> DEFINE m == worker.i + 1
             pc == IF worker.i = Len(Rb!BudgetWrites) THEN "complete_proposal" ELSE "budget"
  <2>1. m \in Nat /\ pc \in Rb!WorkerSteps /\ worker \in Rb!Actor(Rb!WorkerSteps)
    BY <1>1 DEF Rb!TypeOK, Rb!WorkerSteps
  <2>2. worker' = [worker EXCEPT !.pc = pc, !.i = m]
    BY <1>0
  <2> HIDE DEF m, pc
  <2>3. /\ worker' \in Rb!Actor(Rb!WorkerSteps) /\ worker'.of = worker.of /\ worker'.pc = pc
        /\ worker'.next = worker.next /\ worker'.cmd = worker.cmd /\ worker'.rec = worker.rec
        /\ worker'.i = m
    BY <2>1, <2>2 DEF Rb!Actor
  <2> QED BY <1>1, <2>3 DEF m, pc
<1>3. child[k] \in Rb!Row
  BY <1>1 DEF Rb!TypeOK
<1>4. /\ child[k].executable
      /\ child[k].executions \in {<<>>, <<"executing">>, <<"completed">>}
      /\ child[k].status \in {"recommended", "approved", "queued", "executing", "completed"}
      /\ child[k].status = "completed" => child[k].executions = <<"completed">>
      /\ IF worker.i = 6 THEN child[k].executions = <<"completed">>
         ELSE child[k].status # "completed"
  BY <1>0, <1>1 DEF Rb!BudgetInv
<1>5. /\ entry \in Rb!Row /\ entry.executable
      /\ entry.executions \in {<<>>, <<"executing">>, <<"completed">>}
      /\ entry.status \in {"recommended", "approved", "queued", "executing", "completed"}
      /\ entry.status = "completed" => entry.executions = <<"completed">>
      /\ worker.i = 5 => entry.executions = <<"completed">>
      /\ worker.i < 5 => entry.status # "completed"
  <2> DEFINE x == child[k]
  <2> HIDE DEF k
  <2>0. x \in Rb!Row
    BY <1>3
  <2> HIDE DEF Rb!BundleInv
  <2>1. CASE worker.i \in {1, 2, 3, 6}
    <3>1. /\ w \in {"approved", "queued", "executing", "completed"}
          /\ w = "completed" <=> worker.i = 6
      BY <2>1 DEF Rb!BudgetWrites
    <3>2. entry = [x EXCEPT !.status = w]
      BY <3>1
    <3>3. /\ entry \in Rb!Row /\ entry.status = w /\ entry.executions = x.executions
          /\ entry.executable = x.executable
      <4> HIDE DEF entry, w, x
      <4> QED BY <2>0, <3>1, <3>2 DEF Rb!Row, Rb!ActionStatuses
    <3> HIDE DEF entry, w
    <3> QED BY <1>4, <2>1, <3>1, <3>3
  <2>2. CASE worker.i = 4
    <3>1. entry = [x EXCEPT !.executions = <<"executing">>]
      BY <2>2 DEF Rb!BudgetWrites
    <3>2. /\ entry \in Rb!Row /\ entry.status = x.status /\ entry.executions = <<"executing">>
          /\ entry.executable = x.executable
      <4>1. <<"executing">> \in Seq({"executing", "completed", "failed"})
        OBVIOUS
      <4> HIDE DEF entry, w, x
      <4> QED BY <2>0, <3>1, <4>1 DEF Rb!Row
    <3> HIDE DEF entry, w
    <3> QED BY <1>4, <2>2, <3>2
  <2>3. CASE worker.i = 5
    <3>1. entry = [x EXCEPT !.executions = <<"completed">>]
      BY <2>3 DEF Rb!BudgetWrites
    <3>2. /\ entry \in Rb!Row /\ entry.status = x.status /\ entry.executions = <<"completed">>
          /\ entry.executable = x.executable
      <4>1. <<"completed">> \in Seq({"executing", "completed", "failed"})
        OBVIOUS
      <4> HIDE DEF entry, w, x
      <4> QED BY <2>0, <3>1, <4>1 DEF Rb!Row
    <3> HIDE DEF entry, w
    <3> QED BY <1>4, <2>3, <3>2
  <2>4. worker.i \in {1, 2, 3, 6} \/ worker.i = 4 \/ worker.i = 5
    BY <1>1
  <2> HIDE DEF entry, w
  <2> QED BY <2>1, <2>2, <2>3, <2>4
<1> HIDE DEF entry, w
<1>6. /\ DOMAIN child' = DOMAIN child /\ child'[k] = entry
      /\ \A j \in DOMAIN child : j # k => child'[j] = child[j]
  BY <1>0, <1>1
<1>7. Rb!WorkerInv'
  BY <1>0, <1>1, <1>2, <1>6
  DEF Rb!WorkerInv, Rb!AboutToCreate, Rb!CarryChild, Rb!ProposalSteps, Rb!ChildSteps,
      Rb!StatusAt
<1>8. Rb!BudgetInv'
  <2> SUFFICES ASSUME NEW j \in DOMAIN child, j[1] = "budget"
               PROVE  /\ child'[j].executable
                      /\ child'[j].executions \in {<<>>, <<"executing">>, <<"completed">>}
                      /\ child'[j].status
                           \in {"recommended", "approved", "queued", "executing", "completed"}
                      /\ child'[j].status = "completed" => child'[j].executions = <<"completed">>
                      /\ worker'.pc = "budget" /\ j = k =>
                           IF worker'.i = 6 THEN child'[j].executions = <<"completed">>
                           ELSE child'[j].status # "completed"
    BY <1>0, <1>1, <1>6 DEF Rb!BudgetInv
  <2>1. CASE j = k
    <3>1. worker'.pc = "budget" =>
            (IF worker'.i = 6 THEN entry.executions = <<"completed">>
             ELSE entry.status # "completed")
      <4>1. worker'.pc = "budget" => worker.i \in 1..5
        BY <1>1, <1>2
      <4>2. worker'.pc = "budget" /\ worker'.i = 6 => worker.i = 5
        BY <1>2, <4>1
      <4>3. worker'.pc = "budget" /\ worker'.i # 6 => worker.i < 5
        BY <1>2, <4>1
      <4> QED BY <1>5, <4>2, <4>3
    <3> HIDE DEF k
    <3> QED BY <1>5, <1>6, <2>1, <3>1
  <2>2. CASE j # k
    BY <1>6, <2>2 DEF Rb!BudgetInv
  <2> QED BY <2>1, <2>2
<1>9. Rb!RowInv'
  BY <1>2 DEF Rb!RowInv
<1>10. Rb!ChildAppliedOnce'
  BY <1>0 DEF Rb!ChildAppliedOnce
<1>11. past' \in Rb!History
  BY <1>0 DEF Rb!TypeOK, Rb!History
<1> HIDE DEF k
<1> QED BY <1>0, <1>1, <1>2, <1>5, <1>6, <1>7, <1>8, <1>9, <1>10, <1>11, RowMoves

-----------------------------------------------------------------------------
(***************************************************************************)
(* executeCarryAction of a linked child.                                   *)
(***************************************************************************)
(* The worker at a carry child k. *)
LEMMA ChildHeld ==
  ASSUME Rb!BundleInv, NEW k, k = worker.of, worker.pc \in Rb!ChildSteps \/ Rb!Executable,
         k # Rb!Proposal
  PROVE  /\ Rb!CarryChild(k) /\ k \in DOMAIN child /\ k[1] = "carry" /\ child[k] \in Rb!Row
         /\ worker.pc # "idle"
<1>1. worker.pc # "idle"
  BY DEF Rb!ChildSteps, Rb!Executable
<1>2. Rb!CarryChild(k)
  BY <1>1 DEF Rb!BundleInv, Rb!WorkerInv, Rb!CommandInv
<1> QED BY <1>1, <1>2 DEF Rb!CarryChild, Rb!BundleInv, Rb!TypeOK

(* The target of a carry execution is a child. *)
LEMMA ChildIsNotProposal ==
  ASSUME Rb!BundleInv, worker.pc \in Rb!ChildSteps
  PROVE  worker.of # Rb!Proposal
BY TargetsDiffer DEF Rb!BundleInv, Rb!WorkerInv, Rb!CarryChild, Rb!TypeOK

(* What a step of the worker at k keeps, besides what is said of k.        *)
LEMMA ChildMoves ==
  ASSUME Rb!BundleInv, NEW k, k = worker.of, k # Rb!Proposal,
         worker.pc \in Rb!ChildSteps \/ Rb!Executable,
         DOMAIN child' = DOMAIN child, child'[k] \in Rb!Row,
         \A j \in DOMAIN child : j # k => child'[j] = child[j],
         UNCHANGED <<proposal, runs, bundle, recovery, command, session, requests>>,
         worker' \in Rb!Actor(Rb!WorkerSteps), worker'.of = worker.of, worker'.cmd = worker.cmd,
         worker'.rec = worker.rec, worker'.pc \in Rb!ChildSteps \cup {"sync", "fail_command"},
         worker'.pc = "sync" => worker'.next \in {"finish", "fail_command"},
         worker'.pc = "fail_command" => past'.lost # {},
         past' \in Rb!History,
         UNCHANGED <<past.contested, past.overtaken, past.thrown, past.died, past.rejected>>,
         past.unrecorded \subseteq past'.unrecorded,
         past'.reached \subseteq past.reached \cup {k},
         Rb!ChildAppliedOnce', Rb!CarryInv(k)'
  PROVE  Rb!BundleInv'
<1>1. /\ Rb!CarryChild(k) /\ k \in DOMAIN child /\ k[1] = "carry" /\ k[1] # "budget"
      /\ worker.pc # "idle"
  BY ChildHeld
<1>2. /\ worker'.pc \notin {"idle", "begin", "start", "finish", "mark_proposal", "create_carry",
                            "create_budget", "budget", "complete_proposal"}
      /\ worker'.pc # "fail_command" =>
           worker'.pc \notin {"idle", "begin", "start", "finish", "fail_command",
                              "recovery_completed", "recovery_failed", "mark_proposal"}
      /\ command[worker.cmd].status = "running" /\ "running" \in Rb!StatusAt(worker'.pc)
  <2>1. Rb!StatusAt(worker.pc) = {"running"}
    BY DEF Rb!ChildSteps, Rb!Executable, Rb!StatusAt
  <2>2. "running" \in Rb!StatusAt(worker'.pc)
    BY DEF Rb!ChildSteps, Rb!StatusAt
  <2>3. command[worker.cmd].status = "running"
    BY <1>1, <2>1 DEF Rb!BundleInv, Rb!WorkerInv
  <2> QED BY <2>2, <2>3 DEF Rb!ChildSteps
<1>3. Rb!WorkerInv'
  <2>1. Rb!AboutToCreate' => FALSE
    BY DEF Rb!AboutToCreate
  <2>2. worker'.pc \notin Rb!ProposalSteps
    BY <1>2 DEF Rb!ProposalSteps
  <2>3. Rb!CarryChild(k)'
    BY <1>1 DEF Rb!CarryChild
  <2> QED BY <1>1, <1>2, <2>1, <2>2, <2>3 DEF Rb!BundleInv, Rb!WorkerInv
<1>4. Rb!BudgetInv'
  BY <1>1, <1>2 DEF Rb!BundleInv, Rb!BudgetInv
<1>5. Rb!RowInv'
  BY <1>2 DEF Rb!RowInv
<1> QED BY <1>1, <1>2, <1>3, <1>4, <1>5, RowMoves

(* Past the checks, or about to leave them, the worker is the only one at  *)
(* an uncontested child.                                                   *)
LEMMA ChildSettles ==
  ASSUME Rb!BundleInv, NEW k, k = worker.of, worker.pc \in Rb!ChildSteps \ {"mark_child"},
         UNCHANGED <<command, session>>, worker'.of = worker.of,
         worker'.pc \notin {"begin", "start", "mark_child", "checks"},
         \/ child'[k].status = child[k].status
         \/ child'[k].status \in {"failed", "completed"} /\ worker'.pc \notin Rb!ChildSteps,
         child[k].progress => child'[k].progress, child'[k].progress \in BOOLEAN,
         UNCHANGED <<past.contested, past.overtaken, past.thrown, past.died>>,
         past.unrecorded \subseteq past'.unrecorded,
         k \in past'.reached => \/ k \in past.reached \cup past'.unrecorded
                                \/ /\ worker.pc = "checks" /\ child'[k].progress
                                   /\ child'[k].status = child[k].status
  PROVE  Rb!CarryInv(k)'
<1>1. /\ k \in DOMAIN child /\ k[1] = "carry" /\ worker.pc # "idle"
      /\ worker.pc \notin {"idle", "begin", "start", "mark_child"}
  BY ChildHeld, ChildIsNotProposal DEF Rb!ChildSteps
<1>2. Rb!CarryInv(k)
  BY <1>1 DEF Rb!BundleInv, Rb!ChildInv
<1>3. Rb!CommandsOf(k)' = Rb!CommandsOf(k) /\ Rb!Waiting(k)' = Rb!Waiting(k)
  BY DEF Rb!CommandsOf, Rb!Waiting
<1>4. worker.cmd \notin Rb!Waiting(k)
  BY <1>1, WorkerHolds
<1>5. ASSUME k \notin past.contested
      PROVE  /\ Rb!UncontestedInv(k) /\ child[k].status \in {"executing", "queued"}
             /\ \A s \in BundleSessions : ~Rb!Early(session[s], k)
  BY <1>2, <1>5 DEF Rb!CarryInv, Rb!UncontestedInv, Rb!WorkerIs, Rb!ChildSteps
<1>6. ASSUME k \notin past.contested PROVE Rb!UncontestedInv(k)'
  <2>1. \A s \in BundleSessions : session[s].of = k => session[s].pc # "approve"
    BY <1>5, <1>6 DEF Rb!Early
  <2> QED BY <1>3, <1>5, <1>6, <2>1 DEF Rb!UncontestedInv, Rb!WorkerIs
<1>7. ASSUME k \notin past.contested \cup past'.unrecorded PROVE Rb!ReachedInv(k)'
  <2> SUFFICES ASSUME k \in past'.reached PROVE Rb!ReachedInv(k)'
    BY DEF Rb!ReachedInv
  <2>1. CASE k \in past.reached
    <3>1. Rb!ReachedInv(k)
      BY <1>2, <1>7 DEF Rb!CarryInv
    <3> QED BY <1>3, <1>5, <1>7, <2>1, <3>1 DEF Rb!ReachedInv, Rb!WorkerIs, Rb!Armed
  <2>2. CASE worker.pc = "checks" /\ child'[k].progress /\ child'[k].status = child[k].status
    <3>1. child[k].status = "queued" => Rb!Waiting(k) = {}
      BY <1>5, <1>7, <2>2 DEF Rb!UncontestedInv, Rb!WorkerIs
    <3>2. ASSUME NEW s \in BundleSessions, session[s].of = k, session[s].pc = "queue"
          PROVE  Rb!Waiting(k) = {}
      <4>1. Rb!Waiting(k) \subseteq {session[s].cmd} /\ worker.cmd = session[s].cmd
        BY <1>5, <1>7, <2>2, <3>2 DEF Rb!UncontestedInv, Rb!WorkerIs
      <4> QED BY <1>4, <4>1
    <3> QED BY <1>3, <1>5, <1>7, <2>2, <3>1, <3>2 DEF Rb!ReachedInv, Rb!WorkerIs, Rb!Armed
  <2> QED BY <1>7, <2>1, <2>2
<1>8. child'[k].status = "queued" =>
        \/ Rb!Waiting(k)' # {}
        \/ \E c \in Rb!Excused' : command'[c].of = k
  BY <1>1, <1>2, <1>3 DEF Rb!CarryInv, Rb!WorkerIs, Rb!Excused
<1> QED BY <1>6, <1>7, <1>8 DEF Rb!CarryInv

(* The latest execution of a child is marked. *)
LEMMA LastIs ==
  ASSUME NEW c \in Rb!Row, NEW st \in {"completed", "failed"}
  PROVE  /\ Rb!LastExecution(c, st) \in Rb!Row /\ Rb!LastExecution(c, st).status = c.status
         /\ Rb!LastExecution(c, st).progress = c.progress
<1> DEFINE e == c.executions
           f == [e EXCEPT ![Len(e)] = st]
           S == {"executing", "completed", "failed"}
<1>1. e \in Seq(S)
  BY DEF Rb!Row
<1>2. f \in Seq(S)
  <2>1. CASE Len(e) \in DOMAIN e
    BY <1>1, <2>1, UpdatedTable
  <2>2. CASE Len(e) \notin DOMAIN e
    <3>1. f = e
      BY <1>1, <2>2
    <3> QED BY <1>1, <3>1
  <2> QED BY <2>1, <2>2
<1>3. Rb!LastExecution(c, st) = [c EXCEPT !.executions = f]
  BY DEF Rb!LastExecution
<1> HIDE DEF f
<1> QED BY <1>2, <1>3 DEF Rb!Row

(* The row of a child after its latest execution is marked. *)
LEMMA LastMarked ==
  ASSUME Rb!BundleInv, NEW k \in DOMAIN child, NEW st \in {"completed", "failed"},
         child' = [child EXCEPT ![k] = Rb!LastExecution(child[k], st)]
  PROVE  /\ DOMAIN child' = DOMAIN child /\ child'[k] \in Rb!Row
         /\ \A j \in DOMAIN child : j # k => child'[j] = child[j]
         /\ child'[k].status = child[k].status /\ child'[k].progress = child[k].progress
         /\ child'[k].progress \in BOOLEAN
<1>1. child[k] \in Rb!Row
  BY DEF Rb!BundleInv, Rb!TypeOK
<1>2. /\ Rb!LastExecution(child[k], st) \in Rb!Row
      /\ Rb!LastExecution(child[k], st).status = child[k].status
      /\ Rb!LastExecution(child[k], st).progress = child[k].progress
  BY <1>1, LastIs
<1>3. child[k].progress \in BOOLEAN
  BY <1>1 DEF Rb!Row
<1> QED BY <1>2, <1>3

(* The latest execution of the child at hand is marked. *)
LEMMA ExecutionMarked ==
  ASSUME Rb!BundleInv, NEW k, k = worker.of, worker.pc \in {"checks", "placed"},
         NEW st \in {"completed", "failed"},
         child' = [child EXCEPT ![k] = Rb!LastExecution(child[k], st)],
         NEW next \in {"fail_child", "fail_child_unsynced", "complete_child"}, Rb!WorkerAt(next),
         UNCHANGED <<proposal, runs, bundle, recovery, command, session, requests, past>>
  PROVE  Rb!BundleInv'
<1>1. worker.pc \in Rb!ChildSteps /\ worker.pc # "mark_child"
  BY DEF Rb!ChildSteps
<1>2. k # Rb!Proposal /\ k \in DOMAIN child
  BY <1>1, ChildHeld, ChildIsNotProposal
<1>3. /\ DOMAIN child' = DOMAIN child /\ child'[k] \in Rb!Row
      /\ \A j \in DOMAIN child : j # k => child'[j] = child[j]
      /\ child'[k].status = child[k].status /\ child'[k].progress = child[k].progress
      /\ child'[k].progress \in BOOLEAN
  BY <1>2, LastMarked
<1>4. /\ next \in Rb!WorkerSteps /\ next \in Rb!ChildSteps
      /\ next \notin {"begin", "start", "mark_child", "checks"}
  BY DEF Rb!WorkerSteps, Rb!ChildSteps
<1>5. /\ worker' \in Rb!Actor(Rb!WorkerSteps) /\ worker'.pc = next /\ worker'.of = worker.of
      /\ worker'.cmd = worker.cmd /\ worker'.rec = worker.rec
  BY <1>4, WorkerMoves DEF Rb!BundleInv
<1>6. Rb!CarryInv(k)'
  BY <1>1, <1>3, <1>4, <1>5, ChildSettles
<1>7. past' \in Rb!History /\ Rb!ChildAppliedOnce'
  BY DEF Rb!BundleInv, Rb!TypeOK, Rb!History, Rb!ChildAppliedOnce
<1>8. worker'.pc \notin {"sync", "fail_command"}
  BY <1>5
<1> QED BY <1>1, <1>2, <1>3, <1>4, <1>5, <1>6, <1>7, <1>8, ChildMoves

(* An execution of the child is created. *)
LEMMA ChildStarted ==
  ASSUME Rb!BundleInv, NEW k, k = worker.of, Rb!StartChild
  PROVE  Rb!BundleInv'
<1>0. /\ Rb!Executable /\ k # Rb!Proposal
      /\ child' = [child EXCEPT ![k].executions = Append(child[k].executions, "executing")]
      /\ Rb!WorkerAt("mark_child")
      /\ UNCHANGED <<proposal, runs, bundle, recovery, command, session, requests, past>>
  BY DEF Rb!StartChild, Rb!Kid
<1>1. /\ k \in DOMAIN child /\ k[1] = "carry" /\ child[k] \in Rb!Row
  BY <1>0, ChildHeld
<1>2. worker.pc = "start" /\ Rb!Armed(k)
  BY <1>0 DEF Rb!Executable, Rb!StatusOf, Rb!Armed
<1> DEFINE x == Append(child[k].executions, "executing")
<1>3. /\ x \in Seq({"executing", "completed", "failed"})
      /\ Rb!SeqHas(x, "failed") => Rb!SeqHas(child[k].executions, "failed")
  <2>1. child[k].executions \in Seq({"executing", "completed", "failed"})
    BY <1>1 DEF Rb!Row
  <2>2. Extended(child[k].executions, x, "executing")
        /\ x \in Seq({"executing", "completed", "failed"})
    BY <2>1, ExtendedTable
  <2> HIDE DEF x
  <2> QED BY <2>2 DEF Extended, Rb!SeqHas
<1> HIDE DEF x
<1>4. /\ DOMAIN child' = DOMAIN child /\ child'[k] \in Rb!Row
      /\ \A j \in DOMAIN child : j # k => child'[j] = child[j]
      /\ child'[k].status = child[k].status /\ child'[k].executions = x
  <2>1. child' = [child EXCEPT ![k] = [child[k] EXCEPT !.executions = x]]
    BY <1>0 DEF x
  <2> QED BY <1>1, <1>3, <2>1 DEF Rb!Row
<1>5. /\ worker' \in Rb!Actor(Rb!WorkerSteps) /\ worker'.pc = "mark_child" /\ worker'.of = worker.of
      /\ worker'.cmd = worker.cmd /\ worker'.rec = worker.rec
  <2>1. "mark_child" \in Rb!WorkerSteps
    BY DEF Rb!WorkerSteps
  <2> QED BY <1>0, <2>1, WorkerMoves DEF Rb!BundleInv
<1>6. Rb!CarryInv(k)'
  <2>1. Rb!CarryInv(k)
    BY <1>1 DEF Rb!BundleInv, Rb!ChildInv
  <2>2. Rb!CommandsOf(k)' = Rb!CommandsOf(k) /\ Rb!Waiting(k)' = Rb!Waiting(k)
    BY <1>0 DEF Rb!CommandsOf, Rb!Waiting
  <2>3. ASSUME k \notin past.contested PROVE Rb!UncontestedInv(k)'
    <3>1. Rb!UncontestedInv(k)
      BY <2>1, <2>3 DEF Rb!CarryInv
    <3>a. Rb!WorkerIs(k, {"begin", "start"})
      BY <1>2 DEF Rb!WorkerIs
    <3>2. ASSUME NEW s \in BundleSessions, Rb!Early(session[s], k) PROVE FALSE
      <4>1. Rb!Armed(k) => ~Rb!WorkerIs(k, {"begin", "start"})
        BY <3>1, <3>2 DEF Rb!UncontestedInv
      <4> QED BY <1>2, <3>a, <4>1
    <3>3. \A s \in BundleSessions : session[s].of = k => session[s].pc # "approve"
      BY <3>2 DEF Rb!Early
    <3> QED BY <1>0, <1>2, <1>3, <1>4, <1>5, <2>2, <3>1, <3>2, <3>3
            DEF Rb!UncontestedInv, Rb!WorkerIs, Rb!Armed, Rb!ChildSteps
  <2>4. ASSUME k \notin past.contested \cup past.unrecorded PROVE Rb!ReachedInv(k)'
    <3>1. Rb!ReachedInv(k)
      BY <2>1, <2>4 DEF Rb!CarryInv
    <3>2. k \notin past.reached
      BY <1>2, <3>1 DEF Rb!ReachedInv, Rb!WorkerIs
    <3> QED BY <1>0, <3>2 DEF Rb!ReachedInv
  <2> QED BY <1>0, <1>5, <2>3, <2>4 DEF Rb!CarryInv, Rb!WorkerIs
<1>7. past' \in Rb!History /\ Rb!ChildAppliedOnce'
  BY <1>0 DEF Rb!BundleInv, Rb!TypeOK, Rb!History, Rb!ChildAppliedOnce
<1>8. worker'.pc \in Rb!ChildSteps /\ worker'.pc \notin {"sync", "fail_command"}
  BY <1>5 DEF Rb!ChildSteps
<1> QED BY <1>0, <1>1, <1>4, <1>5, <1>6, <1>7, <1>8, ChildMoves

(* The child is marked executing. *)
LEMMA ChildMarked ==
  ASSUME Rb!BundleInv, NEW k, k = worker.of, Rb!MarkChild
  PROVE  Rb!BundleInv'
<1>0. /\ worker.pc = "mark_child" /\ Rb!SetChild(k, "executing") /\ Rb!WorkerAt("checks")
      /\ UNCHANGED <<proposal, runs, bundle, recovery, command, session, requests, past>>
  BY DEF Rb!MarkChild, Rb!Kid
<1>1. worker.pc \in Rb!ChildSteps /\ k # Rb!Proposal
  BY <1>0, ChildIsNotProposal DEF Rb!ChildSteps
<1>2. /\ k \in DOMAIN child /\ k[1] = "carry" /\ "executing" \in Rb!ActionStatuses
  BY <1>1, ChildHeld DEF Rb!ActionStatuses
<1>3. /\ DOMAIN child' = DOMAIN child /\ child'[k] \in Rb!Row
      /\ \A j \in DOMAIN child : j # k => child'[j] = child[j]
      /\ child'[k].status = "executing"
  BY <1>0, <1>2, ChildWritten DEF Rb!BundleInv
<1>4. /\ worker' \in Rb!Actor(Rb!WorkerSteps) /\ worker'.pc = "checks" /\ worker'.of = worker.of
      /\ worker'.cmd = worker.cmd /\ worker'.rec = worker.rec
  <2>1. "checks" \in Rb!WorkerSteps
    BY DEF Rb!WorkerSteps
  <2> QED BY <1>0, <2>1, WorkerMoves DEF Rb!BundleInv
<1>5. Rb!CarryInv(k)'
  <2>1. Rb!CarryInv(k)
    BY <1>2 DEF Rb!BundleInv, Rb!ChildInv
  <2>2. Rb!CommandsOf(k)' = Rb!CommandsOf(k) /\ Rb!Waiting(k)' = Rb!Waiting(k)
    BY <1>0 DEF Rb!CommandsOf, Rb!Waiting
  <2>3. ASSUME k \notin past.contested PROVE Rb!UncontestedInv(k)'
    <3>1. Rb!UncontestedInv(k)
      BY <2>1, <2>3 DEF Rb!CarryInv
    <3>2. \A s \in BundleSessions : ~Rb!Early(session[s], k)
      BY <1>0, <3>1 DEF Rb!UncontestedInv, Rb!WorkerIs
    <3>3. \A s \in BundleSessions : session[s].of = k => session[s].pc # "approve"
      BY <3>2 DEF Rb!Early
    <3>4. Rb!Armed(k)
      BY <1>0, <3>1 DEF Rb!UncontestedInv, Rb!WorkerIs
    <3> QED BY <1>0, <1>3, <1>4, <2>2, <3>1, <3>2, <3>3, <3>4
            DEF Rb!UncontestedInv, Rb!WorkerIs, Rb!Armed, Rb!ChildSteps
  <2>4. ASSUME k \notin past.contested \cup past.unrecorded PROVE Rb!ReachedInv(k)'
    <3>1. Rb!ReachedInv(k)
      BY <2>1, <2>4 DEF Rb!CarryInv
    <3>2. k \notin past.reached
      BY <1>0, <3>1 DEF Rb!ReachedInv, Rb!WorkerIs
    <3> QED BY <1>0, <3>2 DEF Rb!ReachedInv
  <2> QED BY <1>0, <1>3, <2>3, <2>4 DEF Rb!CarryInv
<1>6. past' \in Rb!History /\ Rb!ChildAppliedOnce'
  BY <1>0 DEF Rb!BundleInv, Rb!TypeOK, Rb!History, Rb!ChildAppliedOnce
<1>7. worker'.pc \in Rb!ChildSteps /\ worker'.pc \notin {"sync", "fail_command"}
  BY <1>4 DEF Rb!ChildSteps
<1> QED BY <1>0, <1>1, <1>2, <1>3, <1>4, <1>5, <1>6, <1>7, ChildMoves

(* The history of an execution that reaches a venue at the checks.         *)
LEMMA VenueReached ==
  ASSUME Rb!BundleInv, NEW k, k = worker.of, worker.pc = "checks",
         UNCHANGED past.contested,
         past.unrecorded \subseteq past'.unrecorded,
         past'.twice = IF k \in past.reached THEN past.twice \cup {k} ELSE past.twice
  PROVE  Rb!ChildAppliedOnce'
<1>1. k \in DOMAIN child /\ k[1] = "carry"
  BY ChildHeld, ChildIsNotProposal DEF Rb!ChildSteps
<1>2. Rb!CarryInv(k)
  BY <1>1 DEF Rb!BundleInv, Rb!ChildInv
<1>3. k \in past.reached => k \in past.contested \cup past.unrecorded
  BY <1>2 DEF Rb!CarryInv, Rb!ReachedInv, Rb!WorkerIs
<1> QED BY <1>3 DEF Rb!BundleInv, Rb!ChildAppliedOnce

(* An order is placed and its step row shows it. *)
LEMMA OrdersPlaced ==
  ASSUME Rb!BundleInv, NEW k, k = worker.of, Rb!PlaceOrders
  PROVE  Rb!BundleInv'
<1>0. /\ worker.pc = "checks" /\ child' = [child EXCEPT ![k].progress = TRUE]
      /\ Rb!WorkerAt("placed")
      /\ past' = [past EXCEPT !.reached = past.reached \cup {k},
                              !.twice = IF k \in past.reached THEN past.twice \cup {k}
                                        ELSE past.twice]
      /\ UNCHANGED <<proposal, runs, bundle, recovery, command, session, requests>>
  BY DEF Rb!PlaceOrders, Rb!Kid, Rb!Reached
<1>1. worker.pc \in Rb!ChildSteps \ {"mark_child"} /\ worker.pc \in Rb!ChildSteps /\ k # Rb!Proposal
  BY <1>0, ChildIsNotProposal DEF Rb!ChildSteps
<1>2. k \in DOMAIN child /\ child[k] \in Rb!Row /\ k \in Rb!Targets
  BY <1>1, ChildHeld, TargetsDiffer DEF Rb!BundleInv, Rb!TypeOK
<1>3. /\ DOMAIN child' = DOMAIN child /\ child'[k] \in Rb!Row
      /\ \A j \in DOMAIN child : j # k => child'[j] = child[j]
      /\ child'[k].status = child[k].status /\ child'[k].progress
      /\ child'[k].progress \in BOOLEAN
  <2>1. child' = [child EXCEPT ![k] = [child[k] EXCEPT !.progress = TRUE]]
    BY <1>0
  <2> QED BY <1>2, <2>1 DEF Rb!Row
<1>4. /\ worker' \in Rb!Actor(Rb!WorkerSteps) /\ worker'.pc = "placed" /\ worker'.of = worker.of
      /\ worker'.cmd = worker.cmd /\ worker'.rec = worker.rec
  <2>1. "placed" \in Rb!WorkerSteps
    BY DEF Rb!WorkerSteps
  <2> QED BY <1>0, <2>1, WorkerMoves DEF Rb!BundleInv
<1>5. /\ past' \in Rb!History /\ past'.reached = past.reached \cup {k}
      /\ past'.twice = IF k \in past.reached THEN past.twice \cup {k} ELSE past.twice
      /\ UNCHANGED <<past.contested, past.overtaken, past.thrown, past.died, past.rejected,
                     past.unrecorded>>
  <2>1. past \in Rb!History
    BY DEF Rb!BundleInv, Rb!TypeOK
  <2> QED BY <1>0, <1>2, <2>1 DEF Rb!History
<1>6. Rb!ChildAppliedOnce'
  BY <1>0, <1>5, VenueReached
<1>7. Rb!CarryInv(k)'
  BY <1>0, <1>1, <1>3, <1>4, <1>5, ChildSettles
<1>8. worker'.pc \in Rb!ChildSteps /\ worker'.pc \notin {"sync", "fail_command"}
  BY <1>4 DEF Rb!ChildSteps
<1> QED BY <1>0, <1>1, <1>3, <1>4, <1>5, <1>6, <1>7, <1>8, ChildMoves

(* An order is placed and no row shows it. *)
LEMMA OrderUnrecorded ==
  ASSUME Rb!BundleInv, NEW k, k = worker.of, Rb!PlaceUnrecorded
  PROVE  Rb!BundleInv'
<1>0. /\ worker.pc = "checks" /\ child' = [child EXCEPT ![k] = Rb!LastExecution(child[k], "failed")]
      /\ Rb!WorkerAt("fail_child")
      /\ past' = [[past EXCEPT !.reached = past.reached \cup {k},
                               !.twice = IF k \in past.reached THEN past.twice \cup {k}
                                         ELSE past.twice]
                  EXCEPT !.faults = @ + 1, !.unrecorded = @ \cup {k}]
      /\ UNCHANGED <<proposal, runs, bundle, recovery, command, session, requests>>
  BY DEF Rb!PlaceUnrecorded, Rb!Kid, Rb!Reached
<1>1. worker.pc \in Rb!ChildSteps \ {"mark_child"} /\ worker.pc \in Rb!ChildSteps /\ k # Rb!Proposal
  BY <1>0, ChildIsNotProposal DEF Rb!ChildSteps
<1>2. k \in DOMAIN child /\ k \in Rb!Targets
  BY <1>1, ChildHeld, TargetsDiffer DEF Rb!BundleInv, Rb!TypeOK
<1>3. /\ DOMAIN child' = DOMAIN child /\ child'[k] \in Rb!Row
      /\ \A j \in DOMAIN child : j # k => child'[j] = child[j]
      /\ child'[k].status = child[k].status /\ child'[k].progress = child[k].progress
      /\ child'[k].progress \in BOOLEAN
  BY <1>0, <1>2, LastMarked
<1>4. /\ worker' \in Rb!Actor(Rb!WorkerSteps) /\ worker'.pc = "fail_child" /\ worker'.of = worker.of
      /\ worker'.cmd = worker.cmd /\ worker'.rec = worker.rec
  <2>1. "fail_child" \in Rb!WorkerSteps
    BY DEF Rb!WorkerSteps
  <2> QED BY <1>0, <2>1, WorkerMoves DEF Rb!BundleInv
<1>5. /\ past' \in Rb!History /\ past'.reached = past.reached \cup {k}
      /\ past'.twice = IF k \in past.reached THEN past.twice \cup {k} ELSE past.twice
      /\ UNCHANGED <<past.contested, past.overtaken, past.thrown, past.died, past.rejected>>
      /\ past'.unrecorded = past.unrecorded \cup {k}
  <2> DEFINE v == IF k \in past.reached THEN past.twice \cup {k} ELSE past.twice
             r == past.reached \cup {k}
             u == past.unrecorded \cup {k}
             n == past.faults + 1
  <2>1. past \in Rb!History
    BY DEF Rb!BundleInv, Rb!TypeOK
  <2>2. /\ n \in Nat
        /\ r \in SUBSET Rb!Targets /\ v \in SUBSET Rb!Targets /\ u \in SUBSET Rb!Targets
    BY <1>2, <2>1 DEF Rb!History
  <2>3. past' = [past EXCEPT !.reached = r, !.twice = v, !.faults = n, !.unrecorded = u]
    BY <1>0, <2>1 DEF Rb!History
  <2> HIDE DEF v, r, u, n
  <2>4. /\ past' \in Rb!History /\ past'.reached = r /\ past'.twice = v
        /\ UNCHANGED <<past.contested, past.overtaken, past.thrown, past.died, past.rejected>>
        /\ past'.unrecorded = u
    BY <2>1, <2>2, <2>3 DEF Rb!History
  <2> QED BY <2>2, <2>4 DEF v, r, u, n
<1>6. Rb!ChildAppliedOnce'
  BY <1>0, <1>5, VenueReached
<1>8. Rb!CarryInv(k)'
  BY <1>0, <1>1, <1>3, <1>4, <1>5, ChildSettles
<1>9. worker'.pc \in Rb!ChildSteps /\ worker'.pc \notin {"sync", "fail_command"}
  BY <1>4 DEF Rb!ChildSteps
<1> QED BY <1>0, <1>1, <1>3, <1>4, <1>5, <1>6, <1>8, <1>9, ChildMoves

(* The end of an execution: the child is marked failed or completed, and   *)
(* the bundle is synced unless a guardrail has refused.                    *)
LEMMA ChildEnded ==
  ASSUME Rb!BundleInv, NEW k, k = worker.of,
         worker.pc \in {"fail_child", "fail_child_unsynced", "complete_child"},
         NEW st \in {"failed", "completed"}, Rb!SetChild(k, st),
         UNCHANGED <<proposal, runs, bundle, recovery, command, session, requests>>,
         \/ /\ worker' = Rb!Synced(worker, "fail_command") \/ worker' = Rb!Synced(worker, "finish")
            /\ UNCHANGED past
         \/ /\ Rb!WorkerAt("fail_command")
            /\ past' = [past EXCEPT !.lost = past.lost \cup {"guardrail"}]
  PROVE  Rb!BundleInv'
<1>1. worker.pc \in Rb!ChildSteps \ {"mark_child"} /\ worker.pc \in Rb!ChildSteps /\ k # Rb!Proposal
  BY ChildIsNotProposal DEF Rb!ChildSteps
<1>2. k \in DOMAIN child /\ st \in Rb!ActionStatuses /\ child[k].progress \in BOOLEAN
  BY <1>1, ChildHeld DEF Rb!ActionStatuses, Rb!Row
<1>3. /\ DOMAIN child' = DOMAIN child /\ child'[k] \in Rb!Row
      /\ \A j \in DOMAIN child : j # k => child'[j] = child[j]
      /\ child'[k].status = st /\ child'[k].progress = child[k].progress
  BY <1>2, ChildWritten DEF Rb!BundleInv
<1>4. /\ worker' \in Rb!Actor(Rb!WorkerSteps) /\ worker'.pc \in {"sync", "fail_command"}
      /\ worker'.of = worker.of /\ worker'.cmd = worker.cmd /\ worker'.rec = worker.rec
      /\ worker'.pc = "sync" => worker'.next \in {"finish", "fail_command"}
      /\ worker'.pc = "fail_command" => past' = [past EXCEPT !.lost = past.lost \cup {"guardrail"}]
  <2>1. "fail_command" \in Rb!WorkerSteps /\ "finish" \in Rb!WorkerSteps
    BY DEF Rb!WorkerSteps
  <2>2. CASE Rb!WorkerAt("fail_command")
             /\ past' = [past EXCEPT !.lost = past.lost \cup {"guardrail"}]
    BY <2>1, <2>2, WorkerMoves DEF Rb!BundleInv
  <2>3. CASE worker' = Rb!Synced(worker, "fail_command") \/ worker' = Rb!Synced(worker, "finish")
    BY <2>1, <2>3, WorkerSyncs DEF Rb!BundleInv
  <2> QED BY <2>2, <2>3
<1>5. /\ past' \in Rb!History
      /\ UNCHANGED <<past.contested, past.overtaken, past.thrown, past.died, past.rejected,
                     past.unrecorded, past.reached, past.twice>>
      /\ worker'.pc = "fail_command" => past'.lost # {}
  <2>1. past \in Rb!History
    BY DEF Rb!BundleInv, Rb!TypeOK
  <2> QED BY <1>4, <2>1 DEF Rb!History
<1>6. Rb!ChildAppliedOnce'
  BY <1>5 DEF Rb!BundleInv, Rb!ChildAppliedOnce
<1>7. worker'.pc \notin Rb!ChildSteps \cup {"begin", "start", "mark_child", "checks"}
  BY <1>4 DEF Rb!ChildSteps
<1>8. Rb!CarryInv(k)'
  BY <1>1, <1>2, <1>3, <1>4, <1>5, <1>7, ChildSettles
<1> QED BY <1>1, <1>2, <1>3, <1>4, <1>5, <1>6, <1>7, <1>8, ChildMoves

-----------------------------------------------------------------------------
(***************************************************************************)
(* The invariant, and what it says.                                        *)
(***************************************************************************)
(* Every step keeps the invariant. *)
LEMMA BundleStep ==
  ASSUME Rb!BundleInv, [Rb!Next]_Rb!vars
  PROVE  Rb!BundleInv'
<1>1. ASSUME NEW s \in BundleSessions, Rb!SessionStep(s) PROVE Rb!BundleInv'
  BY <1>1, SessionSynced, BundleRead, ApprovalRead, RecoveryRead, ApprovalWritten,
     CommandInserted, QueueWritten, RejectionRead, RejectionWritten, RecoveryRefused,
     RecoveryStarted, ChildReread, RecoveryIsQueued, RecoveryHasThrown
  DEF Rb!SessionStep
<1>2. ASSUME Rb!WorkerStep PROVE Rb!BundleInv'
  <2> PICK k : k = worker.of
    OBVIOUS
  <2>1. CASE \/ \E c \in DOMAIN command : Rb!TakeCommand(c)
             \/ Rb!NotExecutable \/ Rb!WorkerSync \/ Rb!NoBudget \/ Rb!Abandon \/ Rb!Crash
    BY <2>1, CommandTaken, NotExecuted, WorkerSynced, BudgetSkipped, Abandoned, Crashed
  <2>2. CASE \/ Rb!BeginCommand \/ Rb!FinishCommand \/ Rb!FailCommand
             \/ Rb!FinishRecovery \/ Rb!FailRecovery
    <3>1. /\ Rb!StatusAt("recovery_completed") = {"completed"}
          /\ Rb!StatusAt("recovery_failed") = {"failed"}
      BY DEF Rb!StatusAt
    <3>2. CASE Rb!BeginCommand \/ Rb!FinishCommand \/ Rb!FailCommand
      BY <3>1, <3>2, CommandBegun, CommandEnded DEF Rb!FinishCommand, Rb!FailCommand
    <3>3. CASE Rb!FinishRecovery
      BY <3>1, <3>3, RecoveryEnded DEF Rb!FinishRecovery, Rb!WorkerIs
    <3>4. CASE Rb!FailRecovery
      BY <3>1, <3>4, RecoveryEnded DEF Rb!FailRecovery, Rb!WorkerIs
    <3> QED BY <2>2, <3>2, <3>3, <3>4
  <2>3. CASE Rb!StartProposal \/ Rb!CreateCarry \/ Rb!CreateBudget \/ Rb!BudgetStep
    BY <2>3, ProposalStarted, CarryCreated, BudgetCreated, BudgetMoves
  <2>4. CASE Rb!MarkProposal
    BY <2>4, ProposalMarked DEF Rb!MarkProposal
  <2>5. CASE Rb!CompleteProposal
    BY <2>5, ProposalMarked DEF Rb!CompleteProposal
  <2>6. CASE Rb!StartChild \/ Rb!MarkChild \/ Rb!PlaceOrders \/ Rb!PlaceUnrecorded
    BY <2>6, ChildStarted, ChildMarked, OrdersPlaced, OrderUnrecorded
  <2>7. CASE Rb!ConnectorRefuses
    BY <2>7, ExecutionMarked DEF Rb!ConnectorRefuses, Rb!ExecutionFails, Rb!Kid
  <2>8. CASE Rb!GuardrailRefuses
    BY <2>8, ExecutionMarked DEF Rb!GuardrailRefuses, Rb!ExecutionFails, Rb!Kid
  <2>9. CASE Rb!LaterOrderFails
    BY <2>9, ExecutionMarked DEF Rb!LaterOrderFails, Rb!ExecutionFails, Rb!Kid
  <2>10. CASE Rb!ExecutionCompletes
    BY <2>10, ExecutionMarked DEF Rb!ExecutionCompletes, Rb!Kid
  <2>11. CASE Rb!FailChild
    BY <2>11, ChildEnded DEF Rb!FailChild, Rb!Kid
  <2>12. CASE Rb!FailChildUnsynced
    BY <2>12, ChildEnded DEF Rb!FailChildUnsynced, Rb!Kid
  <2>13. CASE Rb!CompleteChild
    BY <2>13, ChildEnded DEF Rb!CompleteChild, Rb!Kid
  <2> QED BY <1>2, <2>1, <2>2, <2>3, <2>4, <2>5, <2>6, <2>7, <2>8, <2>9, <2>10, <2>11, <2>12,
             <2>13 DEF Rb!WorkerStep
<1>3. ASSUME UNCHANGED Rb!vars PROVE Rb!BundleInv'
  <2>1. UNCHANGED <<proposal, runs, child, bundle, recovery, command, session, worker, requests,
                    past>>
    BY <1>3 DEF Rb!vars
  <2>2. /\ Rb!TypeOK' /\ Rb!SessionInv' /\ Rb!CommandInv' /\ Rb!WorkerInv' /\ Rb!HistoryInv'
        /\ Rb!BudgetInv' /\ Rb!RowInv'
    BY <2>1
    DEF Rb!BundleInv, Rb!TypeOK, Rb!SessionInv, Rb!CommandInv, Rb!WorkerInv, Rb!HistoryInv,
        Rb!BudgetInv,
        Rb!RowInv, Rb!CarryChild, Rb!Requeueing, Rb!AboutToCreate, Rb!Excused
  <2>3. PastKept /\ TablesInv' /\ RequestsKept'
    BY <2>1, PastSame, TablesKept, RecoveryKept
  <2>4. ASSUME NEW x
        PROVE  Rb!CommandsOf(x)' = Rb!CommandsOf(x) /\ Rb!Waiting(x)' = Rb!Waiting(x)
    BY <2>1 DEF Rb!CommandsOf, Rb!Waiting
  <2>5. Rb!ProposalInv'
    BY <2>1, <2>4, ProposalKept
  <2>6. Rb!ChildInv'
    <3>1. SameTask /\ Rb!Excused' = Rb!Excused
      BY <2>1 DEF SameTask, Rb!Excused
    <3> QED BY <2>1, <2>4, <3>1, CarryKept DEF Rb!ChildInv
  <2> QED BY <2>2, <2>3, <2>5, <2>6 DEF Rb!BundleInv, TablesInv, RequestsKept
<1> QED BY <1>1, <1>2, <1>3 DEF Rb!Next

(* The invariant holds of a proposal just made and of executed ones. *)
LEMMA BundleInit == Rb!Init => Rb!BundleInv
<1> SUFFICES ASSUME Rb!Init PROVE Rb!BundleInv
  OBVIOUS
<1>0. /\ bundle = Rb!Snapshot(proposal, child) /\ recovery = <<>> /\ command = <<>>
      /\ session = [s \in BundleSessions |-> Rb!IdleActor] /\ worker = Rb!IdleActor /\ requests = 0
      /\ past = [contested |-> {}, overtaken |-> {}, unrecorded |-> {}, lost |-> {},
                 rejected |-> FALSE, reached |-> {}, twice |-> {}, thrown |-> {}, died |-> {},
                 faults |-> 0]
  BY DEF Rb!Init
<1> DEFINE Rows ==
             /\ proposal \in {"proposed", "completed"} /\ runs \in {0, 1}
             /\ proposal = "proposed" => runs = 0
             /\ DOMAIN child \subseteq Rb!Children
             /\ \A k \in DOMAIN child :
                  /\ child[k] \in Rb!Row /\ k[2] <= runs
                  /\ k[1] = "carry" =>
                       \/ child[k].status = "recommended" /\ child[k].executions = <<>>
                       \/ child[k].status = "failed"
                  /\ k[1] = "budget" => /\ child[k].status = "completed" /\ child[k].executable
                                        /\ child[k].executions = <<"completed">>
<1>1. ASSUME Rb!Fresh PROVE Rows
  BY <1>1 DEF Rb!Fresh
<1>2. ASSUME NEW st \in {"recommended", "failed"}, NEW ex \in {<<>>, <<"failed">>},
             st = "recommended" => ex = <<>>, Rb!Executed(st, ex)
      PROVE  Rows
  <2> DEFINE c == <<"carry", 1>>
             b == <<"budget", 1>>
             x == Rb!ChildRow("carry", st, ex, TRUE)
             y == Rb!ChildRow("budget", "completed", <<"completed">>, TRUE)
  <2>1. /\ proposal = "completed" /\ runs = 1
        /\ child = [k \in {c, b} |-> IF k[1] = "carry" THEN x ELSE y]
    BY <1>2 DEF Rb!Executed
  <2>2. /\ x \in Rb!Row /\ x.status = st /\ x.executions = ex
        /\ y \in Rb!Row /\ y.status = "completed" /\ y.executions = <<"completed">> /\ y.executable
    <3>1. ex \in Seq({"executing", "completed", "failed"})
      <4>1. CASE ex = <<>>
        BY <4>1
      <4>2. CASE ex = <<"failed">>
        BY <4>2
      <4> QED BY <4>1, <4>2
    <3>2. <<"completed">> \in Seq({"executing", "completed", "failed"})
      OBVIOUS
    <3> QED BY <3>1, <3>2 DEF Rb!ChildRow, Rb!Row, Rb!ActionStatuses
  <2>3. {c, b} \subseteq Rb!Children /\ \A k \in {c, b} : k[2] = 1 /\ k[1] \in {"carry", "budget"}
    BY DEF Rb!Children
  <2> HIDE DEF x, y, c, b
  <2>4. DOMAIN child = {c, b} /\ \A k \in {c, b} : child[k] = IF k[1] = "carry" THEN x ELSE y
    BY <2>1
  <2> QED BY <1>2, <2>1, <2>2, <2>3, <2>4
<1> HIDE DEF Rows
<1>3. Rows
  <2>1. Rb!Fresh \/ Rb!Executed("recommended", <<>>) \/ Rb!Executed("failed", <<"failed">>)
    BY DEF Rb!Init
  <2> QED BY <1>1, <1>2, <2>1
<1>4. /\ past \in Rb!History /\ past.contested = {} /\ Rb!Excused = {} /\ past.reached = {}
      /\ past.twice = {} /\ ~past.rejected
  BY <1>0 DEF Rb!History, Rb!Excused
<1>5. Rb!TypeOK
  <2>1. bundle \in Rb!View /\ recovery \in Seq(Rb!Recovery) /\ command \in Seq(Rb!Command)
    BY <1>0, SnapshotTypes
  <2>2. /\ session \in [BundleSessions -> Rb!Actor(Rb!SessionSteps)]
        /\ worker \in Rb!Actor(Rb!WorkerSteps)
    BY <1>0, IdleIs
  <2> QED BY <1>0, <1>3, <1>4, <2>1, <2>2 DEF Rb!TypeOK, Rows
<1>6. Rb!SessionInv /\ Rb!CommandInv /\ Rb!HistoryInv
  BY <1>0, <1>4, IdleIs
  DEF Rb!SessionInv, Rb!CommandInv, Rb!HistoryInv, Rb!CarryChild, Rb!Requeueing
<1>7. Rb!WorkerInv /\ Rb!BudgetInv
  BY <1>0, <1>3, IdleIs
  DEF Rb!WorkerInv, Rb!BudgetInv, Rb!AboutToCreate, Rb!ProposalSteps, Rb!ChildSteps,
      Rb!CarryChild, Rows
<1>8. Rb!RowInv
  BY <1>0 DEF Rb!RowInv
<1>9. ASSUME NEW x PROVE Rb!CommandsOf(x) = {} /\ Rb!Waiting(x) = {}
  BY <1>0 DEF Rb!CommandsOf, Rb!Waiting
<1>10. Rb!ProposalInv
  BY <1>0, <1>3, <1>4, <1>9, IdleIs, TargetsDiffer DEF Rb!ProposalInv, Rb!WorkerIs, Rows
<1>11. Rb!ChildInv
  <2> SUFFICES ASSUME NEW k \in DOMAIN child, k[1] = "carry" PROVE Rb!CarryInv(k)
    BY DEF Rb!ChildInv
  <2>1. k # Rb!NoTarget /\ \A s \in BundleSessions : session[s].of = Rb!NoTarget
    BY <1>0, <1>3, IdleIs, TargetsDiffer DEF Rows
  <2>2. Rb!UncontestedInv(k)
    BY <1>0, <1>3, <1>4, <1>9, <2>1, IdleIs
    DEF Rb!UncontestedInv, Rb!Early, Rb!WorkerIs, Rb!Armed, Rb!ChildSteps, Rows
  <2> QED BY <1>3, <1>4, <2>2 DEF Rb!CarryInv, Rb!ReachedInv, Rows
<1>12. Rb!ChildAppliedOnce /\ Rb!BudgetNeverRequeued /\ Rb!RecoveryFollowsCommand
  BY <1>0, <1>4 DEF Rb!ChildAppliedOnce, Rb!BudgetNeverRequeued, Rb!RecoveryFollowsCommand
<1> QED BY <1>5, <1>6, <1>7, <1>8, <1>10, <1>11, <1>12 DEF Rb!BundleInv

(* What the invariant promises. *)
LEMMA BundlePromises ==
  ASSUME Rb!BundleInv
  PROVE  /\ Rb!TypeOK /\ Rb!RejectionHolds /\ Rb!ChildAppliedOnce /\ Rb!BudgetNeverRequeued
         /\ Rb!QueuedChildHasCommand /\ Rb!RecoveryFollowsCommand /\ Rb!RowIsDerived
<1> USE DEF Rb!BundleInv
<1>1. Rb!RejectionHolds
  BY DEF Rb!RejectionHolds, Rb!ProposalInv, Rb!TypeOK
<1>2. Rb!QueuedChildHasCommand
  <2> SUFFICES ASSUME NEW k \in DOMAIN child, k[1] = "carry", child[k].status = "queued"
               PROVE  \/ \E c \in DOMAIN command :
                           command[c].of = k /\ command[c].status \in {"pending", "running"}
                      \/ \E c \in Rb!Excused : command[c].of = k
    BY DEF Rb!QueuedChildHasCommand
  <2>1. \/ Rb!Waiting(k) # {} \/ Rb!WorkerIs(k, {"begin", "start", "mark_child"})
        \/ \E c \in Rb!Excused : command[c].of = k
    BY DEF Rb!ChildInv, Rb!CarryInv
  <2>2. CASE Rb!Waiting(k) # {}
    BY <2>2 DEF Rb!Waiting, Rb!CommandsOf
  <2>3. CASE Rb!WorkerIs(k, {"begin", "start", "mark_child"})
    BY <2>3 DEF Rb!WorkerIs, Rb!WorkerInv, Rb!StatusAt
  <2> QED BY <2>1, <2>2, <2>3
<1>3. Rb!RowIsDerived
  BY DEF Rb!RowIsDerived, Rb!RowInv
<1> QED BY <1>1, <1>2, <1>3

-----------------------------------------------------------------------------
(* The part is chosen once, and a step of the bundle's part is a step of   *)
(* the bundle.                                                             *)
LEMMA BundlePart ==
  ASSUME [Next]_wfVars
  PROVE  /\ UNCHANGED part
         /\ part = "bundle" => [Rb!Next]_Rb!vars
BY DEF wfVars, Next, Bundle, Resolution, Promotion, VaultStep, Dossier, CexStep,
       bundleOnly, resolutionOnly, promotionOnly, vaultOnly, dossierOnly, cexOnly, Rb!vars

(* Rebalance bundles, for any number of clients, roles, requests, commands *)
(* and faults: a rejected proposal is executed only if an approval and the *)
(* rejection met on it; a child reaches a venue twice only if two requests *)
(* met on it or its first order left no row; a queued child has a command  *)
(* to take it up, unless the worker overtook the request or a fault ended  *)
(* that child's command; a recovery request ends as its command did once   *)
(* the worker has left the command, unless the worker overtook the request *)
(* or died at the command; the budget's action is never requeued; and at   *)
(* rest the bundle row is the one derived from the children, unless two    *)
(* syncs crossed or one was left out.                                      *)
THEOREM BundleIsSoundHolds == Spec => []BundleIsSound
<1> DEFINE Inv == part = "bundle" => Rb!BundleInv
<1>1. Init => Inv
  BY BundleInit DEF Init
<1>2. Inv /\ [Next]_wfVars => Inv'
  BY BundlePart, BundleStep
<1>3. Inv => BundleIsSound
  BY BundlePromises DEF BundleIsSound
<1> QED
  BY <1>1, <1>2, <1>3, PTL DEF Spec, wfVars

-----------------------------------------------------------------------------
(***************************************************************************)
(* CEX verification.                                                       *)
(***************************************************************************)
(* The rows that are not blank are rows.                                   *)
LEMMA WrittenRows ==
  ASSUME NEW S, NEW rows \in Seq(S)
  PROVE  Cx!Written(rows) \in Seq(S)
<1> DEFINE N == Len(rows)
           Blank(n) == rows[n].blank
           Kept(x, n) == IF Blank(n) THEN x ELSE Append(x, rows[n])
           F == [n \in 1..N |-> [x \in Seq(S) |-> Kept(x, n)]]
           V == [n \in 0..N |-> Seq(S)]
           Body(f, n) == IF n = 0 THEN <<>>
                         ELSE IF Blank(n) THEN f[n - 1] ELSE Append(f[n - 1], rows[n])
           Def(f) == f = [n \in 0..N |-> Body(f, n)]
           kept == CHOOSE f : Def(f)
<1>0. /\ N \in Nat /\ 0 \in 0..N /\ N \in 0..N
      /\ \A n \in 1..N : rows[n] \in S /\ n \in 0..N /\ n - 1 \in 0..N
  OBVIOUS
<1>1. ASSUME NEW n \in 1..N, NEW x \in Seq(S) PROVE Kept(x, n) \in Seq(S)
  BY <1>0
<1>2. V \in [0..N -> SUBSET Seq(S)] /\ <<>> \in V[0] /\ Leads(F, N, V)
  <2> HIDE DEF Kept, N
  <2>1. <<>> \in V[0]
    BY <1>0
  <2>2. \A n \in 1..N : \A x \in V[n - 1] : F[n][x] \in V[n]
    BY <1>0, <1>1
  <2> QED BY <2>1, <2>2 DEF Leads
<1>3. PICK f \in [0..N -> Seq(S)] : IsLoop(f, N, <<>>, F)
  <2> HIDE DEF F, V, N
  <2> QED BY <1>0, <1>2, Recursion
<1>4. ASSUME NEW n \in 0..N PROVE f[n] = Body(f, n)
  <2>1. CASE n = 0
    BY <1>3, <2>1 DEF IsLoop
  <2>2. CASE n # 0
    <3>1. n \in 1..N /\ n - 1 \in 0..N
      BY <1>0, <2>2
    <3>2. f[n - 1] \in Seq(S)
      BY <1>3, <3>1
    <3> HIDE DEF Blank, N
    <3> QED BY <1>3, <2>2, <3>1, <3>2 DEF IsLoop
  <2> QED BY <2>1, <2>2
<1>5. Def(f)
  <2> HIDE DEF Body, N
  <2> QED BY <1>3, <1>4
<1>6. Def(kept)
  <2> HIDE DEF Def
  <2> QED BY <1>5
<1>7. \A n \in 0..N : kept[n] = Body(kept, n)
  <2> HIDE DEF Body, kept, N
  <2> QED BY <1>6
<1>8. \A n \in 0..N : kept[n] \in V[n]
  <2>1. kept[0] \in V[0]
    <3>1. kept[0] = <<>>
      <4> HIDE DEF kept, N
      <4> QED BY <1>0, <1>7
    <3> QED BY <1>2, <3>1
  <2>2. ASSUME NEW n \in 1..N, kept[n - 1] \in V[n - 1] PROVE kept[n] \in V[n]
    <3>1. kept[n] = Kept(kept[n - 1], n)
      <4> HIDE DEF kept, Blank, N
      <4> QED BY <1>0, <1>7
    <3> HIDE DEF kept, Kept, N
    <3> QED BY <1>0, <1>1, <2>2, <3>1
  <2> HIDE DEF kept, V, N
  <2> QED BY <1>0, <2>1, <2>2, LoopInvariant
<1>9. Cx!Written(rows) = kept[N]
  BY DEF Cx!Written
<1>10. kept[N] \in Seq(S)
  <2> HIDE DEF kept, N
  <2> QED BY <1>0, <1>8
<1> HIDE DEF kept
<1> QED BY <1>9, <1>10

(* What a file is read as: trades, and all of its trades when there was no *)
(* error.                                                                  *)
LEMMA ParsedTrades ==
  ASSUME NEW file \in CsvFiles, NEW platform
  PROVE  LET parsed == Cx!parseCexCsv(file, platform)
         IN /\ parsed.trades \in Seq(Cx!Trade)
            /\ ~(parsed.errors > 0) => parsed.trades = Cx!TradesIn(file)
<1> DEFINE Bad == {n \in DOMAIN file.rows :
                     ~file.rows[n].blank /\ ~Cx!parseTradeRow(file, file.rows[n], platform)}
           end == IF Bad = {} THEN Len(file.rows)
                  ELSE (CHOOSE n \in Bad : \A m \in Bad : n <= m) - 1
           read == Cx!Written(SubSeq(file.rows, 1, end))
<1>1. /\ Cx!parseCexCsv(file, platform).trades = [n \in DOMAIN read |-> Cx!TradeOf(read[n])]
      /\ Cx!parseCexCsv(file, platform).errors = IF file.rows = <<>> \/ Bad # {} THEN 1 ELSE 0
  BY DEF Cx!parseCexCsv
<1>2. file.rows \in Seq(Cx!TradeRow) /\ Len(file.rows) \in Nat
  BY CexAssumption
<1>3. end \in 0..Len(file.rows)
  <2>1. CASE Bad = {}
    BY <1>2, <2>1
  <2>2. CASE Bad # {}
    <3>1. Bad \subseteq 1..Len(file.rows) /\ Bad \subseteq Nat
      BY <1>2
    <3> HIDE DEF Bad
    <3>2. \E n \in Bad : \A m \in Bad : n <= m
      BY <2>2, <3>1, LeastNat
    <3>3. (CHOOSE n \in Bad : \A m \in Bad : n <= m) \in Bad
      BY <3>2
    <3>4. end = (CHOOSE n \in Bad : \A m \in Bad : n <= m) - 1
      BY <2>2
    <3>5. ASSUME NEW n \in 1..Len(file.rows) PROVE n - 1 \in 0..Len(file.rows)
      BY <1>2
    <3> HIDE DEF end
    <3> QED BY <3>1, <3>3, <3>4, <3>5
  <2> QED BY <2>1, <2>2
<1> HIDE DEF end
<1>4. SubSeq(file.rows, 1, end) \in Seq(Cx!TradeRow)
  BY <1>2, <1>3
<1>5. read \in Seq(Cx!TradeRow)
  BY <1>4, WrittenRows
<1> HIDE DEF read
<1>6. [n \in DOMAIN read |-> Cx!TradeOf(read[n])] \in Seq(Cx!Trade)
  <2>1. Len(read) \in Nat /\ DOMAIN read = 1..Len(read)
        /\ \A n \in 1..Len(read) : read[n] \in Cx!TradeRow
    BY <1>5
  <2>2. \A x \in Cx!TradeRow : Cx!TradeOf(x) \in Cx!Trade
    <3>1. ASSUME NEW cell \in Cx!Cell PROVE Cx!normalizeNumber(cell) \in Int
      BY DEF Cx!Cell, Cx!normalizeNumber
    <3>2. ASSUME NEW x \in Cx!TradeRow PROVE Cx!TradeOf(x) \in Cx!Trade
      <4>1. /\ x.price \in Cx!Cell /\ x.quantity \in Cx!Cell /\ x.amount \in Cx!Cell
            /\ x.fee \in Cx!Cell /\ x.side \in STRING /\ x.asset \in STRING /\ x.time \in Int
        BY DEF Cx!TradeRow
      <4>2. (IF Cx!Filled(x.quantity) THEN x.quantity ELSE x.amount) \in Cx!Cell
        BY <4>1
      <4> QED BY <3>1, <4>1, <4>2 DEF Cx!TradeOf, Cx!Trade
    <3> QED BY <3>2
  <2> QED BY <2>1, <2>2
<1>7. ASSUME Bad = {} PROVE read = Cx!Written(file.rows)
  <2>1. end = Len(file.rows)
    BY <1>7 DEF end
  <2>2. SubSeq(file.rows, 1, end) = file.rows
    BY <1>2, <2>1
  <2> QED BY <2>2 DEF read
<1> QED BY <1>1, <1>6, <1>7 DEF Cx!TradesIn

(* What a report reads, in one of the orders in which times ascend: the    *)
(* trades, each once.                                                      *)
LEMMA ReadByTime ==
  ASSUME NEW rows \in Seq(Cx!Trade), NEW p \in Cx!ByTime(rows),
         NEW read, read = [n \in DOMAIN p |-> p[n][2]]
  PROVE  /\ read \in Seq(Cx!Trade) /\ Len(read) = Len(rows)
         /\ \A n, m \in DOMAIN read : n <= m => read[n].time <= read[m].time
<1> DEFINE S == {<<n, rows[n]>> : n \in DOMAIN rows}
           N == Len(rows)
           f == [n \in 1..N |-> <<n, rows[n]>>]
<1>1. N \in Nat /\ DOMAIN rows = 1..N /\ \A n \in 1..N : rows[n] \in Cx!Trade
  OBVIOUS
<1>2. IsFiniteSet(1..N) /\ Cardinality(1..N) = N
  <2> HIDE DEF N
  <2>1. 1 \in Int /\ N \in Int
    BY <1>1
  <2>2. IsFiniteSet(1..N) /\ Cardinality(1..N) = IF 1 > N THEN 0 ELSE N - 1 + 1
    BY <2>1, FS_Interval
  <2> QED BY <1>1, <2>2
<1>3. f \in Bijection(1..N, S)
  <2>1. f \in Surjection(1..N, S)
    BY <1>1 DEF Surjection
  <2>2. f \in Injection(1..N, S)
    <3>1. ASSUME NEW n \in 1..N, NEW m \in 1..N, f[n] = f[m] PROVE n = m
      <4>1. <<n, rows[n]>>[1] = <<m, rows[m]>>[1]
        BY <3>1, Zenon
      <4> QED BY <4>1
    <3>2. f \in [1..N -> S]
      BY <1>1
    <3> HIDE DEF f, S, N
    <3> QED BY <3>1, <3>2 DEF Injection, IsInjective
  <2> QED BY <2>1, <2>2 DEF Bijection
<1>4. Cardinality(S) = N
  BY <1>2, <1>3, FS_Bijection DEF ExistsBijection
<1>5. /\ p \in [1..Cardinality(S) -> S]
      /\ \A n, m \in DOMAIN p : n <= m => p[n][2].time <= p[m][2].time
  <2>1. /\ p \in Cx!SetToSeqs(S)
        /\ \A n, m \in DOMAIN p : n <= m => p[n][2].time <= p[m][2].time
    BY Zenon DEF Cx!ByTime
  <2> HIDE DEF S
  <2>2. p \in [1..Cardinality(S) -> S]
    <3>1. Cx!Cardinality(S) = Cardinality(S)
      BY DEF Cx!Cardinality, Cardinality
    <3> QED BY <2>1, <3>1 DEF Cx!SetToSeqs
  <2> QED BY <2>1, <2>2, Zenon
<1>6. \A s \in S : s[2] \in Cx!Trade
  BY <1>1
<1>7. p \in [1..N -> S] /\ DOMAIN p = 1..N
  BY <1>4, <1>5
<1> HIDE DEF S, N
<1>8. read \in [1..N -> Cx!Trade] /\ \A n \in 1..N : read[n] = p[n][2]
  BY <1>6, <1>7
<1>9. read \in Seq(Cx!Trade) /\ Len(read) = N /\ DOMAIN read = 1..N
  BY <1>1, <1>8
<1> QED BY <1>5, <1>7, <1>8, <1>9 DEF N

(* Trades in the order of time, no two of the same time: the trades        *)
(* themselves say in which order they are.                                 *)
LEMMA SameReading ==
  ASSUME NEW r \in Seq(Cx!Trade), NEW q \in Seq(Cx!Trade), Len(r) = Len(q),
         Cx!Fills(r) = Cx!Fills(q), Cx!Untied(r),
         \A n, m \in DOMAIN r : n <= m => r[n].time <= r[m].time,
         \A n, m \in DOMAIN q : n <= m => q[n].time <= q[m].time
  PROVE  r = q
<1> DEFINE N == Len(r)
           S == Cx!Fills(r)
           D == {n \in 1..N : r[n] # q[n]}
<1>1. /\ N \in Nat /\ DOMAIN r = 1..N /\ DOMAIN q = 1..N
      /\ \A n \in 1..N : r[n] \in Cx!Trade /\ q[n] \in Cx!Trade
  OBVIOUS
<1>2. \A x \in Cx!Trade : x.time \in Int
  BY DEF Cx!Trade
<1>3. S = {r[n] : n \in 1..N} /\ S = {q[n] : n \in 1..N}
  BY <1>1 DEF Cx!Fills
<1>4. \A n, m \in 1..N : n # m => r[n].time # r[m].time
  BY <1>1 DEF Cx!Untied
<1> HIDE DEF N, S
<1>5. IsFiniteSet(1..N)
  BY <1>1, FS_Interval
<1>6. r \in [1..N -> S] /\ q \in [1..N -> S]
  <2>1. r \in [1..N -> Cx!Trade] /\ q \in [1..N -> Cx!Trade]
    BY <1>1 DEF N
  <2>2. \A n \in 1..N : r[n] \in S /\ q[n] \in S
    BY <1>3
  <2> QED BY <2>1, <2>2
<1>7. r \in Surjection(1..N, S) /\ q \in Surjection(1..N, S)
  <2>1. \A s \in S : (\E n \in 1..N : r[n] = s) /\ (\E n \in 1..N : q[n] = s)
    BY <1>3
  <2> QED BY <1>6, <2>1 DEF Surjection
<1>8. r \in Injection(1..N, S)
  BY <1>1, <1>4, <1>6 DEF Injection, IsInjective
<1>9. q \in Injection(1..N, S)
  <2>1. Cardinality(S) = Cardinality(1..N)
    BY <1>5, <1>7, <1>8, FS_Surjection
  <2> QED BY <1>5, <1>7, <2>1, FS_Surjection
<1>10. \A n, m \in 1..N : (r[n] = r[m] => n = m) /\ (q[n] = q[m] => n = m)
  BY <1>1, <1>8, <1>9 DEF Injection, IsInjective
<1>11. D = {}
  <2> SUFFICES ASSUME D # {} PROVE FALSE
    OBVIOUS
  <2>1. PICK n \in D : \A m \in D : n <= m
    <3>1. D \subseteq Nat
      BY <1>1
    <3> QED BY <3>1, LeastNat
  <2>2. n \in 1..N /\ n \in Int /\ r[n] # q[n] /\ \A m \in 1..N : m < n => r[m] = q[m]
    BY <1>1, <2>1
  <2>3. PICK m \in 1..N : r[m] = q[n]
    BY <1>3, <2>2
  <2>4. PICK l \in 1..N : q[l] = r[n]
    BY <1>3, <2>2
  <2>5. m > n
    <3>1. ~(m < n)
      BY <1>10, <2>2, <2>3
    <3>2. m # n
      BY <2>2, <2>3
    <3> QED BY <1>1, <2>2, <3>1, <3>2
  <2>6. l > n
    <3>1. ~(l < n)
      BY <1>10, <2>2, <2>4
    <3>2. l # n
      BY <2>2, <2>4
    <3> QED BY <1>1, <2>2, <3>1, <3>2
  <2>7. r[n].time <= r[m].time /\ r[n].time # r[m].time
    BY <1>1, <1>4, <2>2, <2>5
  <2>8. q[n].time <= q[l].time
    BY <1>1, <2>2, <2>6
  <2>9. r[n].time \in Int /\ q[n].time \in Int
    BY <1>1, <1>2, <2>2
  <2> QED BY <2>3, <2>4, <2>7, <2>8, <2>9
<1>12. \A n \in 1..N : r[n] = q[n]
  BY <1>11
<1> QED BY <1>1, <1>12

(* The properties follow from the invariant.                               *)
LEMMA CexSound ==
  ASSUME Cx!CexInv
  PROVE  Cx!CompletedCoversFile /\ Cx!DeletedIsEmpty /\ Cx!ReportRepeats
<1>1. Cx!CompletedCoversFile
  <2> SUFFICES ASSUME NEW i \in Cx!Ids, Cx!Undecided(imports[i]), i \notin tornImports,
                      \A c \in Clerks : ~Cx!At(c, i)
               PROVE  LET lines == Cx!Written(imports[i].source.rows)
                      IN /\ DOMAIN trades[i] = DOMAIN lines
                         /\ \A n \in DOMAIN lines : Cx!Agrees(lines[n], trades[i][n])
    BY DEF Cx!CompletedCoversFile
  <2> DEFINE lines == Cx!Written(imports[i].source.rows)
  <2>1. trades[i] = [n \in DOMAIN lines |-> Cx!TradeOf(lines[n])]
    BY DEF Cx!CexInv, Cx!WholeOrNothing, Cx!TradesIn
  <2>2. ASSUME NEW line PROVE Cx!Agrees(line, Cx!TradeOf(line))
    BY DEF Cx!Agrees, Cx!Shows, Cx!TradeOf, Cx!normalizeNumber, Cx!Filled
  <2> HIDE DEF lines
  <2>3. DOMAIN trades[i] = DOMAIN lines /\ \A n \in DOMAIN lines : trades[i][n] = Cx!TradeOf(lines[n])
    BY <2>1
  <2>4. \A n \in DOMAIN lines : Cx!Agrees(lines[n], trades[i][n])
    BY <2>2, <2>3
  <2> QED BY <2>3, <2>4 DEF lines
<1>2. Cx!DeletedIsEmpty
  BY DEF Cx!CexInv, Cx!WholeOrNothing, Cx!DeletedIsEmpty
<1>3. ASSUME NEW r \in reports, NEW q \in reports, r.id = q.id, r.method = q.method,
             r.fees = q.fees, Cx!Fills(r.read) = Cx!Fills(q.read), Cx!Untied(r.read)
      PROVE  r.report = q.report
  <2>1. Cx!ReportOfWhole(r) /\ Cx!ReportOfWhole(q)
    BY DEF Cx!CexInv
  <2>2. /\ r.read \in Seq(Cx!Trade) /\ q.read \in Seq(Cx!Trade)
        /\ Len(r.read) \in {0, imports[r.id].validTradesCount}
        /\ Len(q.read) \in {0, imports[r.id].validTradesCount}
    BY <1>3, <2>1 DEF Cx!ReportOfWhole
  <2>3. /\ Len(r.read) = 0 <=> Cx!Fills(r.read) = {}
        /\ Len(q.read) = 0 <=> Cx!Fills(q.read) = {}
    <3>1. ASSUME NEW s \in Seq(Cx!Trade) PROVE Len(s) = 0 <=> Cx!Fills(s) = {}
      <4>1. Len(s) \in Nat /\ DOMAIN s = 1..Len(s)
        OBVIOUS
      <4>2. CASE Len(s) = 0
        BY <4>1, <4>2 DEF Cx!Fills
      <4>3. CASE Len(s) # 0
        <5>1. 1 \in DOMAIN s
          BY <4>1, <4>3
        <5> QED BY <4>3, <5>1 DEF Cx!Fills
      <4> QED BY <4>2, <4>3
    <3> QED BY <2>2, <3>1
  <2>4. Len(r.read) = Len(q.read)
    BY <1>3, <2>2, <2>3
  <2>5. r.read = q.read
    BY <1>3, <2>1, <2>2, <2>4, SameReading DEF Cx!ReportOfWhole
  <2> QED BY <1>3, <2>1, <2>5 DEF Cx!ReportOfWhole
<1>4. Cx!ReportRepeats
  BY <1>3 DEF Cx!ReportRepeats
<1> QED BY <1>1, <1>2, <1>4

(* What a request of n imports may be about to do.                         *)
Statements(n) ==
  {Cx!Idle} \cup [next : {"insertTrades"}, id : 1..n, rows : Seq(Cx!Trade)]
            \cup [next : {"deleteImport"}, id : 1..n]

(* The kinds of them.                                                      *)
LEMMA StatementKinds ==
  ASSUME NEW n, NEW s \in Statements(n)
  PROVE  /\ \/ s = Cx!Idle /\ s.next = "idle"
            \/ s # Cx!Idle /\ s.next = "insertTrades" /\ s.id \in 1..n /\ s.rows \in Seq(Cx!Trade)
            \/ s # Cx!Idle /\ s.next = "deleteImport" /\ s.id \in 1..n
         /\ Cx!Idle.next = "idle" /\ Cx!Idle \in Statements(n)
<1>1. Cx!Idle.next = "idle" /\ Cx!Idle \in Statements(n)
  BY DEF Cx!Idle, Statements
<1>2. CASE s = Cx!Idle
  BY <1>1, <1>2
<1>3. CASE s \in [next : {"insertTrades"}, id : 1..n, rows : Seq(Cx!Trade)]
  BY <1>1, <1>3
<1>4. CASE s \in [next : {"deleteImport"}, id : 1..n]
  BY <1>1, <1>4
<1> QED BY <1>1, <1>2, <1>3, <1>4 DEF Statements

(* With more imports they stay.                                            *)
LEMMA StatementsGrow ==
  ASSUME NEW n \in Nat
  PROVE  Statements(n) \subseteq Statements(n + 1)
<1>1. 1..n \subseteq 1..(n + 1)
  OBVIOUS
<1> QED BY <1>1 DEF Statements

(* The invariant in parts.                                                 *)
LEMMA CexParts ==
  Cx!CexInv <=>
    /\ imports \in Seq(Cx!ImportRow)
    /\ trades \in Seq(Seq(Cx!Trade)) /\ Len(trades) = Len(imports)
    /\ uploader \in [Clerks -> Statements(Len(imports))]
    /\ \A i \in 1..Len(imports) : Cx!WholeOrNothing(i)
    /\ \A c \in Clerks : Cx!WholeToCome(c)
    /\ \A r \in reports : Cx!ReportOfWhole(r)
  BY DEF Cx!CexInv, Cx!Types, Cx!Statement, Cx!Ids, Statements

(* The same after a step.                                                  *)
LEMMA CexPartsNext ==
  ASSUME imports' \in Seq(Cx!ImportRow),
         trades' \in Seq(Seq(Cx!Trade)), Len(trades') = Len(imports'),
         uploader' \in [Clerks -> Statements(Len(imports'))],
         \A i \in 1..Len(imports') : Cx!WholeOrNothing(i)',
         \A c \in Clerks : Cx!WholeToCome(c)',
         \A r \in reports' : Cx!ReportOfWhole(r)'
  PROVE  Cx!CexInv'
  BY DEF Cx!CexInv, Cx!Types, Cx!Statement, Cx!Ids, Statements

(* Initially.                                                              *)
LEMMA CexInitially ==
  ASSUME Cx!Init
  PROVE  Cx!CexInv
<1>1. /\ imports = <<>> /\ trades = <<>> /\ reports = {}
      /\ uploader = [c \in Clerks |-> Cx!Idle]
  BY DEF Cx!Init
<1>2. /\ imports \in Seq(Cx!ImportRow) /\ trades \in Seq(Seq(Cx!Trade))
      /\ Len(imports) = 0 /\ Len(trades) = 0
  BY <1>1
<1>3. uploader \in [Clerks -> Statements(Len(imports))]
  <2>1. Cx!Idle \in Statements(Len(imports))
    BY DEF Statements
  <2> QED BY <1>1, <2>1
<1>4. ASSUME NEW c \in Clerks PROVE Cx!WholeToCome(c)
  <2>1. uploader[c].next = "idle"
    BY <1>1 DEF Cx!Idle
  <2> QED BY <2>1 DEF Cx!WholeToCome
<1>5. 1..Len(imports) = {}
  BY <1>2
<1> QED BY <1>1, <1>2, <1>3, <1>4, <1>5, CexParts

(* Reports stay what they are while counts of valid trades do.             *)
LEMMA ReportsStay ==
  ASSUME \A r \in reports : Cx!ReportOfWhole(r), reports' = reports,
         \A i \in 1..Len(imports) :
           i \in 1..Len(imports') /\ imports'[i].validTradesCount = imports[i].validTradesCount
  PROVE  \A r \in reports' : Cx!ReportOfWhole(r)'
<1> SUFFICES ASSUME NEW r \in reports PROVE Cx!ReportOfWhole(r)'
  OBVIOUS
<1>1. Cx!ReportOfWhole(r)
  OBVIOUS
<1>2. r.id \in 1..Len(imports) /\ r.id \in 1..Len(imports')
      /\ imports'[r.id].validTradesCount = imports[r.id].validTradesCount
  BY <1>1 DEF Cx!ReportOfWhole, Cx!Ids
<1> QED BY <1>1, <1>2 DEF Cx!ReportOfWhole, Cx!Ids

(* A row is inserted: its trades are still to come, or there are none.     *)
LEMMA InsertImportKeeps ==
  ASSUME Cx!CexInv, NEW c \in Clerks, NEW new \in Cx!ImportRow, NEW fills \in Seq(Cx!Trade),
         new.validTradesCount = Len(fills), new.status # "gone",
         Cx!Undecided(new) => fills = Cx!TradesIn(new.source),
         Cx!InsertImport(c, new, fills)
  PROVE  Cx!CexInv'
<1> DEFINE n == Len(imports)
           todo == IF fills = <<>> THEN Cx!Idle
                   ELSE [next |-> "insertTrades", id |-> n + 1, rows |-> fills]
<1>1. /\ imports \in Seq(Cx!ImportRow) /\ trades \in Seq(Seq(Cx!Trade)) /\ Len(trades) = n
      /\ uploader \in [Clerks -> Statements(n)] /\ n \in Nat
      /\ \A i \in 1..n : Cx!WholeOrNothing(i)
      /\ \A d \in Clerks : Cx!WholeToCome(d)
      /\ \A r \in reports : Cx!ReportOfWhole(r)
  BY CexParts
<1>2. /\ uploader[c] = Cx!Idle
      /\ imports' = Append(imports, new) /\ trades' = Append(trades, <<>>)
      /\ uploader' = [uploader EXCEPT ![c] = todo]
      /\ reports' = reports /\ tornImports' = tornImports
  BY DEF Cx!InsertImport
<1>3. /\ imports' \in Seq(Cx!ImportRow) /\ Len(imports') = n + 1 /\ imports'[n + 1] = new
      /\ \A i \in 1..n : imports'[i] = imports[i]
      /\ trades' \in Seq(Seq(Cx!Trade)) /\ Len(trades') = n + 1 /\ trades'[n + 1] = <<>>
      /\ \A i \in 1..n : trades'[i] = trades[i]
  <2>1. <<>> \in Seq(Cx!Trade) /\ DOMAIN imports = 1..n /\ DOMAIN trades = 1..n
    BY <1>1
  <2>2. imports' \in Seq(Cx!ImportRow) /\ Extended(imports, imports', new)
    BY <1>1, <1>2, ExtendedTable
  <2>3. trades' \in Seq(Seq(Cx!Trade)) /\ Extended(trades, trades', <<>>)
    BY <1>1, <1>2, <2>1, ExtendedTable
  <2> QED BY <1>1, <2>1, <2>2, <2>3 DEF Extended
<1>4. todo \in Statements(n + 1)
  <2>1. n + 1 \in 1..(n + 1)
    BY <1>1
  <2> HIDE DEF n
  <2> QED BY <2>1 DEF Statements
<1>5. uploader' \in [Clerks -> Statements(n + 1)] /\ uploader'[c] = todo
      /\ \A d \in Clerks : d # c => uploader'[d] = uploader[d]
  <2>1. Statements(n) \subseteq Statements(n + 1)
    BY <1>1, StatementsGrow
  <2> HIDE DEF todo, n
  <2> QED BY <1>1, <1>2, <1>4, <2>1
<1>6. fills = <<>> <=> Len(fills) = 0
  OBVIOUS
<1>7. ASSUME NEW i \in 1..n PROVE Cx!WholeOrNothing(i)'
  <2>1. Cx!WholeOrNothing(i) /\ imports'[i] = imports[i] /\ trades'[i] = trades[i]
    BY <1>1, <1>3
  <2>2. \A d \in Clerks : Cx!At(d, i) => Cx!At(d, i)'
    BY <1>2, <1>5 DEF Cx!At
  <2> QED BY <1>2, <2>1, <2>2 DEF Cx!WholeOrNothing, Cx!Stored
<1>8. PICK k \in Nat : k = n + 1
  BY <1>1
<1>8a. Cx!WholeOrNothing(k)'
  <2>1. imports'[k] = new /\ trades'[k] = <<>>
    BY <1>3, <1>8
  <2> HIDE DEF n
  <2>2. ASSUME fills # <<>> PROVE Cx!At(c, k)'
    <3>1. uploader'[c] = [next |-> "insertTrades", id |-> k, rows |-> fills]
      BY <1>5, <1>8, <2>2
    <3>2. uploader'[c].next # Cx!Idle.next
      BY <3>1 DEF Cx!Idle
    <3> QED BY <3>1, <3>2 DEF Cx!At
  <2>3. Len(trades'[k]) = 0
    BY <2>1
  <2> QED BY <2>1, <2>2, <2>3 DEF Cx!WholeOrNothing, Cx!Stored
<1>9. \A i \in 1..(n + 1) : i \in 1..n \/ i = n + 1
  BY <1>1
<1>10. ASSUME NEW d \in Clerks PROVE Cx!WholeToCome(d)'
  <2>1. CASE d = c /\ fills = <<>>
    BY <1>5, <2>1 DEF Cx!WholeToCome, Cx!Idle
  <2>2. CASE d = c /\ fills # <<>>
    BY <1>3, <1>5, <2>2 DEF Cx!WholeToCome
  <2>3. CASE d # c
    <3>1. /\ Cx!WholeToCome(d) /\ uploader'[d] = uploader[d] /\ uploader[d] \in Statements(n)
          /\ uploader[d].next = "insertTrades" => uploader[d].id \in 1..n
      BY <1>1, <1>5, <2>3, StatementKinds
    <3> QED BY <1>3, <3>1 DEF Cx!WholeToCome
  <2> QED BY <2>1, <2>2, <2>3
<1>11. \A r \in reports' : Cx!ReportOfWhole(r)'
  <2>1. \A i \in 1..n : i \in 1..(n + 1)
    BY <1>1
  <2> QED BY <1>1, <1>2, <1>3, <2>1, ReportsStay
<1>12. \A i \in 1..Len(imports') : Cx!WholeOrNothing(i)'
  BY <1>3, <1>7, <1>8, <1>8a, <1>9
<1> QED BY <1>3, <1>5, <1>10, <1>11, <1>12, CexPartsNext

(* A file is uploaded: read without an error it is read completely.        *)
LEMMA CreateSessionKeeps ==
  ASSUME Cx!CexInv, NEW c \in Clerks, NEW file \in CsvFiles, NEW named,
         Cx!createCexVerificationSession(c, file, named)
  PROVE  Cx!CexInv'
<1>1. PICK parsed : parsed = Cx!parseCexCsv(file, Cx!PlatformOf(file, named))
  OBVIOUS
<1> DEFINE new == [status |-> IF parsed.errors > 0 THEN "failed" ELSE "completed",
                   validTradesCount |-> Len(parsed.trades), decided |-> FALSE, source |-> file]
<1>2. /\ parsed.trades \in Seq(Cx!Trade)
      /\ ~(parsed.errors > 0) => parsed.trades = Cx!TradesIn(file)
  BY <1>1, ParsedTrades
<1>3. Cx!InsertImport(c, new, parsed.trades)
  BY <1>1, Zenon DEF Cx!createCexVerificationSession
<1>4. Len(parsed.trades) \in Nat
  BY <1>2
<1>5. new \in Cx!ImportRow
  BY <1>4 DEF Cx!ImportRow
<1>6. new.validTradesCount = Len(parsed.trades) /\ new.status # "gone"
  OBVIOUS
<1>7. Cx!Undecided(new) => parsed.trades = Cx!TradesIn(new.source)
  BY <1>2 DEF Cx!Undecided
<1> HIDE DEF new
<1> QED BY <1>2, <1>3, <1>5, <1>6, <1>7, InsertImportKeeps

(* Fills are fetched: there is no file to compare with.                    *)
LEMMA FetchKeeps ==
  ASSUME Cx!CexInv, NEW c \in Clerks, NEW fills \in ApiFills, Cx!fetchCexTradesFromApi(c, fills)
  PROVE  Cx!CexInv'
<1> DEFINE new == [status |-> "completed", validTradesCount |-> Len(fills), decided |-> FALSE,
                   source |-> Cx!NoFile]
<1>1. fills \in Seq(Cx!Trade) /\ Len(fills) \in Nat
  BY CexAssumption
<1>2. Cx!InsertImport(c, new, fills)
  BY DEF Cx!fetchCexTradesFromApi
<1>3. new \in Cx!ImportRow
  BY <1>1 DEF Cx!ImportRow
<1>4. new.validTradesCount = Len(fills) /\ new.status # "gone"
  OBVIOUS
<1>5. ~Cx!Undecided(new)
  BY DEF Cx!Undecided, Cx!NoFile
<1> HIDE DEF new
<1> QED BY <1>1, <1>2, <1>3, <1>4, <1>5, InsertImportKeeps

(* The trades of a row that is still there are stored, all of them.        *)
LEMMA InsertTradesKeeps ==
  ASSUME Cx!CexInv, NEW c \in Clerks, Cx!InsertTrades(c)
  PROVE  Cx!CexInv'
<1> DEFINE n == Len(imports)
<1>1. /\ imports \in Seq(Cx!ImportRow) /\ trades \in Seq(Seq(Cx!Trade)) /\ Len(trades) = n
      /\ uploader \in [Clerks -> Statements(n)] /\ n \in Nat
      /\ DOMAIN trades = 1..n
      /\ \A i \in 1..n : Cx!WholeOrNothing(i)
      /\ \A d \in Clerks : Cx!WholeToCome(d)
      /\ \A r \in reports : Cx!ReportOfWhole(r)
  BY CexParts
<1> HIDE DEF n
<1>2. PICK k \in 1..n : uploader[c].id = k
  BY <1>1, StatementKinds DEF Cx!InsertTrades
<1>3. PICK fills \in Seq(Cx!Trade) : uploader[c].rows = fills
  BY <1>1, StatementKinds DEF Cx!InsertTrades
<1>4. /\ uploader[c].next = "insertTrades"
      /\ trades' = IF Cx!Stored(k) THEN [trades EXCEPT ![k] = fills] ELSE trades
      /\ uploader' = [uploader EXCEPT ![c] = Cx!Idle]
      /\ imports' = imports /\ reports' = reports /\ tornImports' = tornImports
  BY <1>2, <1>3 DEF Cx!InsertTrades
<1>5. /\ Len(fills) = imports[k].validTradesCount
      /\ Cx!Undecided(imports[k]) => fills = Cx!TradesIn(imports[k].source)
  BY <1>1, <1>2, <1>3, <1>4 DEF Cx!WholeToCome
<1>6. /\ trades' \in Seq(Seq(Cx!Trade)) /\ Len(trades') = n
      /\ \A i \in 1..n : trades'[i] = IF i = k /\ Cx!Stored(k) THEN fills ELSE trades[i]
  <2>1. CASE Cx!Stored(k)
    <3>1. trades' \in Seq(Seq(Cx!Trade)) /\ Updated(trades, trades', k, fills)
      BY <1>1, <1>4, <2>1, UpdatedTable
    <3> QED BY <1>1, <2>1, <3>1 DEF Updated
  <2>2. CASE ~Cx!Stored(k)
    BY <1>1, <1>4, <2>2
  <2> QED BY <2>1, <2>2
<1>7. /\ uploader' \in [Clerks -> Statements(n)] /\ uploader'[c] = Cx!Idle
      /\ \A d \in Clerks : d # c => uploader'[d] = uploader[d]
  <2>1. Cx!Idle \in Statements(n)
    BY DEF Statements
  <2> QED BY <1>1, <1>4, <2>1
<1>8. ASSUME NEW i \in 1..n PROVE Cx!WholeOrNothing(i)'
  <2>1. Cx!WholeOrNothing(i)
    BY <1>1
  <2>2. CASE i = k /\ Cx!Stored(k)
    BY <1>4, <1>5, <1>6, <2>2 DEF Cx!WholeOrNothing, Cx!Stored
  <2>3. CASE i = k /\ ~Cx!Stored(k)
    <3>1. ~Cx!Undecided(imports[i])
      BY <2>3 DEF Cx!Stored, Cx!Undecided
    <3> QED BY <1>4, <1>6, <2>1, <2>3, <3>1 DEF Cx!WholeOrNothing, Cx!Stored
  <2>4. CASE i # k
    <3>1. \A d \in Clerks : Cx!At(d, i) => Cx!At(d, i)'
      BY <1>2, <1>7, <2>4 DEF Cx!At
    <3> QED BY <1>4, <1>6, <2>1, <2>4, <3>1 DEF Cx!WholeOrNothing, Cx!Stored
  <2> QED BY <2>2, <2>3, <2>4
<1>9. ASSUME NEW d \in Clerks PROVE Cx!WholeToCome(d)'
  <2>1. CASE d = c
    BY <1>7, <2>1 DEF Cx!WholeToCome, Cx!Idle
  <2>2. CASE d # c
    BY <1>1, <1>4, <1>7, <2>2 DEF Cx!WholeToCome
  <2> QED BY <2>1, <2>2
<1>10. \A r \in reports' : Cx!ReportOfWhole(r)'
  BY <1>1, <1>4, ReportsStay
<1> QED BY <1>1, <1>4, <1>6, <1>7, <1>8, <1>9, <1>10, CexPartsNext DEF n

(* An operator decides: the row is no longer undecided, and is not gone.   *)
LEMMA DecideKeeps ==
  ASSUME Cx!CexInv, NEW c \in Clerks, NEW k \in 1..Len(imports), NEW verdict,
         Cx!updateCexVerificationStatus(c, k, verdict)
  PROVE  Cx!CexInv'
<1> DEFINE n == Len(imports)
           status == IF verdict = "validated" THEN "completed" ELSE "rejected"
           new == [imports[k] EXCEPT !.status = status, !.decided = TRUE]
<1>1. /\ imports \in Seq(Cx!ImportRow) /\ trades \in Seq(Seq(Cx!Trade)) /\ Len(trades) = n
      /\ uploader \in [Clerks -> Statements(n)] /\ n \in Nat
      /\ DOMAIN imports = 1..n /\ k \in 1..n /\ imports[k] \in Cx!ImportRow
      /\ \A i \in 1..n : Cx!WholeOrNothing(i)
      /\ \A d \in Clerks : Cx!WholeToCome(d)
      /\ \A r \in reports : Cx!ReportOfWhole(r)
  BY CexParts
<1>2. /\ imports' = IF ~Cx!Stored(k) THEN imports ELSE [imports EXCEPT ![k] = new]
      /\ UNCHANGED <<trades, uploader, reports, tornImports>>
  BY DEF Cx!updateCexVerificationStatus
<1>3. CASE ~Cx!Stored(k)
  <2>1. UNCHANGED <<imports, trades, uploader, reports, tornImports>>
    BY <1>2, <1>3
  <2> QED BY <2>1 DEF Cx!CexInv, Cx!Types, Cx!Statement, Cx!Ids, Cx!WholeOrNothing,
             Cx!Stored, Cx!At, Cx!WholeToCome, Cx!ReportOfWhole
<1>4. CASE Cx!Stored(k)
  <2>1. status \in {"completed", "failed", "rejected", "gone"} /\ status # "gone"
    OBVIOUS
  <2> HIDE DEF n, status
  <2>2. new \in Cx!ImportRow
    BY <1>1, <2>1, Zenon DEF Cx!ImportRow
  <2>3. /\ new.status # "gone" /\ new.decided = TRUE
        /\ new.validTradesCount = imports[k].validTradesCount
    BY <1>1, <2>1 DEF Cx!ImportRow
  <2>4. ~Cx!Undecided(new)
    BY <2>3 DEF Cx!Undecided
  <2> HIDE DEF new
  <2>5. imports' \in Seq(Cx!ImportRow) /\ Updated(imports, imports', k, new)
    BY <1>1, <1>2, <1>4, <2>2, UpdatedTable
  <2>6. /\ Len(imports') = n /\ imports'[k] = new
        /\ \A i \in 1..n : i # k => imports'[i] = imports[i]
    BY <1>1, <2>5 DEF Updated, n
  <2>7. ASSUME NEW i \in 1..n PROVE Cx!WholeOrNothing(i)'
    <3>1. Cx!WholeOrNothing(i) /\ \A d \in Clerks : Cx!At(d, i)' <=> Cx!At(d, i)
      BY <1>1, <1>2 DEF Cx!At
    <3>2. CASE i = k
      BY <1>2, <2>3, <2>4, <2>6, <3>1, <3>2 DEF Cx!WholeOrNothing, Cx!Stored
    <3>3. CASE i # k
      BY <1>2, <2>6, <3>1, <3>3 DEF Cx!WholeOrNothing, Cx!Stored
    <3> QED BY <3>2, <3>3
  <2>8. ASSUME NEW d \in Clerks PROVE Cx!WholeToCome(d)'
    <3>1. /\ Cx!WholeToCome(d) /\ uploader' = uploader
          /\ uploader[d].next = "insertTrades" => uploader[d].id \in 1..n
      BY <1>1, <1>2, StatementKinds
    <3>2. CASE uploader[d].id = k
      BY <2>3, <2>4, <2>6, <3>1, <3>2 DEF Cx!WholeToCome
    <3>3. CASE uploader[d].id # k
      BY <2>6, <3>1, <3>3 DEF Cx!WholeToCome
    <3> QED BY <3>2, <3>3
  <2>9. \A r \in reports' : Cx!ReportOfWhole(r)'
    <3>1. \A i \in 1..n : imports'[i].validTradesCount = imports[i].validTradesCount
      BY <2>3, <2>6
    <3> QED BY <1>1, <1>2, <2>6, <3>1, ReportsStay DEF n
  <2> QED BY <1>1, <1>2, <2>5, <2>6, <2>7, <2>8, <2>9, CexPartsNext
<1> QED BY <1>3, <1>4

(* The trades are deleted; the row is next.                                *)
LEMMA DeleteSessionKeeps ==
  ASSUME Cx!CexInv, NEW c \in Clerks, NEW k \in 1..Len(imports),
         Cx!deleteCexVerificationSession(c, k)
  PROVE  Cx!CexInv'
<1> DEFINE n == Len(imports)
           todo == [next |-> "deleteImport", id |-> k]
<1>1. /\ imports \in Seq(Cx!ImportRow) /\ trades \in Seq(Seq(Cx!Trade)) /\ Len(trades) = n
      /\ uploader \in [Clerks -> Statements(n)] /\ n \in Nat
      /\ DOMAIN trades = 1..n /\ k \in 1..n
      /\ \A i \in 1..n : Cx!WholeOrNothing(i)
      /\ \A d \in Clerks : Cx!WholeToCome(d)
      /\ \A r \in reports : Cx!ReportOfWhole(r)
  BY CexParts
<1> HIDE DEF n
<1>2. /\ uploader[c] = Cx!Idle /\ trades' = [trades EXCEPT ![k] = <<>>]
      /\ uploader' = [uploader EXCEPT ![c] = todo]
      /\ imports' = imports /\ reports' = reports /\ tornImports' = tornImports
  BY DEF Cx!deleteCexVerificationSession
<1>3. /\ trades' \in Seq(Seq(Cx!Trade)) /\ Len(trades') = n
      /\ \A i \in 1..n : trades'[i] = IF i = k THEN <<>> ELSE trades[i]
  <2>1. <<>> \in Seq(Cx!Trade)
    OBVIOUS
  <2>2. trades' \in Seq(Seq(Cx!Trade)) /\ Updated(trades, trades', k, <<>>)
    BY <1>1, <1>2, <2>1, UpdatedTable
  <2> QED BY <1>1, <2>2 DEF Updated
<1>4. /\ todo \in Statements(n) /\ todo # Cx!Idle /\ todo.id = k /\ todo.next = "deleteImport"
  BY <1>1 DEF Statements, Cx!Idle
<1> HIDE DEF todo
<1>5. /\ uploader' \in [Clerks -> Statements(n)] /\ uploader'[c] = todo
      /\ \A d \in Clerks : d # c => uploader'[d] = uploader[d]
  BY <1>1, <1>2, <1>4
<1>6. ASSUME NEW i \in 1..n PROVE Cx!WholeOrNothing(i)'
  <2>1. Cx!WholeOrNothing(i)
    BY <1>1
  <2>2. CASE i = k
    <3>1. Cx!At(c, i)' /\ trades'[i] = <<>> /\ Len(trades'[i]) = 0
      BY <1>3, <1>4, <1>5, <2>2 DEF Cx!At
    <3> QED BY <3>1 DEF Cx!WholeOrNothing
  <2>3. CASE i # k
    <3>1. \A d \in Clerks : Cx!At(d, i) => Cx!At(d, i)'
      BY <1>2, <1>5 DEF Cx!At
    <3> QED BY <1>2, <1>3, <2>1, <2>3, <3>1 DEF Cx!WholeOrNothing, Cx!Stored
  <2> QED BY <2>2, <2>3
<1>7. ASSUME NEW d \in Clerks PROVE Cx!WholeToCome(d)'
  <2>1. CASE d = c
    BY <1>4, <1>5, <2>1 DEF Cx!WholeToCome
  <2>2. CASE d # c
    BY <1>1, <1>2, <1>5, <2>2 DEF Cx!WholeToCome
  <2> QED BY <2>1, <2>2
<1>8. \A r \in reports' : Cx!ReportOfWhole(r)'
  BY <1>1, <1>2, ReportsStay
<1> QED BY <1>1, <1>2, <1>3, <1>5, <1>6, <1>7, <1>8, CexPartsNext DEF n

(* The row is deleted unless trades, then all of them, refer to it again.  *)
LEMMA DeleteImportKeeps ==
  ASSUME Cx!CexInv, NEW c \in Clerks, Cx!DeleteImport(c)
  PROVE  Cx!CexInv'
<1> DEFINE n == Len(imports)
<1>1. /\ imports \in Seq(Cx!ImportRow) /\ trades \in Seq(Seq(Cx!Trade)) /\ Len(trades) = n
      /\ uploader \in [Clerks -> Statements(n)] /\ n \in Nat
      /\ DOMAIN imports = 1..n /\ \A i \in 1..n : imports[i] \in Cx!ImportRow
      /\ \A i \in 1..n : Cx!WholeOrNothing(i)
      /\ \A d \in Clerks : Cx!WholeToCome(d)
      /\ \A r \in reports : Cx!ReportOfWhole(r)
  BY CexParts
<1>2. PICK k \in 1..n : uploader[c].id = k
  <2> HIDE DEF n
  <2> QED BY <1>1, StatementKinds DEF Cx!DeleteImport
<1> DEFINE new == [imports[k] EXCEPT !.status = "gone"]
<1>3. /\ imports' = IF trades[k] = <<>> THEN [imports EXCEPT ![k] = new] ELSE imports
      /\ uploader' = [uploader EXCEPT ![c] = Cx!Idle]
      /\ trades' = trades /\ reports' = reports /\ tornImports' = tornImports
  BY <1>2 DEF Cx!DeleteImport
<1> HIDE DEF n
<1>4. new \in Cx!ImportRow
  BY <1>1, Zenon DEF Cx!ImportRow
<1>5. new.status = "gone" /\ new.validTradesCount = imports[k].validTradesCount
  BY <1>1 DEF Cx!ImportRow
<1>6. ~Cx!Undecided(new)
  BY <1>5 DEF Cx!Undecided
<1> HIDE DEF new
<1>7. /\ imports' \in Seq(Cx!ImportRow) /\ Len(imports') = n
      /\ \A i \in 1..n : imports'[i] = IF i = k /\ trades[k] = <<>> THEN new ELSE imports[i]
  <2>1. CASE trades[k] = <<>>
    <3>1. imports' \in Seq(Cx!ImportRow) /\ Updated(imports, imports', k, new)
      BY <1>1, <1>3, <1>4, <2>1, UpdatedTable
    <3> QED BY <1>1, <2>1, <3>1 DEF Updated, n
  <2>2. CASE trades[k] # <<>>
    BY <1>1, <1>3, <2>2 DEF n
  <2> QED BY <2>1, <2>2
<1>8. /\ uploader' \in [Clerks -> Statements(n)] /\ uploader'[c] = Cx!Idle
      /\ \A d \in Clerks : d # c => uploader'[d] = uploader[d]
  <2>1. Cx!Idle \in Statements(n)
    BY DEF Statements
  <2> QED BY <1>1, <1>3, <2>1
<1>9. ASSUME NEW i \in 1..n PROVE Cx!WholeOrNothing(i)'
  <2>1. Cx!WholeOrNothing(i)
    BY <1>1
  <2>2. CASE i = k /\ trades[k] = <<>>
    BY <1>3, <1>5, <1>6, <1>7, <2>1, <2>2 DEF Cx!WholeOrNothing, Cx!Stored
  <2>3. CASE i = k /\ trades[k] # <<>>
    BY <1>3, <1>7, <2>1, <2>3 DEF Cx!WholeOrNothing, Cx!Stored
  <2>4. CASE i # k
    <3>1. \A d \in Clerks : Cx!At(d, i) => Cx!At(d, i)'
      BY <1>2, <1>8, <2>4 DEF Cx!At
    <3> QED BY <1>3, <1>7, <2>1, <2>4, <3>1 DEF Cx!WholeOrNothing, Cx!Stored
  <2> QED BY <2>2, <2>3, <2>4
<1>10. ASSUME NEW d \in Clerks PROVE Cx!WholeToCome(d)'
  <2>1. CASE d = c
    BY <1>8, <2>1 DEF Cx!WholeToCome, Cx!Idle
  <2>2. CASE d # c
    <3>1. /\ Cx!WholeToCome(d) /\ uploader'[d] = uploader[d]
          /\ uploader[d].next = "insertTrades" => uploader[d].id \in 1..n
      BY <1>1, <1>8, <2>2, StatementKinds
    <3>2. CASE uploader[d].id = k /\ trades[k] = <<>>
      BY <1>5, <1>6, <1>7, <3>1, <3>2 DEF Cx!WholeToCome
    <3>3. CASE ~(uploader[d].id = k /\ trades[k] = <<>>)
      BY <1>7, <3>1, <3>3 DEF Cx!WholeToCome
    <3> QED BY <3>2, <3>3
  <2> QED BY <2>1, <2>2
<1>11. \A r \in reports' : Cx!ReportOfWhole(r)'
  <2>1. \A i \in 1..n : imports'[i].validTradesCount = imports[i].validTradesCount
    BY <1>5, <1>7
  <2> QED BY <1>1, <1>3, <1>7, <2>1, ReportsStay DEF n
<1> QED BY <1>1, <1>3, <1>7, <1>8, <1>9, <1>10, <1>11, CexPartsNext

(* The process stops; the imports it was busy with are known.              *)
LEMMA CrashKeeps ==
  ASSUME Cx!CexInv, Cx!Crash
  PROVE  Cx!CexInv'
<1>1. /\ imports \in Seq(Cx!ImportRow) /\ trades \in Seq(Seq(Cx!Trade))
      /\ Len(trades) = Len(imports)
      /\ \A i \in 1..Len(imports) : Cx!WholeOrNothing(i)
      /\ \A r \in reports : Cx!ReportOfWhole(r)
  BY CexParts
<1>2. /\ tornImports' = tornImports \cup {uploader[c].id : c \in {d \in Clerks : uploader[d] # Cx!Idle}}
      /\ uploader' = [c \in Clerks |-> Cx!Idle]
      /\ UNCHANGED <<imports, trades, reports>>
  BY DEF Cx!Crash
<1>3. uploader' \in [Clerks -> Statements(Len(imports'))]
  <2>1. Cx!Idle \in Statements(Len(imports'))
    BY DEF Statements
  <2> QED BY <1>2, <2>1
<1>4. ASSUME NEW i \in 1..Len(imports) PROVE Cx!WholeOrNothing(i)'
  <2>1. \A c \in Clerks : Cx!At(c, i) => i \in tornImports'
    BY <1>2 DEF Cx!At
  <2>2. Cx!WholeOrNothing(i) /\ tornImports \subseteq tornImports'
    BY <1>1, <1>2
  <2> QED BY <1>2, <2>1, <2>2 DEF Cx!WholeOrNothing, Cx!Stored
<1>5. ASSUME NEW d \in Clerks PROVE Cx!WholeToCome(d)'
  BY <1>2 DEF Cx!WholeToCome, Cx!Idle
<1>6. \A r \in reports' : Cx!ReportOfWhole(r)'
  BY <1>1, <1>2, ReportsStay
<1> QED BY <1>1, <1>2, <1>3, <1>4, <1>5, <1>6, CexPartsNext

(* The second statement of a request throws; its import is known.          *)
LEMMA StatementFailsKeeps ==
  ASSUME Cx!CexInv, NEW c \in Clerks, Cx!StatementFails(c)
  PROVE  Cx!CexInv'
<1>1. /\ imports \in Seq(Cx!ImportRow) /\ trades \in Seq(Seq(Cx!Trade))
      /\ Len(trades) = Len(imports)
      /\ uploader \in [Clerks -> Statements(Len(imports))]
      /\ \A i \in 1..Len(imports) : Cx!WholeOrNothing(i)
      /\ \A d \in Clerks : Cx!WholeToCome(d)
      /\ \A r \in reports : Cx!ReportOfWhole(r)
  BY CexParts
<1>2. /\ tornImports' = tornImports \cup {uploader[c].id}
      /\ uploader' = [uploader EXCEPT ![c] = Cx!Idle]
      /\ UNCHANGED <<imports, trades, reports>>
  BY DEF Cx!StatementFails
<1>3. uploader' \in [Clerks -> Statements(Len(imports'))]
  <2>1. Cx!Idle \in Statements(Len(imports))
    BY DEF Statements
  <2> QED BY <1>1, <1>2, <2>1
<1>4. uploader'[c] = Cx!Idle /\ \A d \in Clerks : d # c => uploader'[d] = uploader[d]
  BY <1>1, <1>2
<1>5. ASSUME NEW i \in 1..Len(imports) PROVE Cx!WholeOrNothing(i)'
  <2>1. \A d \in Clerks : Cx!At(d, i) => Cx!At(d, i)' \/ i \in tornImports'
    BY <1>2, <1>4 DEF Cx!At
  <2>2. Cx!WholeOrNothing(i) /\ tornImports \subseteq tornImports'
    BY <1>1, <1>2
  <2> QED BY <1>2, <2>1, <2>2 DEF Cx!WholeOrNothing, Cx!Stored
<1>6. ASSUME NEW d \in Clerks PROVE Cx!WholeToCome(d)'
  BY <1>1, <1>2, <1>4 DEF Cx!WholeToCome, Cx!Idle
<1>7. \A r \in reports' : Cx!ReportOfWhole(r)'
  BY <1>1, <1>2, ReportsStay
<1> QED BY <1>1, <1>2, <1>3, <1>5, <1>6, <1>7, CexPartsNext

(* A report reads what is stored, in the order of time.                    *)
LEMMA ReportKeeps ==
  ASSUME Cx!CexInv, NEW c \in Clerks, NEW k \in 1..Len(imports), NEW method, NEW fees,
         Cx!Report(c, k, method, fees)
  PROVE  Cx!CexInv'
<1>1. /\ imports \in Seq(Cx!ImportRow) /\ trades \in Seq(Seq(Cx!Trade))
      /\ Len(trades) = Len(imports) /\ trades[k] \in Seq(Cx!Trade)
      /\ uploader \in [Clerks -> Statements(Len(imports))]
      /\ \A i \in 1..Len(imports) : Cx!WholeOrNothing(i)
      /\ \A d \in Clerks : Cx!WholeToCome(d)
      /\ \A r \in reports : Cx!ReportOfWhole(r)
  BY CexParts
<1>2. PICK p \in Cx!ByTime(trades[k]) :
        LET read == [n \in DOMAIN p |-> p[n][2]]
        IN reports' = reports \cup
             {[id |-> k, method |-> method, fees |-> fees, read |-> read,
               report |-> Cx!generateCexSubmissionReport(read, method, fees, MinTrades, MinDays)]}
  BY Zenon DEF Cx!Report
<1>3. PICK read : read = [n \in DOMAIN p |-> p[n][2]]
  OBVIOUS
<1>4. PICK report : report = Cx!generateCexSubmissionReport(read, method, fees, MinTrades, MinDays)
  OBVIOUS
<1> DEFINE new == [id |-> k, method |-> method, fees |-> fees, read |-> read, report |-> report]
<1>5. reports' = reports \cup {new}
  BY <1>2, <1>3, <1>4, Zenon
<1>6. UNCHANGED <<imports, trades, uploader, tornImports>>
  BY DEF Cx!Report
<1>7. /\ read \in Seq(Cx!Trade) /\ Len(read) = Len(trades[k])
      /\ \A n, m \in DOMAIN read : n <= m => read[n].time <= read[m].time
  BY <1>1, <1>3, ReadByTime
<1>8. Len(trades[k]) \in {0, imports[k].validTradesCount}
  BY <1>1 DEF Cx!WholeOrNothing
<1>9. /\ new.id = k /\ new.read = read /\ new.method = method /\ new.fees = fees
      /\ new.report = report
  OBVIOUS
<1> HIDE DEF new
<1>10. ASSUME NEW r \in reports' PROVE Cx!ReportOfWhole(r)'
  <2>1. CASE r \in reports
    <3>1. Cx!ReportOfWhole(r)
      BY <1>1, <2>1
    <3> QED BY <1>6, <3>1 DEF Cx!ReportOfWhole, Cx!Ids
  <2>2. CASE r = new
    BY <1>4, <1>6, <1>7, <1>8, <1>9, <2>2 DEF Cx!ReportOfWhole, Cx!Ids
  <2> QED BY <1>5, <2>1, <2>2
<1>11. \A i \in 1..Len(imports) : Cx!WholeOrNothing(i)'
  BY <1>1, <1>6 DEF Cx!WholeOrNothing, Cx!Stored, Cx!At
<1>12. \A d \in Clerks : Cx!WholeToCome(d)'
  BY <1>1, <1>6 DEF Cx!WholeToCome
<1> QED BY <1>1, <1>6, <1>10, <1>11, <1>12, CexPartsNext

(* Every step keeps the invariant.                                         *)
LEMMA CexStepKeeps ==
  ASSUME Cx!CexInv, [Cx!Next]_Cx!cexVars
  PROVE  Cx!CexInv'
<1>1. CASE Cx!Next
  BY <1>1, CreateSessionKeeps, FetchKeeps, InsertTradesKeeps, DeleteImportKeeps, DecideKeeps,
     DeleteSessionKeeps, ReportKeeps, CrashKeeps, StatementFailsKeeps DEF Cx!Next, Cx!Ids
<1>2. CASE UNCHANGED Cx!cexVars
  BY <1>2 DEF Cx!cexVars, Cx!CexInv, Cx!Types, Cx!Statement, Cx!Ids, Cx!WholeOrNothing,
     Cx!Stored, Cx!At, Cx!WholeToCome, Cx!ReportOfWhole
<1> QED BY <1>1, <1>2


-----------------------------------------------------------------------------
(***************************************************************************)
(* The vault.                                                              *)
(***************************************************************************)
(* The running sums of a list of numbers.                                  *)
LEMMA RunningSums ==
  ASSUME NEW s \in Seq(Nat)
  PROVE  \E f \in [0..Len(s) -> Nat] :
           /\ f[0] = 0 /\ \A n \in 1..Len(s) : f[n] = f[n - 1] + s[n]
           /\ Vt!Total(s) = f[Len(s)]
<1> DEFINE N == Len(s)
           F == [n \in 1..N |-> [x \in Nat |-> x + s[n]]]
           V == [n \in 0..N |-> Nat]
           Body(f, n) == IF n = 0 THEN 0 ELSE f[n - 1] + s[n]
           Def(f) == f = [n \in 0..N |-> Body(f, n)]
           sum == CHOOSE f : Def(f)
<1>1. /\ N \in Nat /\ 0 \in 0..N /\ N \in 0..N
      /\ \A n \in 1..N : s[n] \in Nat /\ n \in 0..N /\ n - 1 \in 0..N
  OBVIOUS
<1>2. V \in [0..N -> SUBSET Nat] /\ 0 \in V[0] /\ Leads(F, N, V)
  <2> HIDE DEF N
  <2>1. 0 \in V[0]
    BY <1>1
  <2>2. \A n \in 1..N : \A x \in V[n - 1] : F[n][x] \in V[n]
    BY <1>1
  <2> QED BY <2>1, <2>2 DEF Leads
<1>3. PICK f \in [0..N -> Nat] : IsLoop(f, N, 0, F)
  <2> HIDE DEF F, V, N
  <2> QED BY <1>1, <1>2, Recursion
<1>4. f[0] = 0 /\ \A n \in 1..N : f[n] = f[n - 1] + s[n]
  <2>1. \A n \in 1..N : f[n - 1] \in Nat
    BY <1>1, <1>3
  <2> HIDE DEF N
  <2> QED BY <1>3, <2>1 DEF IsLoop
<1>5. Def(f)
  <2>1. \A n \in 0..N : f[n] = Body(f, n)
    <3> HIDE DEF N
    <3> QED BY <1>1, <1>4
  <2> HIDE DEF Body, N
  <2> QED BY <1>3, <2>1
<1>6. Def(sum)
  <2> HIDE DEF Def
  <2> QED BY <1>5
<1>7. \A n \in 0..N : sum[n] = Body(sum, n)
  <2> HIDE DEF Body, sum, N
  <2> QED BY <1>6
<1>8. sum[N] = f[N]
  <2> DEFINE W == [n \in 0..N |-> {f[n]}]
  <2>1. sum[0] \in W[0]
    <3> HIDE DEF sum, N
    <3> QED BY <1>1, <1>4, <1>7
  <2>2. ASSUME NEW n \in 1..N, sum[n - 1] \in W[n - 1] PROVE sum[n] \in W[n]
    <3> HIDE DEF sum, N
    <3>1. sum[n] = sum[n - 1] + s[n] /\ sum[n - 1] = f[n - 1]
      BY <1>1, <1>7, <2>2
    <3> QED BY <1>1, <1>4, <3>1
  <2>3. \A n \in 0..N : sum[n] \in W[n]
    <3> HIDE DEF sum, W, N
    <3> QED BY <1>1, <2>1, <2>2, LoopInvariant
  <2> HIDE DEF sum, N
  <2> QED BY <1>1, <2>3
<1>9. Vt!Total(s) = sum[N]
  BY DEF Vt!Total
<1> HIDE DEF sum
<1> QED BY <1>4, <1>8, <1>9

(* A number more adds that number.                                         *)
LEMMA TotalGrows ==
  ASSUME NEW s \in Seq(Nat), NEW x \in Nat
  PROVE  /\ Vt!Total(s) \in Nat /\ Vt!Total(Append(s, x)) = Vt!Total(s) + x
<1> DEFINE N == Len(s)
           t == Append(s, x)
<1>1. /\ t \in Seq(Nat) /\ Len(t) = N + 1 /\ t[N + 1] = x /\ N \in Nat
      /\ \A n \in 1..N : t[n] = s[n]
  OBVIOUS
<1> HIDE DEF t
<1>2. PICK f \in [0..N -> Nat] : /\ f[0] = 0 /\ \A n \in 1..N : f[n] = f[n - 1] + s[n]
                                 /\ Vt!Total(s) = f[N]
  BY RunningSums
<1>3. PICK g \in [0..(N + 1) -> Nat] : /\ g[0] = 0 /\ \A n \in 1..(N + 1) : g[n] = g[n - 1] + t[n]
                                       /\ Vt!Total(t) = g[N + 1]
  BY <1>1, RunningSums
<1> HIDE DEF N
<1>4. \A n \in 1..N : n \in 1..(N + 1) /\ n \in 0..N /\ n - 1 \in 0..N
  BY <1>1
<1>5. \A n \in 0..N : g[n] \in [m \in 0..N |-> {f[m]}][n]
  <2> DEFINE W == [m \in 0..N |-> {f[m]}]
  <2>1. g[0] \in W[0]
    BY <1>1, <1>2, <1>3
  <2>2. ASSUME NEW n \in 1..N, g[n - 1] \in W[n - 1] PROVE g[n] \in W[n]
    BY <1>1, <1>2, <1>3, <1>4, <2>2
  <2> HIDE DEF W
  <2>3. \A n \in 0..N : g[n] \in W[n]
    BY <1>1, <2>1, <2>2, LoopInvariant
  <2> QED BY <2>3 DEF W
<1>6. g[N] = f[N] /\ g[N + 1] = g[N] + x /\ f[N] \in Nat
  <2>1. N \in 0..N /\ N + 1 \in 1..(N + 1) /\ (N + 1) - 1 = N
    BY <1>1
  <2> QED BY <1>1, <1>2, <1>3, <1>5, <2>1
<1> QED BY <1>2, <1>3, <1>6 DEF t

(* The same of a sum over the rows of a table.                             *)
LEMMA SumsOfTable ==
  ASSUME NEW N \in Nat, NEW f \in [1..N -> Nat]
  PROVE  /\ Vt!Total(f) \in Nat
         /\ \A g \in [1..(N + 1) -> Nat] :
              (\A n \in 1..N : g[n] = f[n]) => Vt!Total(g) = Vt!Total(f) + g[N + 1]
<1>1. f \in Seq(Nat)
  BY SeqDef
<1>2. Vt!Total(f) \in Nat
  BY <1>1, TotalGrows
<1>3. ASSUME NEW g \in [1..(N + 1) -> Nat], \A n \in 1..N : g[n] = f[n]
      PROVE  Vt!Total(g) = Vt!Total(f) + g[N + 1]
  <2>1. g = Append(f, g[N + 1])
    BY <1>3, AppendedEntry
  <2>2. g[N + 1] \in Nat
    OBVIOUS
  <2> QED BY <1>1, <2>1, <2>2, TotalGrows
<1> QED BY <1>2, <1>3

(* A table with a row more is a table.                                     *)
LEMMA TableOfRows ==
  ASSUME NEW s, s \in Seq(Vt!ToSet(s)), NEW e
  PROVE  Append(s, e) \in Seq(Vt!ToSet(Append(s, e)))
<1>1. PICK S : S = Vt!ToSet(s) \cup {e}
  OBVIOUS
<1>2. s \in Seq(S) /\ e \in S
  BY <1>1
<1>3. PICK t : t = Append(s, e)
  OBVIOUS
<1>4. t \in Seq(S)
  BY <1>2, <1>3
<1>5. \A i \in DOMAIN t : t[i] \in Vt!ToSet(t)
  BY DEF Vt!ToSet
<1>6. t \in Seq(Vt!ToSet(t))
  BY <1>4, <1>5
<1> QED BY <1>3, <1>6

(* The shares of the depositors, and what a deposit adds to them.          *)
LEMMA DepositGrows ==
  ASSUME lots \in Seq(Vt!ToSet(lots)), \A i \in DOMAIN lots : lots[i].shares \in Nat,
         NEW lot, lot.shares \in Nat, lots' = Append(lots, lot), NEW d
  PROVE  Vt!ActiveShares(d)' = Vt!ActiveShares(d) + (IF lot.depositor = d THEN lot.shares ELSE 0)
<1> DEFINE f == [n \in DOMAIN lots |-> IF lots[n].depositor = d THEN lots[n].shares ELSE 0]
           g == [n \in DOMAIN lots' |-> IF lots'[n].depositor = d THEN lots'[n].shares ELSE 0]
           x == IF lot.depositor = d THEN lot.shares ELSE 0
<1>1. Vt!ActiveShares(d) = Vt!Total(f) /\ Vt!ActiveShares(d)' = Vt!Total(g)
  BY DEF Vt!ActiveShares, Vt!SumOf
<1>2. /\ DOMAIN lots \subseteq DOMAIN lots' /\ Len(lots) + 1 \in DOMAIN lots'
      /\ lots'[Len(lots) + 1] = lot /\ \A n \in DOMAIN lots : lots'[n] = lots[n]
  OBVIOUS
<1>3. x \in Nat /\ \A n \in DOMAIN lots : f[n] \in Nat
  OBVIOUS
<1>4. g[Len(lots) + 1] = x /\ \A n \in DOMAIN lots : g[n] = f[n]
  BY <1>2
<1>5. PICK N \in Nat : /\ N = Len(lots) /\ DOMAIN lots = 1..N
                      /\ DOMAIN lots' = 1..(N + 1)
  OBVIOUS
<1>6. f \in [1..N -> Nat] /\ g \in [1..(N + 1) -> Nat]
  <2>1. \A n \in 1..(N + 1) : g[n] \in Nat
    <3>1. \A n \in 1..(N + 1) : n \in 1..N \/ n = N + 1
      OBVIOUS
    <3> HIDE DEF f, g, x
    <3> QED BY <1>3, <1>4, <1>5, <3>1
  <2> QED BY <1>3, <1>5, <2>1
<1> HIDE DEF f, g, x
<1>7. Vt!Total(g) = Vt!Total(f) + x
  BY <1>4, <1>5, <1>6, SumsOfTable
<1> QED BY <1>1, <1>7 DEF x

(* The same of the requests.                                               *)
LEMMA RequestGrows ==
  ASSUME redemptions \in Seq(Vt!ToSet(redemptions)),
         \A i \in DOMAIN redemptions : redemptions[i].shares \in Nat,
         NEW req, req.shares \in Nat, redemptions' = Append(redemptions, req), NEW d
  PROVE  Vt!PendingShares(d)' = Vt!PendingShares(d) + (IF req.depositor = d THEN req.shares ELSE 0)
<1> DEFINE f == [n \in DOMAIN redemptions |->
                   IF redemptions[n].depositor = d THEN redemptions[n].shares ELSE 0]
           g == [n \in DOMAIN redemptions' |->
                   IF redemptions'[n].depositor = d THEN redemptions'[n].shares ELSE 0]
           x == IF req.depositor = d THEN req.shares ELSE 0
<1>1. Vt!PendingShares(d) = Vt!Total(f) /\ Vt!PendingShares(d)' = Vt!Total(g)
  BY DEF Vt!PendingShares, Vt!SumOf
<1>2. /\ DOMAIN redemptions \subseteq DOMAIN redemptions' /\ Len(redemptions) + 1 \in DOMAIN redemptions'
      /\ redemptions'[Len(redemptions) + 1] = req
      /\ \A n \in DOMAIN redemptions : redemptions'[n] = redemptions[n]
  OBVIOUS
<1>3. x \in Nat /\ \A n \in DOMAIN redemptions : f[n] \in Nat
  OBVIOUS
<1>4. g[Len(redemptions) + 1] = x /\ \A n \in DOMAIN redemptions : g[n] = f[n]
  BY <1>2
<1>5. PICK N \in Nat : /\ N = Len(redemptions) /\ DOMAIN redemptions = 1..N
                      /\ DOMAIN redemptions' = 1..(N + 1)
  OBVIOUS
<1>6. f \in [1..N -> Nat] /\ g \in [1..(N + 1) -> Nat]
  <2>1. \A n \in 1..(N + 1) : g[n] \in Nat
    <3>1. \A n \in 1..(N + 1) : n \in 1..N \/ n = N + 1
      OBVIOUS
    <3> HIDE DEF f, g, x
    <3> QED BY <1>3, <1>4, <1>5, <3>1
  <2> QED BY <1>3, <1>5, <2>1
<1> HIDE DEF f, g, x
<1>7. Vt!Total(g) = Vt!Total(f) + x
  BY <1>4, <1>5, <1>6, SumsOfTable
<1> QED BY <1>1, <1>7 DEF x

(* Sums over the tables are natural numbers.                               *)
LEMMA SumsAreNatural ==
  ASSUME Vt!VaultInv
  PROVE  /\ Vt!TotalShares \in Nat /\ Vt!TotalAssets \in Int
         /\ \A d : Vt!ActiveShares(d) \in Nat /\ Vt!PendingShares(d) \in Nat
<1>1. ASSUME NEW s, s \in Seq(Vt!ToSet(s)), NEW f, f = [n \in DOMAIN s |-> f[n]],
             \A n \in DOMAIN s : f[n] \in Nat
      PROVE  Vt!Total(f) \in Nat
  <2>1. PICK N \in Nat : DOMAIN s = 1..N
    BY <1>1
  <2>2. f \in [1..N -> Nat]
    BY <1>1, <2>1
  <2> QED BY <2>2, SumsOfTable
<1>2. /\ lots \in Seq(Vt!ToSet(lots)) /\ redemptions \in Seq(Vt!ToSet(redemptions)) /\ nav \in Int
      /\ \A i \in DOMAIN lots : lots[i].shares \in Nat /\ lots[i].amount \in Nat
      /\ \A k \in DOMAIN redemptions : redemptions[k].shares \in Nat
  BY DEF Vt!VaultInv
<1>3. Vt!TotalShares \in Nat
  <2> DEFINE f == [n \in DOMAIN lots |-> lots[n].shares]
  <2>1. f = [n \in DOMAIN lots |-> f[n]] /\ \A n \in DOMAIN lots : f[n] \in Nat
    BY <1>2
  <2>2. Vt!TotalShares = Vt!Total(f)
    BY DEF Vt!TotalShares, Vt!SumOf
  <2> HIDE DEF f
  <2> QED BY <1>1, <1>2, <2>1, <2>2
<1>4. Vt!TotalAssets \in Int
  <2> DEFINE f == [n \in DOMAIN lots |-> lots[n].amount]
  <2>1. f = [n \in DOMAIN lots |-> f[n]] /\ \A n \in DOMAIN lots : f[n] \in Nat
    BY <1>2
  <2>2. Vt!TotalAssets = IF nav = Vt!None THEN Vt!Total(f) ELSE nav
    BY DEF Vt!TotalAssets, Vt!SumOf
  <2> HIDE DEF f
  <2> QED BY <1>1, <1>2, <2>1, <2>2
<1>5. ASSUME NEW d PROVE Vt!ActiveShares(d) \in Nat
  <2> DEFINE f == [n \in DOMAIN lots |-> IF lots[n].depositor = d THEN lots[n].shares ELSE 0]
  <2>1. f = [n \in DOMAIN lots |-> f[n]] /\ \A n \in DOMAIN lots : f[n] \in Nat
    BY <1>2
  <2>2. Vt!ActiveShares(d) = Vt!Total(f)
    BY DEF Vt!ActiveShares, Vt!SumOf
  <2> HIDE DEF f
  <2> QED BY <1>1, <1>2, <2>1, <2>2
<1>6. ASSUME NEW d PROVE Vt!PendingShares(d) \in Nat
  <2> DEFINE f == [n \in DOMAIN redemptions |->
                     IF redemptions[n].depositor = d THEN redemptions[n].shares ELSE 0]
  <2>1. f = [n \in DOMAIN redemptions |-> f[n]] /\ \A n \in DOMAIN redemptions : f[n] \in Nat
    BY <1>2
  <2>2. Vt!PendingShares(d) = Vt!Total(f)
    BY DEF Vt!PendingShares, Vt!SumOf
  <2> HIDE DEF f
  <2> QED BY <1>1, <1>2, <2>1, <2>2
<1> QED BY <1>3, <1>4, <1>5, <1>6

(* Untouched tables keep their sums.                                       *)
LEMMA SumsStay ==
  /\ lots' = lots => \A d : Vt!ActiveShares(d)' = Vt!ActiveShares(d)
  /\ redemptions' = redemptions => \A d : Vt!PendingShares(d)' = Vt!PendingShares(d)
BY DEF Vt!ActiveShares, Vt!PendingShares, Vt!SumOf

(* A session takes up, or puts down, an operation.                         *)
LEMMA DeskChanges ==
  ASSUME desk \in [VaultSessions -> {desk[s] : s \in VaultSessions}], NEW s \in VaultSessions, NEW o,
         desk' = [desk EXCEPT ![s] = o]
  PROVE  /\ desk' \in [VaultSessions -> {desk'[t] : t \in VaultSessions}]
         /\ desk'[s] = o /\ \A t \in VaultSessions \ {s} : desk'[t] = desk[t]
<1>1. desk'[s] = o /\ DOMAIN desk' = VaultSessions
  OBVIOUS
<1>2. \A t \in VaultSessions \ {s} : desk'[t] = desk[t]
  OBVIOUS
<1>3. desk' = [t \in VaultSessions |-> desk'[t]]
  OBVIOUS
<1> QED BY <1>1, <1>2, <1>3, Zenon

(* The tables of the invariant, and what is left to show of the next state *)
(* when they are again tables.                                             *)
LEMMA VaultTables ==
  ASSUME Vt!VaultInv
  PROVE  /\ lots \in Seq(Vt!ToSet(lots)) /\ redemptions \in Seq(Vt!ToSet(redemptions)) /\ nav \in Int
         /\ desk \in [VaultSessions -> {desk[s] : s \in VaultSessions}]
         /\ \A i \in DOMAIN lots : lots[i].shares \in Nat /\ lots[i].amount \in Nat
         /\ \A k \in DOMAIN redemptions : redemptions[k].shares \in Nat
         /\ \A s \in VaultSessions : Vt!Read(s)
         /\ \A s \in VaultSessions : \A d \in Depositors : Vt!StillFits(s, d)
         /\ Vt!NeverOversubscribed
         /\ disturbed = [overlap |-> disturbed.overlap, order |-> disturbed.order]
BY DEF Vt!VaultInv

LEMMA VaultTablesNext ==
  ASSUME lots' \in Seq(Vt!ToSet(lots')), redemptions' \in Seq(Vt!ToSet(redemptions')), nav' \in Int,
         desk' \in [VaultSessions -> {desk'[s] : s \in VaultSessions}],
         \A i \in DOMAIN lots' : lots'[i].shares \in Nat /\ lots'[i].amount \in Nat,
         \A k \in DOMAIN redemptions' : redemptions'[k].shares \in Nat,
         \A s \in VaultSessions : Vt!Read(s)',
         \A s \in VaultSessions : \A d \in Depositors : Vt!StillFits(s, d)',
         Vt!NeverOversubscribed',
         disturbed' = [overlap |-> disturbed'.overlap, order |-> disturbed'.order]
  PROVE  Vt!VaultInv'
BY Zenon DEF Vt!VaultInv

(* No tables at first.                                                     *)
LEMMA VaultInitially ==
  ASSUME Vt!Init
  PROVE  Vt!VaultInv
<1>1. /\ lots = <<>> /\ redemptions = <<>> /\ nav = -1 /\ disturbed = [overlap |-> {}, order |-> {}]
      /\ desk = [s \in VaultSessions |-> Vt!Idle]
  BY DEF Vt!Init, Vt!None
<1>2. lots \in Seq(Vt!ToSet(lots)) /\ redemptions \in Seq(Vt!ToSet(redemptions)) /\ nav \in Int
  BY <1>1
<1>3. desk \in [VaultSessions -> {desk[s] : s \in VaultSessions}]
  BY <1>1
<1>4. \A s \in VaultSessions : desk[s].op = "idle"
  BY <1>1 DEF Vt!Idle
<1>5. \A d : Vt!PendingShares(d) = Vt!ActiveShares(d)
  BY <1>1 DEF Vt!PendingShares, Vt!ActiveShares, Vt!SumOf
<1>6. /\ \A i \in DOMAIN lots : lots[i].shares \in Nat /\ lots[i].amount \in Nat
      /\ \A k \in DOMAIN redemptions : redemptions[k].shares \in Nat
  BY <1>1
<1>7. \A s \in VaultSessions : Vt!Read(s) /\ \A d \in Depositors : Vt!StillFits(s, d)
  BY <1>4 DEF Vt!Read, Vt!StillFits
<1>8. Vt!NeverOversubscribed
  <2>1. \A d : Vt!ActiveShares(d) \in Nat
    <3>1. ASSUME NEW d PROVE Vt!ActiveShares(d) \in Nat
      <4> DEFINE g == [n \in DOMAIN lots |-> IF lots[n].depositor = d THEN lots[n].shares ELSE 0]
      <4>1. g \in [1..0 -> Nat] /\ 0 \in Nat
        BY <1>1
      <4>2. Vt!ActiveShares(d) = Vt!Total(g)
        BY DEF Vt!ActiveShares, Vt!SumOf
      <4> HIDE DEF g
      <4> QED BY <4>1, <4>2, SumsOfTable
    <3> QED BY <3>1
  <2> QED BY <1>5, <2>1 DEF Vt!NeverOversubscribed
<1>9. disturbed = [overlap |-> disturbed.overlap, order |-> disturbed.order]
  BY <1>1
<1> QED BY <1>2, <1>3, <1>6, <1>7, <1>8, <1>9 DEF Vt!VaultInv

(* A deposit reads a price that is positive.                               *)
LEMMA ReadForDepositKeeps ==
  ASSUME Vt!VaultInv, NEW s \in VaultSessions, Vt!ReadForDeposit(s)
  PROVE  Vt!VaultInv'
<1>1. PICK d \in Depositors, amount \in Amounts, at \in DepositDates :
        desk' = [desk EXCEPT ![s] = [op |-> "deposit", depositor |-> d, amount |-> amount,
                                     at |-> at, price |-> Vt!EffectiveSharePrice]]
  BY DEF Vt!ReadForDeposit
<1>2. UNCHANGED <<lots, redemptions, nav, disturbed>>
  BY DEF Vt!ReadForDeposit
<1>3. Vt!EffectiveSharePrice.den \in Nat /\ Vt!EffectiveSharePrice.num \in Nat \ {0}
  <2>1. Vt!TotalShares \in Nat /\ Vt!TotalAssets \in Int
    BY SumsAreNatural
  <2> QED BY <2>1 DEF Vt!EffectiveSharePrice, Vt!NavPerShare
<1>4. PICK price : price = Vt!EffectiveSharePrice
  OBVIOUS
<1>5. PICK o : o = [op |-> "deposit", depositor |-> d, amount |-> amount, at |-> at, price |-> price]
  OBVIOUS
<1>6. /\ o.op = "deposit" /\ o.amount \in Nat /\ o.price.den \in Nat /\ o.price.num \in Nat \ {0}
      /\ desk' = [desk EXCEPT ![s] = o]
  BY <1>1, <1>3, <1>4, <1>5, VaultAssumption
<1>7. /\ desk' \in [VaultSessions -> {desk'[t] : t \in VaultSessions}]
      /\ desk'[s] = o /\ \A t \in VaultSessions \ {s} : desk'[t] = desk[t]
  BY <1>6, VaultTables, DeskChanges
<1>8. \A t \in VaultSessions : Vt!Read(t)'
  BY <1>6, <1>7, VaultTables DEF Vt!Read
<1>9. \A t \in VaultSessions : \A e \in Depositors : Vt!StillFits(t, e)'
  BY <1>2, <1>6, <1>7, VaultTables, SumsStay DEF Vt!StillFits
<1>10. Vt!NeverOversubscribed'
  BY <1>2, VaultTables, SumsStay DEF Vt!NeverOversubscribed
<1> QED BY <1>2, <1>7, <1>8, <1>9, <1>10, VaultTables, VaultTablesNext

(* A lot only adds shares.                                                 *)
LEMMA RecordDepositKeeps ==
  ASSUME Vt!VaultInv, NEW s \in VaultSessions, Vt!recordVaultDeposit(s)
  PROVE  Vt!VaultInv'
<1>1. PICK o : o = desk[s]
  OBVIOUS
<1>2. PICK shares : shares = (o.amount * o.price.den) \div o.price.num
  OBVIOUS
<1>3. PICK lot : lot = [depositor |-> o.depositor, amount |-> o.amount, at |-> o.at,
                        shares |-> shares, expires |-> Vt!addMonths(o.at, LockPeriodMonths)]
  OBVIOUS
<1>p. /\ o.op = "deposit" /\ lots' = Append(lots, lot)
      /\ disturbed' = IF Vt!Displaces(lot)
                      THEN [disturbed EXCEPT !.order = @ \cup {lot.depositor}] ELSE disturbed
      /\ desk' = [desk EXCEPT ![s] = Vt!Idle] /\ UNCHANGED <<redemptions, nav>>
  BY <1>1, <1>2, <1>3 DEF Vt!recordVaultDeposit
<1>4. /\ o.op = "deposit" /\ lots' = Append(lots, lot) /\ disturbed'.overlap = disturbed.overlap
      /\ disturbed' = [overlap |-> disturbed'.overlap, order |-> disturbed'.order]
      /\ desk' = [desk EXCEPT ![s] = Vt!Idle] /\ UNCHANGED <<redemptions, nav>>
  BY <1>p, VaultTables
<1>5. o.amount \in Nat /\ o.price.den \in Nat /\ o.price.num \in Nat \ {0}
  BY <1>1, <1>4, VaultTables DEF Vt!Read
<1>6. shares \in Nat
  <2>1. ASSUME NEW a \in Nat, NEW b \in Nat, NEW c \in Nat \ {0} PROVE (a * b) \div c \in Nat
    <3>1. PICK m \in Nat : m = a * b
      OBVIOUS
    <3>2. m \div c \in Nat
      OBVIOUS
    <3> QED BY <3>1, <3>2
  <2> QED BY <1>2, <1>5, <2>1
<1>7. lot.shares = shares /\ lot.amount = o.amount
  BY <1>3
<1>8. lots' \in Seq(Vt!ToSet(lots'))
  BY <1>4, VaultTables, TableOfRows
<1>9. \A i \in DOMAIN lots' : lots'[i].shares \in Nat /\ lots'[i].amount \in Nat
  <2>0. lots \in Seq(Vt!ToSet(lots)) /\ lots' = Append(lots, lot)
    BY <1>4, VaultTables
  <2>1. PICK n \in Nat : n = Len(lots) /\ DOMAIN lots = 1..n /\ DOMAIN lots' = 1..(n + 1)
    BY <2>0
  <2>2. lots'[n + 1] = lot /\ \A i \in 1..n : lots'[i] = lots[i]
    BY <2>0, <2>1
  <2>3. \A i \in 1..(n + 1) : i \in 1..n \/ i = n + 1
    OBVIOUS
  <2> QED BY <1>5, <1>6, <1>7, <2>1, <2>2, <2>3, VaultTables
<1>10. ASSUME NEW d PROVE /\ Vt!ActiveShares(d)' >= Vt!ActiveShares(d) /\ Vt!ActiveShares(d)' \in Nat
                          /\ Vt!ActiveShares(d) \in Nat
                          /\ Vt!PendingShares(d)' = Vt!PendingShares(d) /\ Vt!PendingShares(d) \in Nat
  <2>1. Vt!ActiveShares(d)' = Vt!ActiveShares(d) + (IF lot.depositor = d THEN lot.shares ELSE 0)
    BY <1>4, <1>6, <1>7, VaultTables, DepositGrows
  <2>2. Vt!ActiveShares(d) \in Nat /\ Vt!PendingShares(d) \in Nat
    BY SumsAreNatural
  <2> QED BY <1>4, <1>6, <1>7, <2>1, <2>2, SumsStay
<1>11. /\ desk' \in [VaultSessions -> {desk'[t] : t \in VaultSessions}]
       /\ desk'[s] = Vt!Idle /\ \A t \in VaultSessions \ {s} : desk'[t] = desk[t]
  BY <1>4, VaultTables, DeskChanges
<1>12. \A t \in VaultSessions : Vt!Read(t)'
  BY <1>11, VaultTables DEF Vt!Read, Vt!Idle
<1>13. ASSUME NEW t \in VaultSessions, NEW e \in Depositors PROVE Vt!StillFits(t, e)'
  <2>1. CASE t = s
    BY <1>11, <2>1 DEF Vt!StillFits, Vt!Idle
  <2>2. CASE t # s
    <3>1. Vt!StillFits(t, e) /\ desk'[t] = desk[t] /\ Vt!Read(t)
      BY <1>11, <2>2, VaultTables
    <3> QED BY <1>4, <1>10, <3>1 DEF Vt!StillFits, Vt!Read
  <2> QED BY <2>1, <2>2
<1>14. Vt!NeverOversubscribed'
  BY <1>4, <1>10, VaultTables DEF Vt!NeverOversubscribed
<1> QED BY <1>4, <1>8, <1>9, <1>11, <1>12, <1>13, <1>14, VaultTables, VaultTablesNext

(* A request that is not refused fits.                                     *)
LEMMA ReadForRedemptionKeeps ==
  ASSUME Vt!VaultInv, NEW s \in VaultSessions, Vt!ReadForRedemption(s)
  PROVE  Vt!VaultInv'
<1>p. PICK d \in Depositors, wanted \in 1..2, at \in RequestDates :
        \E order \in Vt!LotsByExpiry(d) :
          /\ ~Vt!Exceeds(d, wanted)
          /\ LET allocated == Vt!Allocate(order, Vt!PendingShares(d), wanted)
                 eligible  == Vt!EligibleAt(at, allocated)
             IN desk' = [desk EXCEPT ![s] =
                  [op |-> "redemption", depositor |-> d, shares |-> wanted, at |-> at,
                   allocated |-> allocated, eligible |-> eligible, known |-> Len(lots),
                   status |-> IF eligible > at THEN "pending_lock" ELSE "queued"]]
  BY Zenon DEF Vt!ReadForRedemption
<1>0. /\ ~Vt!Exceeds(d, wanted)
      /\ \E allocated, eligible, known, status : desk' = [desk EXCEPT ![s] =
           [op |-> "redemption", depositor |-> d, shares |-> wanted, at |-> at,
            allocated |-> allocated, eligible |-> eligible, known |-> known, status |-> status]]
  BY <1>p, Zenon
<1>1. PICK allocated, eligible, known, status :
        desk' = [desk EXCEPT ![s] =
             [op |-> "redemption", depositor |-> d, shares |-> wanted, at |-> at,
              allocated |-> allocated, eligible |-> eligible, known |-> known, status |-> status]]
  BY <1>0
<1>2. UNCHANGED <<lots, redemptions, nav, disturbed>>
  BY DEF Vt!ReadForRedemption
<1>3. PICK o : o = [op |-> "redemption", depositor |-> d, shares |-> wanted, at |-> at,
                    allocated |-> allocated, eligible |-> eligible, known |-> known,
                    status |-> status]
  OBVIOUS
<1>4. /\ o.op = "redemption" /\ o.depositor = d /\ o.shares = wanted /\ wanted \in Nat
      /\ desk' = [desk EXCEPT ![s] = o]
  BY <1>1, <1>3
<1>5. /\ desk' \in [VaultSessions -> {desk'[t] : t \in VaultSessions}]
      /\ desk'[s] = o /\ \A t \in VaultSessions \ {s} : desk'[t] = desk[t]
  BY <1>4, VaultTables, DeskChanges
<1>6. \A t \in VaultSessions : Vt!Read(t)'
  BY <1>4, <1>5, VaultTables DEF Vt!Read
<1>7. Vt!PendingShares(d) + wanted <= Vt!ActiveShares(d)
  <2>1. Vt!PendingShares(d) \in Nat /\ Vt!ActiveShares(d) \in Nat
    BY SumsAreNatural
  <2> QED BY <1>0, <1>4, <2>1 DEF Vt!Exceeds
<1>8. ASSUME NEW t \in VaultSessions, NEW e \in Depositors PROVE Vt!StillFits(t, e)'
  <2>1. CASE t = s
    BY <1>2, <1>4, <1>5, <1>7, <2>1, SumsStay DEF Vt!StillFits
  <2>2. CASE t # s
    BY <1>2, <1>5, <2>2, VaultTables, SumsStay DEF Vt!StillFits
  <2> QED BY <2>1, <2>2
<1>9. Vt!NeverOversubscribed'
  BY <1>2, VaultTables, SumsStay DEF Vt!NeverOversubscribed
<1> QED BY <1>2, <1>5, <1>6, <1>8, <1>9, VaultTables, VaultTablesNext

(* The insert: it fits, and a request of the same depositor that was read  *)
(* before it makes the depositor one whose redemptions overlapped.         *)
LEMMA RequestRedemptionKeeps ==
  ASSUME Vt!VaultInv, NEW s \in VaultSessions, Vt!requestVaultRedemption(s)
  PROVE  Vt!VaultInv'
<1>1. PICK o : o = desk[s]
  OBVIOUS
<1>2. PICK req : req = [depositor |-> o.depositor, shares |-> o.shares, at |-> o.at,
                        allocated |-> o.allocated, eligible |-> o.eligible, status |-> o.status,
                        known |-> o.known]
  OBVIOUS
<1>p. PICK others : others = {t \in VaultSessions \ {s} : desk[t].op = "redemption"
                                                          /\ desk[t].depositor = o.depositor}
  OBVIOUS
<1>q. /\ o.op = "redemption" /\ redemptions' = Append(redemptions, req)
      /\ desk' = [desk EXCEPT ![s] = Vt!Idle] /\ UNCHANGED <<lots, nav>>
      /\ disturbed' = IF others # {}
                      THEN [disturbed EXCEPT !.overlap = @ \cup {o.depositor}] ELSE disturbed
  BY <1>1, <1>2, <1>p DEF Vt!requestVaultRedemption
<1>3. /\ o.op = "redemption" /\ redemptions' = Append(redemptions, req)
      /\ desk' = [desk EXCEPT ![s] = Vt!Idle] /\ UNCHANGED <<lots, nav>>
      /\ disturbed.overlap \subseteq disturbed'.overlap
      /\ disturbed' = [overlap |-> disturbed'.overlap, order |-> disturbed'.order]
      /\ \A t \in VaultSessions \ {s} :
           desk[t].op = "redemption" /\ desk[t].depositor = o.depositor
           => o.depositor \in disturbed'.overlap
  <2>1. /\ disturbed' = [overlap |-> disturbed'.overlap, order |-> disturbed'.order]
        /\ disturbed.overlap \subseteq disturbed'.overlap
        /\ others # {} => o.depositor \in disturbed'.overlap
    BY <1>q, VaultTables
  <2>2. ASSUME NEW t \in VaultSessions \ {s}, desk[t].op = "redemption",
               desk[t].depositor = o.depositor
        PROVE  o.depositor \in disturbed'.overlap
    <3>1. t \in others
      BY <1>p, <2>2
    <3> QED BY <2>1, <3>1
  <2> QED BY <1>q, <2>1, <2>2
<1>4. o.shares \in Nat
  BY <1>1, <1>3, VaultTables DEF Vt!Read
<1>5. req.shares = o.shares /\ req.depositor = o.depositor
  BY <1>2
<1>6. redemptions' \in Seq(Vt!ToSet(redemptions'))
  BY <1>3, VaultTables, TableOfRows
<1>7. \A k \in DOMAIN redemptions' : redemptions'[k].shares \in Nat
  <2>0. redemptions \in Seq(Vt!ToSet(redemptions)) /\ redemptions' = Append(redemptions, req)
    BY <1>3, VaultTables
  <2>1. PICK n \in Nat : n = Len(redemptions) /\ DOMAIN redemptions = 1..n /\ DOMAIN redemptions' = 1..(n + 1)
    BY <2>0
  <2>2. redemptions'[n + 1] = req /\ \A i \in 1..n : redemptions'[i] = redemptions[i]
    BY <2>0, <2>1
  <2>3. \A i \in 1..(n + 1) : i \in 1..n \/ i = n + 1
    OBVIOUS
  <2> QED BY <1>4, <1>5, <2>1, <2>2, <2>3, VaultTables
<1>8. ASSUME NEW d PROVE /\ Vt!PendingShares(d)' = Vt!PendingShares(d) + (IF o.depositor = d THEN o.shares ELSE 0)
                         /\ Vt!ActiveShares(d)' = Vt!ActiveShares(d)
                         /\ Vt!ActiveShares(d) \in Nat /\ Vt!PendingShares(d) \in Nat
  <2>1. Vt!PendingShares(d)' = Vt!PendingShares(d) + (IF req.depositor = d THEN req.shares ELSE 0)
    BY <1>3, <1>4, <1>5, VaultTables, RequestGrows
  <2>2. Vt!ActiveShares(d) \in Nat /\ Vt!PendingShares(d) \in Nat
    BY SumsAreNatural
  <2> QED BY <1>3, <1>5, <2>1, <2>2, SumsStay
<1>9. /\ desk' \in [VaultSessions -> {desk'[t] : t \in VaultSessions}]
      /\ desk'[s] = Vt!Idle /\ \A t \in VaultSessions \ {s} : desk'[t] = desk[t]
  BY <1>3, VaultTables, DeskChanges
<1>10. \A t \in VaultSessions : Vt!Read(t)'
  BY <1>9, VaultTables DEF Vt!Read, Vt!Idle
<1>11. ASSUME NEW t \in VaultSessions, NEW e \in Depositors PROVE Vt!StillFits(t, e)'
  <2>1. CASE t = s
    BY <1>9, <2>1 DEF Vt!StillFits, Vt!Idle
  <2>2. CASE t # s
    <3>1. Vt!StillFits(t, e) /\ desk'[t] = desk[t] /\ Vt!Read(t)
      BY <1>9, <2>2, VaultTables
    <3> QED BY <1>3, <1>8, <2>2, <3>1 DEF Vt!StillFits, Vt!Read
  <2> QED BY <2>1, <2>2
<1>12. ASSUME NEW d \in Depositors \ disturbed'.overlap PROVE Vt!PendingShares(d)' <= Vt!ActiveShares(d)'
  <2>1. d \notin disturbed.overlap /\ Vt!StillFits(s, d) /\ Vt!PendingShares(d) <= Vt!ActiveShares(d)
    BY <1>3, VaultTables DEF Vt!NeverOversubscribed
  <2> QED BY <1>1, <1>3, <1>4, <1>8, <2>1 DEF Vt!StillFits
<1>13. Vt!NeverOversubscribed'
  BY <1>12 DEF Vt!NeverOversubscribed
<1> QED BY <1>3, <1>6, <1>7, <1>9, <1>10, <1>11, <1>13, VaultTables, VaultTablesNext

(* The value of the portfolio leaves shares alone.                         *)
LEMMA VaultSnapshotKeeps ==
  ASSUME Vt!VaultInv, Vt!PortfolioSnapshot \/ UNCHANGED Vt!vaultVars
  PROVE  Vt!VaultInv'
<1>1. UNCHANGED <<lots, redemptions, desk, disturbed>> /\ nav' \in Int
  BY VaultAssumption, VaultTables DEF Vt!PortfolioSnapshot, Vt!vaultVars
<1>2. \A t \in VaultSessions : Vt!Read(t)'
  BY <1>1, VaultTables DEF Vt!Read
<1>3. \A t \in VaultSessions : \A e \in Depositors : Vt!StillFits(t, e)'
  BY <1>1, VaultTables, SumsStay DEF Vt!StillFits
<1>4. Vt!NeverOversubscribed'
  BY <1>1, VaultTables, SumsStay DEF Vt!NeverOversubscribed
<1> QED BY <1>1, <1>2, <1>3, <1>4, VaultTables, VaultTablesNext

(* Every step keeps the invariant.                                         *)
LEMMA VaultStepKeeps ==
  ASSUME Vt!VaultInv, [Vt!Next]_Vt!vaultVars
  PROVE  Vt!VaultInv'
BY ReadForDepositKeeps, RecordDepositKeeps, ReadForRedemptionKeeps, RequestRedemptionKeeps,
   VaultSnapshotKeeps DEF Vt!Next

-----------------------------------------------------------------------------
(* A step of the part of the vault, or of CEX verification, is a step of   *)
(* its specification.                                                      *)
LEMMA LedgerParts ==
  ASSUME [Next]_wfVars
  PROVE  /\ UNCHANGED part
         /\ part = "vault" => [Vt!Next]_Vt!vaultVars
         /\ part = "cex" => [Cx!Next]_Cx!cexVars
BY DEF wfVars, Next, Bundle, Resolution, Promotion, VaultStep, Dossier, CexStep, bundleOnly,
       resolutionOnly, promotionOnly, vaultOnly, dossierOnly, cexOnly, Cx!cexVars, Vt!vaultVars

(* Records hold what they must and no more.  The vault, for any            *)
(* depositors, sessions, amounts and portfolio values: the pending         *)
(* redemptions of a depositor never exceed the depositor's shares, unless  *)
(* redemptions of the depositor overlapped (store.ts                       *)
(* requestVaultRedemption, which reads the totals and inserts later).  CEX *)
(* imports, for any requests, files, answers and numbers of sessions: a    *)
(* completed import that nobody decided holds one trade for each row of    *)
(* its file, unreadable numbers as zeros, unless its second statement      *)
(* failed or never came; a deleted one holds none however uploads and      *)
(* deletions cross; and reports on the same trades agree unless two trades *)
(* share a time (csv-parser.ts parseCexCsv; store.ts                       *)
(* createCexVerificationSession, deleteCexVerificationSession,             *)
(* calculateCexPnl).                                                       *)
THEOREM RecordsAreWholeHolds == Spec => []RecordsAreWhole
<1> DEFINE Inv == /\ part = "vault" => Vt!VaultInv
                  /\ part = "cex" => Cx!CexInv
<1>1. Init => Inv
  BY CexInitially, VaultInitially DEF Init
<1>2. Inv /\ [Next]_wfVars => Inv'
  BY LedgerParts, CexStepKeeps, VaultStepKeeps
<1>3. Inv => RecordsAreWhole
  BY CexSound, VaultTables DEF RecordsAreWhole
<1> QED
  BY <1>1, <1>2, <1>3, PTL DEF Spec, wfVars
=============================================================================
