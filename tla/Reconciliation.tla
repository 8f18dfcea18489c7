--------------------------- MODULE Reconciliation ---------------------------
(***************************************************************************)
(* Reconciliation runs (RuntimeReconciliationEngine) against a world that  *)
(* changes under them.  The six detectors read one after the other, the    *)
(* findings are applied to the mismatches one by one, operators work on    *)
(* the mismatches meanwhile, and any read or write may throw.  What one    *)
(* detector reads is one step.                                             *)
(***************************************************************************)
EXTENDS ReconciliationChecks

CONSTANTS Worlds,       \* names of the worlds the environment moves between
          WorldOf,      \* and what a run reads in each of them
          MaxRuns, MaxChanges, MaxMoves

VARIABLES world,        \* the current world
          mismatches,   \* runtime_mismatches of source 'reconciliation', by key
          run,          \* the current or latest run
          before,       \* history: mismatches when the run started
          quiet,        \* history: nothing but the run moved since it started
          runs, worldChanges, moves   \* steps taken, against the bounds

reconVars == <<world, mismatches, run, before, quiet, runs, worldChanges, moves>>

Open   == {"open", "acknowledged", "recovering", "reopened"}
Closed == {"resolved", "verified"}

NoRun == [status |-> "none", detector |-> 0, active |-> {}, candidates |-> <<>>]

Init ==
  /\ world \in Worlds
  /\ mismatches = <<>>
  /\ run = NoRun
  /\ before = <<>>
  /\ quiet = TRUE
  /\ runs = 0 /\ worldChanges = 0 /\ moves = 0

StatusOf(k) == IF k \in DOMAIN mismatches THEN mismatches[k] ELSE "absent"

(* createReconciliationRun, getActiveRealVenueIds and                      *)
(* resolveInactiveVenueMismatches: open mismatches of venues that are not  *)
(* real are resolved, when some venue is.                                  *)
InactiveNever(k, active) == FALSE       \* mutant

Inactive(k, active) == active # {} /\ k[2] # "none" /\ k[2] \notin active

StartRun ==
  LET active == ActiveReal(WorldOf[world])
  IN /\ run.status # "running" /\ runs < MaxRuns
     /\ run' = [status |-> "running", detector |-> 1, active |-> active, candidates |-> <<>>]
     /\ mismatches' = [k \in DOMAIN mismatches |->
                         IF Inactive(k, active) /\ mismatches[k] \in Open THEN "resolved"
                         ELSE mismatches[k]]
     /\ before' = mismatches
     /\ quiet' = TRUE
     /\ runs' = runs + 1
     /\ UNCHANGED <<world, worldChanges, moves>>

(* toCandidateFinding drops a check that is inactive unless a mismatch is  *)
(* there to resolve.                                                       *)
toCandidateFinding(c) == c.active \/ StatusOf(c.key) \notin {"absent", "verified"}

(* What a detector returns: check by check, the candidates it pushed. *)
Candidates(checks) ==
  LET pushed[n \in 0..Len(checks)] ==
        IF n = 0 THEN <<>>
        ELSE IF toCandidateFinding(checks[n]) THEN Append(pushed[n - 1], checks[n])
        ELSE pushed[n - 1]
  IN pushed[Len(checks)]

RunDetector ==
  /\ run.status = "running" /\ run.detector <= Len(Detectors)
  /\ run' = [run EXCEPT !.detector = @ + 1,
                        !.candidates = @ \o Candidates(
                           Detect(Detectors[run.detector], WorldOf[world], run.active))]
  /\ UNCHANGED <<world, mismatches, before, quiet, runs, worldChanges, moves>>

(* applyFindingToMismatch *)
upsertMismatch(status) ==
  CASE status = "absent" -> "open"
    [] status \in Closed -> "reopened"
    [] OTHER -> status

Applied(c, status) ==
  IF c.active THEN upsertMismatch(status)
  ELSE IF status \in {"absent", "verified"} THEN status ELSE "resolved"

applyFindingToMismatch ==
  LET c      == Head(run.candidates)
      status == Applied(c, StatusOf(c.key))
  IN /\ run.status = "running" /\ run.detector > Len(Detectors)
     /\ run.candidates # <<>>
     /\ mismatches' = IF status = "absent" THEN mismatches
                      ELSE [k \in DOMAIN mismatches \cup {c.key} |->
                              IF k = c.key THEN status ELSE mismatches[k]]
     /\ run' = [run EXCEPT !.candidates = Tail(@)]
     /\ UNCHANGED <<world, before, quiet, runs, worldChanges, moves>>

completeReconciliationRun ==
  /\ run.status = "running" /\ run.detector > Len(Detectors)
  /\ run.candidates = <<>>
  /\ run' = [run EXCEPT !.status = "completed"]
  /\ UNCHANGED <<world, mismatches, before, quiet, runs, worldChanges, moves>>

(* Any await of the run throws: what was applied stays. *)
failReconciliationRun ==
  /\ run.status = "running"
  /\ run' = [run EXCEPT !.status = "failed", !.candidates = <<>>]
  /\ UNCHANGED <<world, mismatches, before, quiet, runs, worldChanges, moves>>

(* The world moves on; operators work on a mismatch.  What they may do is  *)
(* the lifecycle of MismatchRemediation.                                   *)
Change ==
  /\ worldChanges < MaxChanges
  /\ world' \in Worlds \ {world}
  /\ quiet' = FALSE
  /\ worldChanges' = worldChanges + 1
  /\ UNCHANGED <<mismatches, run, before, runs, moves>>

OperatorMoves(k) ==
  /\ moves < MaxMoves
  /\ \/ mismatches[k] \in {"open", "reopened"} /\ mismatches' = [mismatches EXCEPT ![k] = "acknowledged"]
     \/ mismatches[k] \in Open \ {"recovering"} /\ mismatches' = [mismatches EXCEPT ![k] = "recovering"]
     \/ mismatches[k] \in Open /\ mismatches' = [mismatches EXCEPT ![k] = "resolved"]
     \/ mismatches[k] = "resolved" /\ mismatches' = [mismatches EXCEPT ![k] = "verified"]
     \/ mismatches[k] \in Closed /\ mismatches' = [mismatches EXCEPT ![k] = "reopened"]
  /\ quiet' = FALSE
  /\ moves' = moves + 1
  /\ UNCHANGED <<world, run, before, runs, worldChanges>>

Next ==
  \/ StartRun \/ RunDetector \/ applyFindingToMismatch
  \/ completeReconciliationRun \/ failReconciliationRun
  \/ Change \/ \E k \in DOMAIN mismatches : OperatorMoves(k)

Spec == Init /\ [][Next]_reconVars

-----------------------------------------------------------------------------
(* Properties                                                              *)

(* Per key that the run inspects, whether its condition is active.  Two    *)
(* positions of a venue may share a comparison key, and then a finding of  *)
(* the one settles what the other raised.                                  *)
Verdicts ==
  LET checks == ChecksOf(WorldOf[world], run.active)
  IN [k \in {c.key : c \in checks} |-> \E c \in checks : c.key = k /\ c.active]
Disputed ==
  LET checks == ChecksOf(WorldOf[world], run.active)
  IN {c.key : c \in {x \in checks : \E d \in checks : d.key = x.key /\ d.active # x.active}}

JustCompleted == run.status = "completed" /\ quiet
Followed(k) == k[2] = "none" \/ run.active = {} \/ k[2] \in run.active

(* When a run completes and neither the world nor an operator moved since  *)
(* it started, every active condition it inspects has an open mismatch and *)
(* no condition that it found settled has one, whatever earlier runs, also *)
(* failed ones and ones of another world, left behind.  (Conditions that   *)
(* share their key and disagree are apart.)                                *)
RunReflectsWorld ==
  JustCompleted =>
    LET verdicts == Verdicts
    IN \A k \in DOMAIN verdicts \ Disputed : verdicts[k] <=> StatusOf(k) \in Open

(* What a completed run leaves open although no condition backs it belongs *)
(* to a subject that the run no longer inspects, at a venue that is still  *)
(* active: nothing resolves such a row.                                    *)
OpenIsBackedOrUnseen ==
  JustCompleted =>
    LET verdicts == Verdicts
    IN \A k \in {x \in DOMAIN mismatches : mismatches[x] \in Open} \ Disputed :
         IF k \in DOMAIN verdicts THEN verdicts[k] ELSE Followed(k)

(* A run that nobody disturbs keeps what operators decided: a condition    *)
(* that still holds stays acknowledged or recovering, unless its venue is  *)
(* not real while another one is, and what was verified and does not come  *)
(* back stays verified.                                                    *)
DecisionsKept ==
  JustCompleted =>
    LET verdicts == Verdicts
        Active(k) == k \in DOMAIN verdicts /\ verdicts[k]
    IN \A k \in DOMAIN before \ Disputed :
         /\ (before[k] \in {"acknowledged", "recovering"} /\ Active(k) /\ Followed(k))
              => mismatches[k] = before[k]
         /\ (before[k] = "verified" /\ ~Active(k)) => mismatches[k] = "verified"

-----------------------------------------------------------------------------
(* The invariant behind them: of a run that nobody disturbed, each check   *)
(* made so far is still to be applied to the status at the start, or that  *)
(* status is what applying it gives; all else is as it was.                *)

(* The status of a key once the run had resolved what is inactive. *)
AtStart(k) ==
  IF k \notin DOMAIN before THEN "absent"
  ELSE IF Inactive(k, run.active) /\ before[k] \in Open THEN "resolved" ELSE before[k]

(* The checks of the detectors before the n-th. *)
ChecksBefore(n) ==
  UNION {ToSet(Detect(Detectors[m], WorldOf[world], run.active)) : m \in 1..(n - 1)}

Undisturbed ==
  LET seen    == ChecksBefore(run.detector)
      waiting == ToSet(run.candidates)
  IN /\ run.active = ActiveReal(WorldOf[world])
     /\ waiting \subseteq seen
     /\ run.status = "completed" => run.candidates = <<>> /\ run.detector = Len(Detectors) + 1
     /\ run.detector <= Len(Detectors) =>
          \A k \in DOMAIN mismatches \cup DOMAIN before : StatusOf(k) = AtStart(k)
     /\ \A c \in {x \in seen : x.key \notin Disputed} :
          \/ StatusOf(c.key) = Applied(c, AtStart(c.key))
          \/ c \in waiting /\ StatusOf(c.key) = AtStart(c.key)
     /\ \A k \in DOMAIN mismatches \cup DOMAIN before :
          (\A c \in seen : c.key # k) => StatusOf(k) = AtStart(k)

ReconciliationInv ==
  /\ world \in Worlds
  /\ \A k \in DOMAIN mismatches : mismatches[k] \in Open \cup Closed
  /\ \A k \in DOMAIN before : before[k] \in Open \cup Closed
  /\ run \in [status : {"none", "running", "completed", "failed"},
              detector : 0..(Len(Detectors) + 1),
              active : {{}} \cup {ActiveReal(WorldOf[w]) : w \in Worlds},
              candidates : Seq(UNION {ChecksOf(WorldOf[w], ActiveReal(WorldOf[v])) :
                                        w \in Worlds, v \in Worlds})]
  /\ run.status = "running" =>
       run.detector > 0 /\ \E w \in Worlds : run.active = ActiveReal(WorldOf[w])
  /\ quiet /\ run.status \in {"running", "completed"} => Undisturbed
=============================================================================
