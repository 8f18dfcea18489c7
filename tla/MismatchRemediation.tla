------------------------ MODULE MismatchRemediation ------------------------
(***************************************************************************)
(* One runtime mismatch: its lifecycle, the remediation attempts operators *)
(* start on it, the worker that executes their commands, and the health    *)
(* checks that reopen or resolve it meanwhile.                             *)
(*                                                                         *)
(* Sources: packages/runtime/src/mismatch-lifecycle.ts, the mismatch       *)
(* operations of control-plane.ts, the remediation branches of worker.ts,  *)
(* health-monitor.ts and reconciliation-engine.ts, and the queries of      *)
(* store.ts.  No row is locked: every operation reads the mismatch, decides*)
(* on what it read, and writes one or more awaits later.                   *)
(*                                                                         *)
(* The command queue is the abstract CommandQueue, which RuntimeWorker     *)
(* implements for a single worker process.                                 *)
(***************************************************************************)
EXTENDS Naturals, TLC

CONSTANTS
    Sessions,           \* operators: clients that send one request at a time to the API
    Commands,           \* command identifiers
    NoCommand,          \* null
    MayCrash            \* whether the worker process may be killed

ASSUME RemediationAssumption ==
    /\ NoCommand \notin Commands
    /\ MayCrash \in BOOLEAN

VARIABLES
    \* table runtime_commands
    clock, requestedAt, status, attempts,
    mismatch,           \* status of the row of runtime_mismatches
    \* table runtime_mismatch_remediations, by command
    attempt, requestedBy,
    \* requests in flight
    spc, verb, saw, scmd,
    \* the worker process
    wpc, wcmd, found, wsaw,
    finding             \* the health finding the worker is applying

commandVars == <<clock, requestedAt, status, attempts>>
attemptVars == <<attempt, requestedBy>>
sessionVars == <<spc, verb, saw, scmd>>
workerVars == <<wpc, wcmd, found, wsaw, finding>>
vars == <<commandVars, mismatch, attemptVars, sessionVars, workerVars>>

Queue == INSTANCE CommandQueue

MismatchStatus == {"absent", "open", "acknowledged", "recovering", "resolved", "verified",
                   "reopened"}
Closed == {"resolved", "verified"}
InFlight == {"requested", "running"}
AttemptStatus == {"none", "completed", "failed"} \cup InFlight
Verb == {"acknowledge", "start_recovery", "resolve", "verify", "verify_failed", "reopen"}
SessionPC == {"idle", "write", "inflight", "command", "attempt", "recover"}
WorkerPC == {"down", "tick", "cycle", "begin", "operate", "complete", "settle", "link",
             "fail", "fail_find", "fail_read", "fail_attempt", "fail_mismatch"}
NoFinding == [kind |-> "none", saw |-> "absent"]

TypeOK ==
    /\ Queue!QueueTypeOK
    /\ mismatch \in MismatchStatus
    /\ attempt \in [Commands -> AttemptStatus]
    /\ requestedBy \in [Commands -> Sessions \cup {NoCommand}]
    /\ spc \in [Sessions -> SessionPC]
    /\ verb \in [Sessions -> Verb \cup {"none"}]
    /\ saw \in [Sessions -> MismatchStatus]
    /\ scmd \in [Sessions -> Commands \cup {NoCommand}]
    /\ wpc \in WorkerPC
    /\ wcmd \in Commands \cup {NoCommand}
    /\ found \in BOOLEAN
    /\ wsaw \in MismatchStatus
    /\ finding \in [kind : {"none", "active", "cleared"}, saw : MismatchStatus]

Init ==
    /\ Queue!QueueInit
    /\ mismatch = "absent"
    /\ attempt = [c \in Commands |-> "none"]
    /\ requestedBy = [c \in Commands |-> NoCommand]
    /\ spc = [s \in Sessions |-> "idle"]
    /\ verb = [s \in Sessions |-> "none"]
    /\ saw = [s \in Sessions |-> "absent"]
    /\ scmd = [s \in Sessions |-> NoCommand]
    /\ wpc = "down"
    /\ wcmd = NoCommand
    /\ found = FALSE
    /\ wsaw = "absent"
    /\ finding = NoFinding

-----------------------------------------------------------------------------
(* mismatch-lifecycle.ts: the statuses a verb accepts, other than the one  *)
(* it leads to (for which it answers without writing), and its target.     *)

\* A table that lets an operator acknowledge what is already closed.
AcceptsClosed(v) ==
    CASE v = "acknowledge"    -> {"open", "reopened", "resolved"}
      [] v = "start_recovery" -> {"open", "acknowledged", "reopened"}
      [] v = "resolve"        -> {"open", "acknowledged", "recovering", "reopened"}
      [] v \in {"verify", "verify_failed"} -> {"resolved"}
      [] v = "reopen"         -> {"resolved", "verified"}

Accepts(v) ==
    CASE v = "acknowledge"    -> {"open", "reopened"}
      [] v = "start_recovery" -> {"open", "acknowledged", "reopened"}
      [] v = "resolve"        -> {"open", "acknowledged", "recovering", "reopened"}
      [] v \in {"verify", "verify_failed"} -> {"resolved"}
      [] v = "reopen"         -> {"resolved", "verified"}

\* A table that takes the outcome of a verification for a status.
TargetOutcome(v) ==
    CASE v = "acknowledge"    -> "acknowledged"
      [] v = "start_recovery" -> "recovering"
      [] v = "resolve"        -> "resolved"
      [] v = "verify"         -> "verified"
      [] v = "verify_failed"  -> "failed"
      [] v = "reopen"         -> "reopened"

Target(v) ==
    CASE v = "acknowledge"    -> "acknowledged"
      [] v = "start_recovery" -> "recovering"
      [] v = "resolve"        -> "resolved"
      [] v = "verify"         -> "verified"
      [] v \in {"verify_failed", "reopen"} -> "reopened"

-----------------------------------------------------------------------------
(* The API: acknowledgeMismatch, startMismatchRecovery, resolveMismatch,   *)
(* verifyMismatch and reopenMismatch read the row, then write it.  What    *)
(* the lifecycle refuses, and a request for the status it already has,     *)
(* change nothing.                                                         *)

\* The answer is sent: what the handler kept is gone.
Answer(s) ==
    /\ spc' = [spc EXCEPT ![s] = "idle"]
    /\ verb' = [verb EXCEPT ![s] = "none"]
    /\ saw' = [saw EXCEPT ![s] = "absent"]
    /\ scmd' = [scmd EXCEPT ![s] = NoCommand]

ReadMismatch(s, v) ==
    /\ spc[s] = "idle"
    /\ mismatch \in Accepts(v)
    /\ spc' = [spc EXCEPT ![s] = "write"]
    /\ verb' = [verb EXCEPT ![s] = v]
    /\ saw' = [saw EXCEPT ![s] = mismatch]
    /\ UNCHANGED <<commandVars, mismatch, attemptVars, scmd, workerVars>>

WriteMismatch(s) ==
    /\ spc[s] = "write"
    /\ mismatch' = Target(verb[s])
    /\ Answer(s)
    /\ UNCHANGED <<commandVars, attemptVars, workerVars>>

\* remediateMismatch: the mismatch must not be closed ...
Remediate(s) ==
    /\ spc[s] = "idle"
    /\ mismatch \notin Closed \cup {"absent"}
    /\ spc' = [spc EXCEPT ![s] = "inflight"]
    /\ saw' = [saw EXCEPT ![s] = mismatch]
    /\ UNCHANGED <<commandVars, mismatch, attemptVars, verb, scmd, workerVars>>

\* A query that forgets the attempts the worker has not started yet.
SomeRunning == \E c \in Commands : attempt[c] = "running"

SomeInFlight == \E c \in Commands : attempt[c] \in InFlight

\* ... and have no attempt in flight.
CheckInFlight(s) ==
    /\ spc[s] = "inflight"
    /\ IF SomeInFlight
         THEN Answer(s)
         ELSE /\ spc' = [spc EXCEPT ![s] = "command"]
              /\ UNCHANGED <<verb, saw, scmd>>
    /\ UNCHANGED <<commandVars, mismatch, attemptVars, workerVars>>

CreateCommand(s) ==
    /\ spc[s] = "command"
    /\ \E c \in Commands :
          /\ Queue!Submit(c)
          /\ scmd' = [scmd EXCEPT ![s] = c]
    /\ spc' = [spc EXCEPT ![s] = "attempt"]
    /\ UNCHANGED <<mismatch, attemptVars, verb, saw, workerVars>>

CreateAttempt(s) ==
    /\ spc[s] = "attempt"
    /\ attempt' = [attempt EXCEPT ![scmd[s]] = "requested"]
    /\ requestedBy' = [requestedBy EXCEPT ![scmd[s]] = s]
    /\ spc' = [spc EXCEPT ![s] = "recover"]
    /\ scmd' = [scmd EXCEPT ![s] = NoCommand]
    /\ UNCHANGED <<commandVars, mismatch, verb, saw, workerVars>>

\* recoveryNextStatus of the status read at the start.
MarkRecovering(s) ==
    /\ spc[s] = "recover"
    /\ mismatch' = "recovering"
    /\ Answer(s)
    /\ UNCHANGED <<commandVars, attemptVars, workerVars>>

\* A query throws, the API process dies, or the runtime is halted (run_cycle).
RequestEnds(s) ==
    /\ spc[s] # "idle"
    /\ Answer(s)
    /\ UNCHANGED <<commandVars, mismatch, attemptVars, workerVars>>

SessionStep(s) ==
    \/ \E v \in Verb : ReadMismatch(s, v)
    \/ WriteMismatch(s)
    \/ Remediate(s)
    \/ CheckInFlight(s)
    \/ CreateCommand(s)
    \/ CreateAttempt(s)
    \/ MarkRecovering(s)
    \/ RequestEnds(s)

-----------------------------------------------------------------------------
(* The worker.  Between commands, and inside them, it runs strategy cycles *)
(* and reconciliations whose findings touch the mismatch.                  *)

WorkerGoes(from, to) ==
    /\ wpc = from
    /\ finding = NoFinding
    /\ wpc' = to

\* The worker is done with its command, or dies: what it kept is gone.
WorkerForgets ==
    /\ wcmd' = NoCommand
    /\ found' = FALSE
    /\ wsaw' = "absent"
    /\ finding' = NoFinding

\* A step that only moves the worker on.
Moves(from, to) ==
    /\ WorkerGoes(from, to)
    /\ UNCHANGED <<commandVars, mismatch, attemptVars, sessionVars, wcmd, found, wsaw,
                   finding>>

\* Boot replays the projections and reconciles.
Restart == Moves("down", "cycle")

CycleStarts ==
    /\ \A c \in Commands : status[c] # "pending"
    /\ Moves("tick", "cycle")

CycleEnds == Moves("cycle", "tick")

(***************************************************************************)
(* upsertMismatch ("active"), or resolveMismatchByDedupeKey, the cleared   *)
(* branch of applyFindingToMismatch and resolveInactiveVenueMismatches     *)
(* ("cleared"): first the SELECT ...                                       *)
(***************************************************************************)
FindingRead(kind) ==
    /\ wpc \in {"cycle", "operate"}
    /\ finding = NoFinding
    /\ kind = "cleared" => mismatch \notin {"absent", "verified"}
    /\ finding' = [kind |-> kind, saw |-> mismatch]
    /\ UNCHANGED <<commandVars, mismatch, attemptVars, sessionVars, wpc, wcmd, found, wsaw>>

AfterFinding(f) ==
    CASE f.kind = "cleared"  -> "resolved"
      [] f.saw = "absent"    -> "open"
      [] f.saw \in Closed    -> "reopened"
      [] OTHER               -> f.saw

\* ... then the INSERT or UPDATE.
FindingWrite ==
    /\ finding # NoFinding
    /\ mismatch' = AfterFinding(finding)
    /\ finding' = NoFinding
    /\ UNCHANGED <<commandVars, attemptVars, sessionVars, wpc, wcmd, found, wsaw>>

Claim ==
    /\ WorkerGoes("tick", "begin")
    /\ \E c \in Commands :
          /\ Queue!Claim(c)
          /\ wcmd' = c
    /\ UNCHANGED <<mismatch, attemptVars, sessionVars, found, wsaw, finding>>

\* updateMismatchRemediationById, when getMismatchRemediationByCommandId finds a row.
MarkAttempt(new) ==
    attempt' = [attempt EXCEPT ![wcmd] = IF @ = "none" THEN @ ELSE new]

\* executeCommand up to its try block.
Begin ==
    /\ WorkerGoes("begin", "operate")
    /\ Queue!Begin(wcmd)
    /\ MarkAttempt("running")
    /\ UNCHANGED <<mismatch, requestedBy, sessionVars, wcmd, found, wsaw, finding>>

\* A worker that settles the attempt before it completes the command.
OperationSettles ==
    /\ WorkerGoes("operate", "complete")
    /\ MarkAttempt("completed")
    /\ UNCHANGED <<commandVars, mismatch, requestedBy, sessionVars, wcmd, found, wsaw,
                   finding>>

OperationEnds == Moves("operate", "complete")

Complete ==
    /\ WorkerGoes("complete", "settle")
    /\ Queue!Complete(wcmd)
    /\ UNCHANGED <<mismatch, attemptVars, sessionVars, wcmd, found, wsaw, finding>>

\* The attempt is completed; the mismatch keeps its status.
Settle ==
    /\ WorkerGoes("settle", "link")
    /\ MarkAttempt("completed")
    /\ UNCHANGED <<commandVars, mismatch, requestedBy, sessionVars, wcmd, found, wsaw,
                   finding>>

Link ==
    /\ WorkerGoes("link", "tick")
    /\ WorkerForgets
    /\ UNCHANGED <<commandVars, mismatch, attemptVars, sessionVars>>

\* An exception inside the try block of executeCommand.
Throw ==
    \E p \in {"operate", "complete", "settle", "link"} : Moves(p, "fail")

\* A catch block that looks after the mismatch before it fails the command.
FailLater ==
    IF mismatch \in {"recovering", "reopened"}
      THEN /\ WorkerGoes("fail", "fail_find")
           /\ Queue!Fail(wcmd)
           /\ UNCHANGED <<mismatch, attemptVars, sessionVars, wcmd, found, wsaw, finding>>
      ELSE /\ WorkerGoes("fail", "down")
           /\ WorkerForgets
           /\ UNCHANGED <<commandVars, mismatch, attemptVars, sessionVars>>

FailCommand ==
    /\ WorkerGoes("fail", "fail_find")
    /\ Queue!Fail(wcmd)
    /\ UNCHANGED <<mismatch, attemptVars, sessionVars, wcmd, found, wsaw, finding>>

FailFind ==
    /\ WorkerGoes("fail_find", "fail_read")
    /\ found' = (attempt[wcmd] # "none")
    /\ UNCHANGED <<commandVars, mismatch, attemptVars, sessionVars, wcmd, wsaw, finding>>

(***************************************************************************)
(* remediationFailureNextStatus throws for any other status: the exception *)
(* leaves the catch block, rejects tick(), and ends the process.           *)
(***************************************************************************)
FailRead ==
    /\ IF mismatch \in {"recovering", "reopened"}
         THEN /\ WorkerGoes("fail_read", "fail_attempt")
              /\ wsaw' = mismatch
              /\ UNCHANGED <<wcmd, found, finding>>
         ELSE /\ WorkerGoes("fail_read", "down")
              /\ WorkerForgets
    /\ UNCHANGED <<commandVars, mismatch, attemptVars, sessionVars>>

FailAttempt ==
    /\ WorkerGoes("fail_attempt", "fail_mismatch")
    /\ attempt' = [attempt EXCEPT ![wcmd] = IF found THEN "failed" ELSE @]
    /\ UNCHANGED <<commandVars, mismatch, requestedBy, sessionVars, wcmd, found, wsaw,
                   finding>>

ReopenMismatch ==
    /\ WorkerGoes("fail_mismatch", "tick")
    /\ mismatch' = "reopened"
    /\ WorkerForgets
    /\ UNCHANGED <<commandVars, attemptVars, sessionVars>>

Crash ==
    /\ MayCrash
    /\ wpc # "down"
    /\ wpc' = "down"
    /\ WorkerForgets
    /\ UNCHANGED <<commandVars, mismatch, attemptVars, sessionVars>>

WorkerEnds == CycleEnds \/ OperationEnds \/ Throw
WorkerMoves ==
    \/ Restart \/ FindingWrite
    \/ Claim \/ Begin \/ Complete \/ Settle \/ Link
    \/ FailCommand \/ FailFind \/ FailRead \/ FailAttempt \/ ReopenMismatch
WorkerStep ==
    \/ WorkerMoves
    \/ WorkerEnds
    \/ CycleStarts
    \/ \E kind \in {"active", "cleared"} : FindingRead(kind)

Next ==
    \/ \E s \in Sessions : SessionStep(s)
    \/ WorkerStep
    \/ Crash

Spec == Init /\ [][Next]_vars

(***************************************************************************)
(* The supervisor restarts the worker, the event loop runs its steps, and  *)
(* a cycle or a command applies finitely many findings, so a worker that   *)
(* is again and again between two findings at last comes to the end.       *)
(* Nothing is assumed of the operators.                                    *)
(***************************************************************************)
FairSpec == Spec /\ WF_vars(WorkerMoves) /\ SF_vars(WorkerEnds)

-----------------------------------------------------------------------------
(* What each process knows while it works: the parts of the inductive      *)
(* invariant behind the properties.                                        *)

\* A busy worker holds a command, and how far it came shows in the table.
WorkerInv ==
    /\ wpc \notin {"down", "tick", "cycle"} => wcmd \in Commands
    /\ wpc \in {"settle", "link"} => status[wcmd] = "completed"
    /\ wpc \in {"fail_find", "fail_read", "fail_attempt", "fail_mismatch"}
         => status[wcmd] = "failed"

\* A session about to insert an attempt has a command for it, and nothing in flight.
SessionInv ==
    \A s \in Sessions :
        /\ spc[s] = "attempt" => scmd[s] \in Commands /\ status[scmd[s]] # "absent"
        /\ spc[s] \in {"command", "attempt"}
             => \A c \in Commands : attempt[c] \in InFlight => requestedBy[c] # s

\* Every pending write was decided on a status that allows it.
DecisionInv ==
    /\ \A s \in Sessions :
          /\ spc[s] = "write" => verb[s] \in Verb /\ saw[s] \in Accepts(verb[s])
          /\ spc[s] \in {"inflight", "command", "attempt", "recover"}
               => saw[s] \notin Closed \cup {"absent"}
    /\ finding # NoFinding => finding.kind \in {"active", "cleared"}
    /\ finding.kind = "cleared" => finding.saw \notin {"absent", "verified"}
    /\ wpc = "fail_mismatch" => wsaw \in {"recovering", "reopened"}
    /\ wpc = "fail_attempt" => wsaw \in {"recovering", "reopened"}

-----------------------------------------------------------------------------
(* Properties.                                                             *)

(***************************************************************************)
(* The command and the attempt of a remediation are two rows written by    *)
(* two processes, one query at a time.  An attempt always belongs to a     *)
(* command that exists (the foreign key would refuse it otherwise), the    *)
(* worker does not touch it before it claims the command, and what the     *)
(* attempt says of its outcome is what the command says: it is completed   *)
(* only if the command ended, and failed only if the command failed.       *)
(***************************************************************************)
RecordsAgree ==
    \A c \in Commands :
        /\ attempt[c] # "none" => status[c] # "absent"
        /\ status[c] = "pending" => attempt[c] \in {"none", "requested"}
        /\ attempt[c] = "completed" => status[c] \in Queue!Terminal
        /\ attempt[c] = "failed" => status[c] = "failed"

(***************************************************************************)
(* The check for an attempt in flight and the insert of the next one are   *)
(* three queries apart, but whatever else happens, one operator who sends  *)
(* one request at a time never has two remediations of a mismatch in       *)
(* flight: remediateMismatch counts requested attempts as well as running  *)
(* ones, and an attempt whose worker died stays in flight.                 *)
(***************************************************************************)
OneInFlightPerSession ==
    \A c, d \in Commands :
        /\ attempt[c] \in InFlight
        /\ attempt[d] \in InFlight
        /\ requestedBy[c] = requestedBy[d]
        => c = d

(***************************************************************************)
(* The transitions of docs/architecture/phase-1-7-recovery-lifecycle.md,   *)
(* and the one phase-1-8-remediation-actions.md adds for a failed          *)
(* remediation.                                                            *)
(***************************************************************************)
Documented(old, new) ==
    CASE new = "open"         -> old = "absent"
      [] new = "acknowledged" -> old \in {"open", "reopened"}
      [] new = "recovering"   -> old \in {"open", "acknowledged", "reopened"}
      [] new = "resolved"     -> old \in {"open", "acknowledged", "recovering", "reopened"}
      [] new = "verified"     -> old = "resolved"
      [] new = "reopened"     -> old \in {"resolved", "verified", "recovering"}
      [] OTHER                -> FALSE

\* Some process is about to write a status it decided on before another wrote.
StaleWrite ==
    \/ \E s \in Sessions :
          spc[s] \in {"write", "recover"} /\ spc'[s] = "idle" /\ saw[s] # mismatch
    \/ finding # NoFinding /\ finding' = NoFinding /\ finding.saw # mismatch
    \/ wpc = "fail_mismatch" /\ wpc' = "tick" /\ wsaw # mismatch

(***************************************************************************)
(* The operators' verbs, remediations, their failures and the health       *)
(* findings each follow the documented lifecycle; the only way to leave it *)
(* is to overwrite a status that changed after it was read.                *)
(***************************************************************************)
LeavesLifecycleOnlyIfStale ==
    [][mismatch' # mismatch => Documented(mismatch, mismatch') \/ StaleWrite]_vars

(***************************************************************************)
(* A remediation command that reached the queue ends completed or failed,  *)
(* even when remediationFailureNextStatus throws inside the catch block of *)
(* the worker and takes the process down: failRuntimeCommand came first.   *)
(***************************************************************************)
CommandsFinish ==
    \A c \in Commands : status[c] = "pending" ~> status[c] \in Queue!Terminal

\* For TLC: operators and command identifiers are interchangeable.
Symmetry == Permutations(Sessions) \cup Permutations(Commands)
=============================================================================
