--------------------- MODULE MismatchRemediationProofs ---------------------
(***************************************************************************)
(* Theorems about MismatchRemediation, for every set of sessions and of    *)
(* commands.                                                               *)
(***************************************************************************)
EXTENDS MismatchRemediation, TLAPS

USE DEF commandVars, attemptVars, sessionVars, workerVars, WorkerGoes

-----------------------------------------------------------------------------
(* Type correctness.                                                       *)

\* The initial state is well typed.
LEMMA InitTypes == Init => TypeOK
<1> SUFFICES ASSUME Init PROVE TypeOK
  OBVIOUS
<1>1. Queue!QueueTypeOK
  BY DEF Init, Queue!QueueInit, Queue!QueueTypeOK, Queue!CommandStatus
<1> QED
  BY <1>1 DEF Init, TypeOK, MismatchStatus, AttemptStatus, SessionPC, WorkerPC, NoFinding

\* A request keeps the types.
LEMMA SessionTypes ==
    ASSUME TypeOK, SessionInv, DecisionInv, NEW s \in Sessions, SessionStep(s)
    PROVE  TypeOK'
<1> USE DEF TypeOK, Queue!QueueTypeOK, Verb, MismatchStatus, AttemptStatus, InFlight,
            SessionPC, WorkerPC, NoFinding, Queue!CommandStatus, Queue!Terminal
<1>1. CASE \E v \in Verb : ReadMismatch(s, v)
  BY <1>1 DEF ReadMismatch
<1>2. CASE WriteMismatch(s)
  BY <1>2 DEF WriteMismatch, Answer, Target, DecisionInv
<1>3. CASE Remediate(s)
  BY <1>3 DEF Remediate
<1>4. CASE CheckInFlight(s)
  BY <1>4 DEF CheckInFlight, SomeInFlight, Answer
<1>5. CASE CreateCommand(s)
  BY <1>5 DEF CreateCommand, Queue!Submit
<1>6. CASE CreateAttempt(s)
  BY <1>6 DEF CreateAttempt, SessionInv
<1>7. CASE MarkRecovering(s)
  BY <1>7 DEF MarkRecovering, Answer
<1>8. CASE RequestEnds(s)
  BY <1>8 DEF RequestEnds, Answer
<1> QED
  BY <1>1, <1>2, <1>3, <1>4, <1>5, <1>6, <1>7, <1>8 DEF SessionStep

\* The worker keeps the types.
LEMMA WorkerTypes == ASSUME TypeOK, WorkerInv, WorkerStep \/ Crash PROVE TypeOK'
<1> USE DEF TypeOK, Queue!QueueTypeOK, MismatchStatus, AttemptStatus, InFlight, SessionPC,
            WorkerPC, NoFinding, Queue!CommandStatus, Queue!Terminal
<1>1. CASE Restart
  BY <1>1 DEF Restart, Moves
<1>2. CASE FindingWrite
  BY <1>2 DEF FindingWrite, AfterFinding
<1>3. CASE Claim
  BY <1>3 DEF Claim, Queue!Claim, Queue!OldestPending
<1>4. CASE Begin
  BY <1>4 DEF Begin, Queue!Begin, MarkAttempt
<1>5. CASE Complete
  BY <1>5 DEF Complete, Queue!Complete
<1>6. CASE Settle
  BY <1>6 DEF Settle, MarkAttempt
<1>7. CASE Link
  BY <1>7 DEF Link, WorkerForgets
<1>8. CASE FailCommand
  BY <1>8 DEF FailCommand, Queue!Fail
<1>9. CASE FailFind
  BY <1>9 DEF FailFind
<1>10. CASE FailRead
  BY <1>10 DEF FailRead, WorkerForgets
<1>11. CASE FailAttempt
  BY <1>11 DEF FailAttempt
<1>12. CASE ReopenMismatch
  BY <1>12 DEF ReopenMismatch, WorkerForgets
<1>13. CASE CycleEnds
  BY <1>13 DEF CycleEnds, Moves
<1>14. CASE OperationEnds
  BY <1>14 DEF OperationEnds, Moves
<1>15. CASE Throw
  BY <1>15 DEF Throw, Moves
<1>16. CASE CycleStarts
  BY <1>16 DEF CycleStarts, Moves
<1>17. CASE \E kind \in {"active", "cleared"} : FindingRead(kind)
  BY <1>17 DEF FindingRead
<1>18. CASE Crash
  BY <1>18 DEF Crash, WorkerForgets
<1> QED
  BY <1>1, <1>2, <1>3, <1>4, <1>5, <1>6, <1>7, <1>8, <1>9, <1>10, <1>11, <1>12, <1>13,
     <1>14, <1>15, <1>16, <1>17, <1>18
  DEF WorkerStep, WorkerMoves, WorkerEnds

-----------------------------------------------------------------------------
(* What the worker and the sessions know.                                  *)

\* A request does not disturb what the worker knows.
LEMMA SessionWorkerInv ==
    ASSUME TypeOK, WorkerInv, NEW s \in Sessions, SessionStep(s)
    PROVE  WorkerInv'
<1> USE DEF TypeOK, Queue!QueueTypeOK, WorkerInv
<1>1. CASE \E v \in Verb : ReadMismatch(s, v)
  BY <1>1 DEF ReadMismatch
<1>2. CASE WriteMismatch(s)
  BY <1>2 DEF WriteMismatch, Answer, Target
<1>3. CASE Remediate(s)
  BY <1>3 DEF Remediate
<1>4. CASE CheckInFlight(s)
  BY <1>4 DEF CheckInFlight, SomeInFlight, Answer
<1>5. CASE CreateCommand(s)
  BY <1>5 DEF CreateCommand, Queue!Submit
<1>6. CASE CreateAttempt(s)
  BY <1>6 DEF CreateAttempt
<1>7. CASE MarkRecovering(s)
  BY <1>7 DEF MarkRecovering, Answer
<1>8. CASE RequestEnds(s)
  BY <1>8 DEF RequestEnds, Answer
<1> QED
  BY <1>1, <1>2, <1>3, <1>4, <1>5, <1>6, <1>7, <1>8 DEF SessionStep

\* Each step of the worker establishes what the next one relies on.
LEMMA WorkerWorkerInv == ASSUME TypeOK, WorkerInv, WorkerStep \/ Crash PROVE WorkerInv'
<1> USE DEF TypeOK, Queue!QueueTypeOK, WorkerInv
<1>1. CASE Restart
  BY <1>1 DEF Restart, Moves
<1>2. CASE FindingWrite
  BY <1>2 DEF FindingWrite, AfterFinding
<1>3. CASE Claim
  BY <1>3 DEF Claim, Queue!Claim, Queue!OldestPending
<1>4. CASE Begin
  BY <1>4 DEF Begin, Queue!Begin, MarkAttempt
<1>5. CASE Complete
  BY <1>5 DEF Complete, Queue!Complete
<1>6. CASE Settle
  BY <1>6 DEF Settle, MarkAttempt
<1>7. CASE Link
  BY <1>7 DEF Link, WorkerForgets
<1>8. CASE FailCommand
  BY <1>8 DEF FailCommand, Queue!Fail
<1>9. CASE FailFind
  BY <1>9 DEF FailFind
<1>10. CASE FailRead
  BY <1>10 DEF FailRead, WorkerForgets
<1>11. CASE FailAttempt
  BY <1>11 DEF FailAttempt
<1>12. CASE ReopenMismatch
  BY <1>12 DEF ReopenMismatch, WorkerForgets
<1>13. CASE CycleEnds
  BY <1>13 DEF CycleEnds, Moves
<1>14. CASE OperationEnds
  BY <1>14 DEF OperationEnds, Moves
<1>15. CASE Throw
  BY <1>15 DEF Throw, Moves
<1>16. CASE CycleStarts
  BY <1>16 DEF CycleStarts, Moves
<1>17. CASE \E kind \in {"active", "cleared"} : FindingRead(kind)
  BY <1>17 DEF FindingRead
<1>18. CASE Crash
  BY <1>18 DEF Crash, WorkerForgets
<1> QED
  BY <1>1, <1>2, <1>3, <1>4, <1>5, <1>6, <1>7, <1>8, <1>9, <1>10, <1>11, <1>12, <1>13,
     <1>14, <1>15, <1>16, <1>17, <1>18
  DEF WorkerStep, WorkerMoves, WorkerEnds

\* Each step of a request establishes what the next one relies on.
LEMMA SessionSessionInv ==
    ASSUME TypeOK, SessionInv, NEW s \in Sessions, SessionStep(s)
    PROVE  SessionInv'
<1> USE DEF TypeOK, Queue!QueueTypeOK, SessionInv
<1>1. CASE \E v \in Verb : ReadMismatch(s, v)
  BY <1>1 DEF ReadMismatch
<1>2. CASE WriteMismatch(s)
  BY <1>2 DEF WriteMismatch, Answer, Target
<1>3. CASE Remediate(s)
  BY <1>3 DEF Remediate
<1>4. CASE CheckInFlight(s)
  BY <1>4 DEF CheckInFlight, SomeInFlight, Answer
<1>5. CASE CreateCommand(s)
  BY <1>5 DEF CreateCommand, Queue!Submit, InFlight
<1>6. CASE CreateAttempt(s)
  BY <1>6 DEF CreateAttempt, InFlight
<1>7. CASE MarkRecovering(s)
  BY <1>7 DEF MarkRecovering, Answer
<1>8. CASE RequestEnds(s)
  BY <1>8 DEF RequestEnds, Answer
<1> QED
  BY <1>1, <1>2, <1>3, <1>4, <1>5, <1>6, <1>7, <1>8 DEF SessionStep

\* The worker puts no attempt back in flight.
LEMMA WorkerSessionInv ==
    ASSUME TypeOK, RecordsAgree, WorkerInv, SessionInv, WorkerStep \/ Crash
    PROVE  SessionInv'
<1> USE DEF TypeOK, Queue!QueueTypeOK, SessionInv
<1>1. CASE Restart
  BY <1>1 DEF Restart, Moves
<1>2. CASE FindingWrite
  BY <1>2 DEF FindingWrite, AfterFinding
<1>3. CASE Claim
  BY <1>3 DEF Claim, Queue!Claim, Queue!OldestPending
<1>4. CASE Begin
  BY <1>4 DEF Begin, Queue!Begin, MarkAttempt, WorkerInv, RecordsAgree, InFlight,
              AttemptStatus, Queue!Terminal
<1>5. CASE Complete
  BY <1>5 DEF Complete, Queue!Complete
<1>6. CASE Settle
  BY <1>6 DEF Settle, MarkAttempt, WorkerInv, InFlight
<1>7. CASE Link
  BY <1>7 DEF Link, WorkerForgets
<1>8. CASE FailCommand
  BY <1>8 DEF FailCommand, Queue!Fail
<1>9. CASE FailFind
  BY <1>9 DEF FailFind
<1>10. CASE FailRead
  BY <1>10 DEF FailRead, WorkerForgets
<1>11. CASE FailAttempt
  BY <1>11 DEF FailAttempt, WorkerInv, InFlight
<1>12. CASE ReopenMismatch
  BY <1>12 DEF ReopenMismatch, WorkerForgets
<1>13. CASE CycleEnds
  BY <1>13 DEF CycleEnds, Moves
<1>14. CASE OperationEnds
  BY <1>14 DEF OperationEnds, Moves
<1>15. CASE Throw
  BY <1>15 DEF Throw, Moves
<1>16. CASE CycleStarts
  BY <1>16 DEF CycleStarts, Moves
<1>17. CASE \E kind \in {"active", "cleared"} : FindingRead(kind)
  BY <1>17 DEF FindingRead
<1>18. CASE Crash
  BY <1>18 DEF Crash, WorkerForgets
<1> QED
  BY <1>1, <1>2, <1>3, <1>4, <1>5, <1>6, <1>7, <1>8, <1>9, <1>10, <1>11, <1>12, <1>13,
     <1>14, <1>15, <1>16, <1>17, <1>18
  DEF WorkerStep, WorkerMoves, WorkerEnds

\* A request decides on the status it reads.
LEMMA SessionDecisionInv ==
    ASSUME TypeOK, DecisionInv, NEW s \in Sessions, SessionStep(s)
    PROVE  DecisionInv'
<1> USE DEF TypeOK, Queue!QueueTypeOK, DecisionInv
<1>1. CASE \E v \in Verb : ReadMismatch(s, v)
  BY <1>1 DEF ReadMismatch, Verb
<1>2. CASE WriteMismatch(s)
  BY <1>2 DEF WriteMismatch, Answer, Target
<1>3. CASE Remediate(s)
  BY <1>3 DEF Remediate
<1>4. CASE CheckInFlight(s)
  BY <1>4 DEF CheckInFlight, SomeInFlight, Answer
<1>5. CASE CreateCommand(s)
  BY <1>5 DEF CreateCommand, Queue!Submit
<1>6. CASE CreateAttempt(s)
  BY <1>6 DEF CreateAttempt
<1>7. CASE MarkRecovering(s)
  BY <1>7 DEF MarkRecovering, Answer
<1>8. CASE RequestEnds(s)
  BY <1>8 DEF RequestEnds, Answer
<1> QED
  BY <1>1, <1>2, <1>3, <1>4, <1>5, <1>6, <1>7, <1>8 DEF SessionStep

\* So does the worker.
LEMMA WorkerDecisionInv ==
    ASSUME TypeOK, DecisionInv, WorkerStep \/ Crash
    PROVE  DecisionInv'
<1> USE DEF TypeOK, Queue!QueueTypeOK, DecisionInv, NoFinding
<1>1. CASE Restart
  BY <1>1 DEF Restart, Moves
<1>2. CASE FindingWrite
  BY <1>2 DEF FindingWrite, AfterFinding
<1>3. CASE Claim
  BY <1>3 DEF Claim, Queue!Claim, Queue!OldestPending
<1>4. CASE Begin
  BY <1>4 DEF Begin, Queue!Begin, MarkAttempt
<1>5. CASE Complete
  BY <1>5 DEF Complete, Queue!Complete
<1>6. CASE Settle
  BY <1>6 DEF Settle, MarkAttempt
<1>7. CASE Link
  BY <1>7 DEF Link, WorkerForgets
<1>8. CASE FailCommand
  BY <1>8 DEF FailCommand, Queue!Fail
<1>9. CASE FailFind
  BY <1>9 DEF FailFind
<1>10. CASE FailRead
  BY <1>10 DEF FailRead, WorkerForgets
<1>11. CASE FailAttempt
  BY <1>11 DEF FailAttempt
<1>12. CASE ReopenMismatch
  BY <1>12 DEF ReopenMismatch, WorkerForgets
<1>13. CASE CycleEnds
  BY <1>13 DEF CycleEnds, Moves
<1>14. CASE OperationEnds
  BY <1>14 DEF OperationEnds, Moves
<1>15. CASE Throw
  BY <1>15 DEF Throw, Moves
<1>16. CASE CycleStarts
  BY <1>16 DEF CycleStarts, Moves
<1>17. CASE \E kind \in {"active", "cleared"} : FindingRead(kind)
  BY <1>17 DEF FindingRead
<1>18. CASE Crash
  BY <1>18 DEF Crash, WorkerForgets
<1> QED
  BY <1>1, <1>2, <1>3, <1>4, <1>5, <1>6, <1>7, <1>8, <1>9, <1>10, <1>11, <1>12, <1>13,
     <1>14, <1>15, <1>16, <1>17, <1>18
  DEF WorkerStep, WorkerMoves, WorkerEnds

-----------------------------------------------------------------------------
(* The records agree, and an operator has one attempt in flight.           *)

\* A request inserts the attempt after its command.
LEMMA SessionRecordsAgree ==
    ASSUME TypeOK, RecordsAgree, SessionInv, NEW s \in Sessions, SessionStep(s)
    PROVE  RecordsAgree'
<1> USE DEF TypeOK, Queue!QueueTypeOK, RecordsAgree
<1>1. CASE \E v \in Verb : ReadMismatch(s, v)
  BY <1>1 DEF ReadMismatch
<1>2. CASE WriteMismatch(s)
  BY <1>2 DEF WriteMismatch, Answer, Target
<1>3. CASE Remediate(s)
  BY <1>3 DEF Remediate
<1>4. CASE CheckInFlight(s)
  BY <1>4 DEF CheckInFlight, SomeInFlight, Answer
<1>5. CASE CreateCommand(s)
  BY <1>5 DEF CreateCommand, Queue!Submit, Queue!Terminal
<1>6. CASE CreateAttempt(s)
  BY <1>6 DEF CreateAttempt, SessionInv
<1>7. CASE MarkRecovering(s)
  BY <1>7 DEF MarkRecovering, Answer
<1>8. CASE RequestEnds(s)
  BY <1>8 DEF RequestEnds, Answer
<1> QED
  BY <1>1, <1>2, <1>3, <1>4, <1>5, <1>6, <1>7, <1>8 DEF SessionStep

\* The worker settles the command before its attempt.
LEMMA WorkerRecordsAgree ==
    ASSUME TypeOK, RecordsAgree, WorkerInv, WorkerStep \/ Crash
    PROVE  RecordsAgree'
<1> USE DEF TypeOK, Queue!QueueTypeOK, RecordsAgree, Queue!Terminal
<1>1. CASE Restart
  BY <1>1 DEF Restart, Moves
<1>2. CASE FindingWrite
  BY <1>2 DEF FindingWrite, AfterFinding
<1>3. CASE Claim
  BY <1>3 DEF Claim, Queue!Claim, Queue!OldestPending
<1>4. CASE Begin
  BY <1>4 DEF Begin, Queue!Begin, MarkAttempt, WorkerInv
<1>5. CASE Complete
  BY <1>5 DEF Complete, Queue!Complete, WorkerInv
<1>6. CASE Settle
  BY <1>6 DEF Settle, MarkAttempt, WorkerInv
<1>7. CASE Link
  BY <1>7 DEF Link, WorkerForgets
<1>8. CASE FailCommand
  BY <1>8 DEF FailCommand, Queue!Fail
<1>9. CASE FailFind
  BY <1>9 DEF FailFind
<1>10. CASE FailRead
  BY <1>10 DEF FailRead, WorkerForgets
<1>11. CASE FailAttempt
  BY <1>11 DEF FailAttempt, WorkerInv
<1>12. CASE ReopenMismatch
  BY <1>12 DEF ReopenMismatch, WorkerForgets
<1>13. CASE CycleEnds
  BY <1>13 DEF CycleEnds, Moves
<1>14. CASE OperationEnds
  BY <1>14 DEF OperationEnds, Moves
<1>15. CASE Throw
  BY <1>15 DEF Throw, Moves
<1>16. CASE CycleStarts
  BY <1>16 DEF CycleStarts, Moves
<1>17. CASE \E kind \in {"active", "cleared"} : FindingRead(kind)
  BY <1>17 DEF FindingRead
<1>18. CASE Crash
  BY <1>18 DEF Crash, WorkerForgets
<1> QED
  BY <1>1, <1>2, <1>3, <1>4, <1>5, <1>6, <1>7, <1>8, <1>9, <1>10, <1>11, <1>12, <1>13,
     <1>14, <1>15, <1>16, <1>17, <1>18
  DEF WorkerStep, WorkerMoves, WorkerEnds

\* A session inserts an attempt only if it has none in flight.
LEMMA SessionOneInFlight ==
    ASSUME TypeOK, SessionInv, OneInFlightPerSession, NEW s \in Sessions, SessionStep(s)
    PROVE  OneInFlightPerSession'
<1> USE DEF TypeOK, Queue!QueueTypeOK, OneInFlightPerSession
<1>1. CASE \E v \in Verb : ReadMismatch(s, v)
  BY <1>1 DEF ReadMismatch
<1>2. CASE WriteMismatch(s)
  BY <1>2 DEF WriteMismatch, Answer, Target
<1>3. CASE Remediate(s)
  BY <1>3 DEF Remediate
<1>4. CASE CheckInFlight(s)
  BY <1>4 DEF CheckInFlight, SomeInFlight, Answer
<1>5. CASE CreateCommand(s)
  BY <1>5 DEF CreateCommand, Queue!Submit
<1>6. CASE CreateAttempt(s)
  BY <1>6 DEF CreateAttempt, SessionInv, InFlight
<1>7. CASE MarkRecovering(s)
  BY <1>7 DEF MarkRecovering, Answer
<1>8. CASE RequestEnds(s)
  BY <1>8 DEF RequestEnds, Answer
<1> QED
  BY <1>1, <1>2, <1>3, <1>4, <1>5, <1>6, <1>7, <1>8 DEF SessionStep

\* The worker starts only attempts already in flight.
LEMMA WorkerOneInFlight ==
    ASSUME TypeOK, RecordsAgree, WorkerInv, OneInFlightPerSession, WorkerStep \/ Crash
    PROVE  OneInFlightPerSession'
<1> USE DEF TypeOK, Queue!QueueTypeOK, OneInFlightPerSession
<1>1. CASE Restart
  BY <1>1 DEF Restart, Moves
<1>2. CASE FindingWrite
  BY <1>2 DEF FindingWrite, AfterFinding
<1>3. CASE Claim
  BY <1>3 DEF Claim, Queue!Claim, Queue!OldestPending
<1>4. CASE Begin
  BY <1>4 DEF Begin, Queue!Begin, MarkAttempt, WorkerInv, RecordsAgree, InFlight,
              AttemptStatus, Queue!Terminal
<1>5. CASE Complete
  BY <1>5 DEF Complete, Queue!Complete
<1>6. CASE Settle
  BY <1>6 DEF Settle, MarkAttempt, WorkerInv, InFlight
<1>7. CASE Link
  BY <1>7 DEF Link, WorkerForgets
<1>8. CASE FailCommand
  BY <1>8 DEF FailCommand, Queue!Fail
<1>9. CASE FailFind
  BY <1>9 DEF FailFind
<1>10. CASE FailRead
  BY <1>10 DEF FailRead, WorkerForgets
<1>11. CASE FailAttempt
  BY <1>11 DEF FailAttempt, WorkerInv, InFlight
<1>12. CASE ReopenMismatch
  BY <1>12 DEF ReopenMismatch, WorkerForgets
<1>13. CASE CycleEnds
  BY <1>13 DEF CycleEnds, Moves
<1>14. CASE OperationEnds
  BY <1>14 DEF OperationEnds, Moves
<1>15. CASE Throw
  BY <1>15 DEF Throw, Moves
<1>16. CASE CycleStarts
  BY <1>16 DEF CycleStarts, Moves
<1>17. CASE \E kind \in {"active", "cleared"} : FindingRead(kind)
  BY <1>17 DEF FindingRead
<1>18. CASE Crash
  BY <1>18 DEF Crash, WorkerForgets
<1> QED
  BY <1>1, <1>2, <1>3, <1>4, <1>5, <1>6, <1>7, <1>8, <1>9, <1>10, <1>11, <1>12, <1>13,
     <1>14, <1>15, <1>16, <1>17, <1>18
  DEF WorkerStep, WorkerMoves, WorkerEnds

-----------------------------------------------------------------------------
(* The theorems.                                                           *)

\* The inductive invariant.
Inv == TypeOK /\ RecordsAgree /\ OneInFlightPerSession /\ WorkerInv /\ SessionInv
         /\ DecisionInv

(***************************************************************************)
(* Whatever the operators, the worker and the health checks do, the parts  *)
(* of the invariant hold together: the conjuncts need one another.         *)
(***************************************************************************)
THEOREM Invariance == Spec => []Inv
<1>1. Init => Inv
  <2> SUFFICES ASSUME Init PROVE Inv
    OBVIOUS
  <2>1. TypeOK
    BY InitTypes
  <2>2. RecordsAgree /\ OneInFlightPerSession
    BY DEF Init, Queue!QueueInit, RecordsAgree, OneInFlightPerSession, InFlight
  <2>3. WorkerInv /\ SessionInv /\ DecisionInv
    BY DEF Init, WorkerInv, SessionInv, DecisionInv, NoFinding
  <2> QED
    BY <2>1, <2>2, <2>3 DEF Inv
<1>2. Inv /\ [Next]_vars => Inv'
  <2> SUFFICES ASSUME Inv, [Next]_vars PROVE Inv'
    OBVIOUS
  <2> USE DEF Inv
  <2>1. ASSUME NEW s \in Sessions, SessionStep(s) PROVE Inv'
    BY <2>1, SessionTypes, SessionRecordsAgree, SessionOneInFlight, SessionWorkerInv,
       SessionSessionInv, SessionDecisionInv
  <2>2. CASE WorkerStep \/ Crash
    BY <2>2, WorkerTypes, WorkerRecordsAgree, WorkerOneInFlight, WorkerWorkerInv,
       WorkerSessionInv, WorkerDecisionInv
  <2>3. CASE UNCHANGED vars
    BY <2>3 DEF vars, TypeOK, Queue!QueueTypeOK, RecordsAgree, OneInFlightPerSession,
                WorkerInv, SessionInv, DecisionInv
  <2> QED
    BY <2>1, <2>2, <2>3 DEF Next
<1> QED
  BY <1>1, <1>2, PTL DEF Spec

(***************************************************************************)
(* The rows of the mismatch, of its attempts and of the commands, and what *)
(* the handlers and the worker keep between queries, have their types.     *)
(***************************************************************************)
THEOREM TypeCorrect == Spec => []TypeOK
<1>1. Inv => TypeOK
  BY DEF Inv
<1> QED
  BY <1>1, Invariance, PTL

(***************************************************************************)
(* The rows of a remediation, its command and its attempt, never tell      *)
(* different stories about its outcome.                                    *)
(***************************************************************************)
THEOREM RecordsAgreeHolds == Spec => []RecordsAgree
<1>1. Inv => RecordsAgree
  BY DEF Inv
<1> QED
  BY <1>1, Invariance, PTL

(***************************************************************************)
(* With any number of operators, none of them ever has two remediations of *)
(* the mismatch in flight; with one operator there is at most one.         *)
(***************************************************************************)
THEOREM OneInFlightPerSessionHolds == Spec => []OneInFlightPerSession
<1>1. Inv => OneInFlightPerSession
  BY DEF Inv
<1> QED
  BY <1>1, Invariance, PTL

-----------------------------------------------------------------------------
(* The lifecycle.                                                          *)

\* A step that changes the status of the mismatch as documented, or not knowingly.
Follows == mismatch' # mismatch => Documented(mismatch, mismatch') \/ StaleWrite

\* A request follows the lifecycle of the status it read.
LEMMA SessionFollows == ASSUME Inv, NEW s \in Sessions, SessionStep(s) PROVE Follows
<1> USE DEF Inv, TypeOK, Follows
<1>1. CASE WriteMismatch(s)
  <2>1. CASE saw[s] # mismatch
    BY <1>1, <2>1 DEF WriteMismatch, Answer, StaleWrite
  <2>2. CASE saw[s] = mismatch
    <3>1. verb[s] \in Verb /\ mismatch \in Accepts(verb[s])
      BY <1>1, <2>2 DEF WriteMismatch, DecisionInv
    <3> QED
      BY <1>1, <3>1 DEF WriteMismatch, Verb, Accepts, Target, Documented
  <2> QED
    BY <2>1, <2>2
<1>2. CASE MarkRecovering(s)
  <2>1. CASE saw[s] # mismatch
    BY <1>2, <2>1 DEF MarkRecovering, Answer, StaleWrite
  <2>2. CASE saw[s] = mismatch
    BY <1>2, <2>2 DEF MarkRecovering, DecisionInv, Documented, MismatchStatus, Closed
  <2> QED
    BY <2>1, <2>2
<1>3. CASE ~WriteMismatch(s) /\ ~MarkRecovering(s)
  BY <1>3 DEF SessionStep, ReadMismatch, Remediate, CheckInFlight, CreateCommand,
              CreateAttempt, RequestEnds
<1> QED
  BY <1>1, <1>2, <1>3

\* So do a health finding and the failure of a remediation.
LEMMA WorkerFollows == ASSUME Inv, WorkerStep \/ Crash PROVE Follows
<1> USE DEF Inv, TypeOK, Follows
<1>1. CASE FindingWrite
  <2>1. CASE finding.saw # mismatch
    BY <1>1, <2>1 DEF FindingWrite, StaleWrite
  <2>2. CASE finding.saw = mismatch
    BY <1>1, <2>2 DEF FindingWrite, DecisionInv, AfterFinding, Documented, MismatchStatus,
                      Closed
  <2> QED
    BY <2>1, <2>2
<1>2. CASE ReopenMismatch
  <2>1. CASE wsaw # mismatch
    BY <1>2, <2>1 DEF ReopenMismatch, StaleWrite
  <2>2. CASE wsaw = mismatch
    BY <1>2, <2>2 DEF ReopenMismatch, DecisionInv, Documented
  <2> QED
    BY <2>1, <2>2
<1>3. CASE ~FindingWrite /\ ~ReopenMismatch
  BY <1>3 DEF WorkerStep, WorkerMoves, WorkerEnds, Crash, Moves, Restart, CycleStarts,
              CycleEnds, FindingRead, Claim, Begin, OperationEnds, Complete, Settle, Link,
              Throw, FailCommand, FailFind, FailRead, FailAttempt
<1> QED
  BY <1>1, <1>2, <1>3

(***************************************************************************)
(* Every status change follows the documented lifecycle unless the status  *)
(* changed between the read it was decided on and the write.               *)
(***************************************************************************)
THEOREM LifecycleHolds == Spec => LeavesLifecycleOnlyIfStale
<1>1. Inv /\ [Next]_vars => [Follows]_vars
  <2> SUFFICES ASSUME Inv, Next PROVE Follows
    OBVIOUS
  <2> QED
    BY SessionFollows, WorkerFollows DEF Next
<1>2. Spec => [][Follows]_vars
  BY <1>1, Invariance, PTL DEF Spec
<1> QED
  BY <1>2 DEF LeavesLifecycleOnlyIfStale, Follows
=============================================================================
