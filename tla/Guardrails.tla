----------------------------- MODULE Guardrails -----------------------------
(***************************************************************************)
(* ExecutionGuardrailEngine (packages/risk-engine/src/execution-           *)
(* guardrails.ts) and CircuitBreakerRegistry (circuit-breakers.ts), kept   *)
(* in memory.  A caller checks a notional against the global and the       *)
(* venue's configuration, executes, and records success or failure with    *)
(* each of them: the check and the record are separate calls, between      *)
(* which other callers run.  Time is a minute counter; a day is Day        *)
(* minutes.                                                                *)
(***************************************************************************)
EXTENDS Integers, FiniteSets, Sequences

CONSTANTS Scopes,       \* "global" and the venues that have a configuration
          Callers, Notionals,
          MaxSingle, MinAction, MaxDaily, MaxFailures, ResetMinutes, Day,
          MaxMinutes, MaxAttempts

Breakers == {"daily_drawdown", "venue_failure"}

(* Minutes to the automatic reset, None for the breakers reset by hand.     *)
None == -1
defaultAutoReset(name) == IF name = "venue_failure" THEN 1 ELSE None

VARIABLES config,    \* per scope: kill, failures, lastFailure, daily, dailyReset
          minute,
          caller,    \* per caller, the check it has passed
          breaker,   \* per breaker: state, resetAt
          attempts,
          spent,     \* history: notional executed per day, by scope
          crossing,  \* history: two executions were between check and record
          tripped    \* history: breakers tripped and not reset since

guardVars == <<config, minute, caller, breaker, attempts, spent, crossing, tripped>>

Fresh == [kill |-> FALSE, failures |-> 0, lastFailure |-> None, daily |-> 0, dailyReset |-> 0]
Rest  == [pc |-> "idle", scopes |-> {}, notional |-> 0]

DayOf(t) == t \div Day

Init ==
  /\ config = [s \in Scopes |-> Fresh]
  /\ minute = 0
  /\ caller = [c \in Callers |-> Rest]
  /\ breaker = [b \in Breakers |-> [state |-> "closed", resetAt |-> None]]
  /\ attempts = 0
  /\ spent = [s \in Scopes |-> 0]
  /\ crossing = FALSE
  /\ tripped = {}

(* getApplicableConfigs                                                    *)
Applicable(venue) == {"global", venue} \cap Scopes

(* The count is forgotten when the window since the last failure has passed.*)
Expired(k) == k.lastFailure # None /\ minute - k.lastFailure > ResetMinutes

isCircuitBreakerOpen(k) == k.failures >= MaxFailures /\ ~Expired(k)

(* resetDailyNotionalIfNeeded: at the first use after midnight.             *)
DailyNow(k) ==
  IF DayOf(minute) > DayOf(k.dailyReset) THEN [k EXCEPT !.daily = 0, !.dailyReset = minute] ELSE k

(* check: the kill switch and the breaker end a configuration's checks, so  *)
(* only a configuration that passes both has its day rolled over.  A        *)
(* breaker whose window has passed forgets its failures.                    *)
Checked(k) ==
  IF k.kill THEN k
  ELSE IF k.failures >= MaxFailures /\ ~Expired(k) THEN k
  ELSE DailyNow(IF k.failures >= MaxFailures THEN [k EXCEPT !.failures = 0] ELSE k)

AdmitsAnyTotal(k, n) == ~k.kill /\ ~isCircuitBreakerOpen(k) /\ n <= MaxSingle /\ n >= MinAction

Admits(k, n) ==
  /\ ~k.kill
  /\ ~isCircuitBreakerOpen(k)
  /\ n <= MaxSingle /\ n >= MinAction
  /\ Checked(k).daily + n <= MaxDaily

Check(c, venue, n) ==
  /\ caller[c].pc = "idle" /\ attempts < MaxAttempts
  /\ attempts' = attempts + 1
  /\ config' = [s \in Scopes |-> IF s \in Applicable(venue) THEN Checked(config[s]) ELSE config[s]]
  /\ IF \A s \in Applicable(venue) : Admits(config[s], n)
     THEN /\ caller' = [caller EXCEPT ![c] = [pc |-> "executing", scopes |-> Applicable(venue),
                                              notional |-> n]]
          /\ crossing' = (crossing \/ \E d \in Callers : caller[d].pc = "executing")
     ELSE UNCHANGED <<caller, crossing>>
  /\ UNCHANGED <<minute, breaker, spent, tripped>>

(* recordSuccess clears the failures and adds to the day.                   *)
recordSuccess(k, n) ==
  LET d == DailyNow(k) IN
  [d EXCEPT !.daily = @ + n, !.failures = 0,
            !.lastFailure = IF k.failures > 0 THEN None ELSE @]

Succeed(c) ==
  LET n == caller[c].notional IN
  /\ caller[c].pc = "executing"
  /\ config' = [s \in Scopes |-> IF s \in caller[c].scopes THEN recordSuccess(config[s], n)
                                  ELSE config[s]]
  /\ spent' = [s \in Scopes |-> IF s \in caller[c].scopes THEN spent[s] + n ELSE spent[s]]
  /\ caller' = [caller EXCEPT ![c] = Rest]
  /\ UNCHANGED <<minute, breaker, attempts, crossing, tripped>>

recordFailure(k) ==
  [k EXCEPT !.failures = IF Expired(k) THEN 1 ELSE @ + 1, !.lastFailure = minute]

Fail(c) ==
  /\ caller[c].pc = "executing"
  /\ config' = [s \in Scopes |-> IF s \in caller[c].scopes THEN recordFailure(config[s])
                                  ELSE config[s]]
  /\ caller' = [caller EXCEPT ![c] = Rest]
  /\ UNCHANGED <<minute, breaker, attempts, spent, crossing, tripped>>

triggerKillSwitch(s) ==
  /\ config' = [config EXCEPT ![s].kill = TRUE]
  /\ UNCHANGED <<minute, caller, breaker, attempts, spent, crossing, tripped>>

resetKillSwitch(s) ==
  /\ config' = [config EXCEPT ![s].kill = FALSE]
  /\ UNCHANGED <<minute, caller, breaker, attempts, spent, crossing, tripped>>

-----------------------------------------------------------------------------
(* CircuitBreakerRegistry                                                  *)

trip(b) ==
  /\ breaker' = [breaker EXCEPT ![b] = [state |-> "open",
       resetAt |-> IF defaultAutoReset(b) = None THEN None ELSE minute + defaultAutoReset(b)]]
  /\ tripped' = tripped \cup {b}
  /\ UNCHANGED <<config, minute, caller, attempts, spent, crossing>>

reset(b) ==
  /\ breaker' = [breaker EXCEPT ![b] = [state |-> "closed", resetAt |-> None]]
  /\ tripped' = tripped \ {b}
  /\ UNCHANGED <<config, minute, caller, attempts, spent, crossing>>

(* confirmReset: a no-op unless the breaker is half open.                   *)
Confirmable(b) == breaker[b].state = "half_open"

confirmReset(b) == Confirmable(b) /\ reset(b)

AutoResetAll(b) == breaker[b].state = "open" /\ minute >= breaker[b].resetAt

AutoReset(b) == breaker[b].state = "open" /\ breaker[b].resetAt # None /\ minute >= breaker[b].resetAt

evaluateAutoResets ==
  /\ \E b \in Breakers : AutoReset(b)
  /\ breaker' = [b \in Breakers |-> IF AutoReset(b) THEN [breaker[b] EXCEPT !.state = "half_open"]
                                     ELSE breaker[b]]
  /\ UNCHANGED <<config, minute, caller, attempts, spent, crossing, tripped>>

Tick ==
  /\ minute < MaxMinutes
  /\ minute' = minute + 1
  /\ spent' = IF DayOf(minute') > DayOf(minute) THEN [s \in Scopes |-> 0] ELSE spent
  /\ UNCHANGED <<config, caller, breaker, attempts, crossing, tripped>>

Next ==
  \/ Tick \/ evaluateAutoResets
  \/ \E c \in Callers : \/ \E venue \in Scopes, n \in Notionals : Check(c, venue, n)
                        \/ Succeed(c) \/ Fail(c)
  \/ \E s \in Scopes : triggerKillSwitch(s) \/ resetKillSwitch(s)
  \/ \E b \in Breakers : trip(b) \/ reset(b) \/ confirmReset(b)

Spec == Init /\ [][Next]_guardVars

-----------------------------------------------------------------------------
(* Properties                                                              *)

(* No scope executes more than maxDailyNotionalUsd in a day, unless two     *)
(* executions overlapped between check() and recordSuccess(); the roll-over *)
(* at midnight, which happens lazily, neither loses nor keeps a day's sum.  *)
DailyLimitHolds == ~crossing => \A s \in Scopes : spent[s] <= MaxDaily

(* A breaker leaves 'open' by itself only after its delay and only to       *)
(* half_open, and a manual one (drawdown) never does: until someone resets  *)
(* it or confirms a probe, execution stays blocked.                         *)
TrippedStaysTripped ==
  \A b \in tripped : /\ breaker[b].state \in {"open", "half_open"}
                     /\ breaker[b].state = "half_open" =>
                          breaker[b].resetAt # None /\ minute >= breaker[b].resetAt

-----------------------------------------------------------------------------
(* The invariant behind them: what a scope has spent today is what its      *)
(* configuration would show after a roll-over, and as long as no two        *)
(* executions overlapped, what the only one under way will record still     *)
(* fits.                                                                    *)
Types ==
  /\ config \in [Scopes -> [kill : BOOLEAN, failures : Nat, lastFailure : Int, daily : Nat,
                            dailyReset : Nat]]
  /\ minute \in Nat
  /\ caller \in [Callers -> [pc : {"idle", "executing"}, scopes : SUBSET Scopes, notional : Nat]]
  /\ breaker \in [Breakers -> [state : {"open", "half_open", "closed"}, resetAt : Int]]
  /\ spent \in [Scopes -> Nat]
  /\ crossing \in BOOLEAN
  /\ tripped \subseteq Breakers

DayInv ==
  \A s \in Scopes : /\ DayOf(config[s].dailyReset) <= DayOf(minute)
                    /\ spent[s] = DailyNow(config[s]).daily

ExecutionInv ==
  ~crossing =>
    /\ \A c, d \in Callers : caller[c].pc = "executing" /\ caller[d].pc = "executing" => c = d
    /\ \A c \in Callers : caller[c].pc = "executing" =>
         \A s \in caller[c].scopes : spent[s] + caller[c].notional <= MaxDaily

GuardrailsInv == Types /\ DayInv /\ ExecutionInv /\ DailyLimitHolds /\ TrippedStaysTripped
=============================================================================
