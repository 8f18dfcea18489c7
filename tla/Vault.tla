------------------------------- MODULE Vault -------------------------------
(***************************************************************************)
(* The vault's share ledger: recordVaultDeposit mints shares at the        *)
(* current net asset value, requestVaultRedemption sets aside shares of    *)
(* the depositor's lots in the order in which their locks expire.  Both    *)
(* read first and insert afterwards, with no transaction, so operations of *)
(* several sessions interleave.  The caller may give any date; a date is   *)
(* the number of its day.  Shares and amounts are counted in the last unit *)
(* the columns keep.                                                       *)
(***************************************************************************)
EXTENDS Integers, Sequences, FiniteSets, SequencesExt

CONSTANTS Depositors, VaultSessions, Amounts, Navs,
          DepositDates, RequestDates,   \* the dates callers give
          MonthStarts,        \* the first days of the months, in a row
          LockPeriodMonths,
          MaxLots, MaxRedemptions

None == -1

VARIABLES lots,        \* vault_deposit_lots, in insertion order
          redemptions, \* vault_redemption_requests, in insertion order
          nav,         \* totalNav of the latest portfolio snapshot, or None
          desk,        \* per session, what its operation has read
          disturbed    \* history: depositors whose redemptions overlapped, and those
                       \* whose lots changed places or have no place of their own

vaultVars == <<lots, redemptions, nav, desk, disturbed>>

Idle == [op |-> "idle"]
Total(numbers) ==
  LET sum[n \in 0..Len(numbers)] == IF n = 0 THEN 0 ELSE sum[n - 1] + numbers[n]
  IN sum[Len(numbers)]
SumOf(s, Val(_)) == Total([n \in DOMAIN s |-> Val(s[n])])
Larger(a, b)  == IF a > b THEN a ELSE b
Smaller(a, b) == IF a < b THEN a ELSE b

-----------------------------------------------------------------------------
(* getVaultSummary: navPerShare is TotalAssets / TotalShares, 1 when there *)
(* are no shares.                                                          *)
TotalShares == SumOf(lots, LAMBDA l : l.shares)
TotalAssets == IF nav = None THEN SumOf(lots, LAMBDA l : l.amount) ELSE nav
NavPerShare == IF TotalShares > 0 THEN [num |-> TotalAssets, den |-> TotalShares]
                                  ELSE [num |-> 1, den |-> 1]
EffectiveSharePrice == IF NavPerShare.num > 0 THEN NavPerShare ELSE [num |-> 1, den |-> 1]

LotsOf(d)        == {l \in ToSet(lots) : l.depositor = d}
RedemptionsOf(d) == {r \in ToSet(redemptions) : r.depositor = d}
ActiveShares(d)  == SumOf(lots, LAMBDA l : IF l.depositor = d THEN l.shares ELSE 0)
PendingShares(d) == SumOf(redemptions, LAMBDA r : IF r.depositor = d THEN r.shares ELSE 0)

Init ==
  /\ lots = <<>>
  /\ redemptions = <<>>
  /\ nav = None
  /\ desk = [s \in VaultSessions |-> Idle]
  /\ disturbed = [overlap |-> {}, order |-> {}]

-----------------------------------------------------------------------------
(* recordVaultDeposit, up to its read of the summary. *)
ReadForDeposit(s) ==
  /\ desk[s].op = "idle" /\ Len(lots) < MaxLots
  /\ \E d \in Depositors, amount \in Amounts, at \in DepositDates :
       desk' = [desk EXCEPT ![s] = [op |-> "deposit", depositor |-> d, amount |-> amount,
                                    at |-> at, price |-> EffectiveSharePrice]]
  /\ UNCHANGED <<lots, redemptions, nav, disturbed>>

(* The allocations of the depositor's requests, inserted or about to be. *)
SpokenFor(d) ==
  UNION {r.allocated : r \in RedemptionsOf(d)
                        \cup {desk[t] : t \in {t \in VaultSessions : desk[t].op = "redemption" /\ desk[t].depositor = d}}}

(* The same day of a later month; setUTCMonth counts on where that month   *)
(* is too short, so that a later deposit may unlock with an earlier one,   *)
(* or before it.                                                           *)
addMonths(at, months) ==
  LET month == Max({m \in DOMAIN MonthStarts : MonthStarts[m] <= at})
  IN MonthStarts[month + months] + (at - MonthStarts[month])

(* ORDER BY lock_expires_at, deposited_at. *)
Ahead(l, k) == l.expires < k.expires \/ (l.expires = k.expires /\ l.at < k.at)

(* A new lot takes the place of one set aside before, or shares one. *)
Displaces(lot) ==
  \/ \E a \in SpokenFor(lot.depositor) : Ahead(lot, lots[a.lot])
  \/ \E l \in LotsOf(lot.depositor) : ~Ahead(lot, l) /\ ~Ahead(l, lot)

(* The depositor's row, then the lot. *)
recordVaultDeposit(s) ==
  LET o == desk[s]
      lot == [depositor |-> o.depositor, amount |-> o.amount, at |-> o.at,
              shares |-> (o.amount * o.price.den) \div o.price.num,
              expires |-> addMonths(o.at, LockPeriodMonths)]
  IN /\ o.op = "deposit"
     /\ lots' = Append(lots, lot)
     /\ disturbed' = IF Displaces(lot)
                     THEN [disturbed EXCEPT !.order = @ \cup {lot.depositor}] ELSE disturbed
     /\ desk' = [desk EXCEPT ![s] = Idle]
     /\ UNCHANGED <<redemptions, nav>>

(* mutant: the lot that unlocks last comes first *)
LotsLatestFirst(d) ==
  {order \in SetToSeqs({i \in DOMAIN lots : lots[i].depositor = d}) :
     \A m, n \in DOMAIN order : m < n => ~Ahead(lots[order[m]], lots[order[n]])}

(* The depositor's lots, the one that unlocks first in front; the database *)
(* may return lots of the same dates in either order.                      *)
LotsByExpiry(d) ==
  {order \in SetToSeqs({i \in DOMAIN lots : lots[i].depositor = d}) :
     \A m, n \in DOMAIN order : m < n => ~Ahead(lots[order[n]], lots[order[m]])}

(* mutant: the shares of earlier requests are not set aside *)
AllocateAgain(order, reserved, wanted) ==
  LET Before(k) == SumOf(SubSeq(order, 1, k - 1), LAMBDA i : lots[i].shares)
      Taken(k)  == Smaller(Before(k + 1), wanted) - Before(k)
  IN {[lot |-> order[k], shares |-> Taken(k)] : k \in {j \in DOMAIN order : Taken(j) > 0}}

(* reserveShares over the earlier requests, then the loop over what is     *)
(* left: both take from the front, so a lot gives what of its shares lies  *)
(* between the reserved ones and the wanted ones after them.               *)
Allocate(order, reserved, wanted) ==
  LET Before(k) == SumOf(SubSeq(order, 1, k - 1), LAMBDA i : lots[i].shares)
      Taken(k)  == Smaller(Before(k + 1), reserved + wanted) - Larger(Before(k), reserved)
  IN {[lot |-> order[k], shares |-> Taken(k)] : k \in {j \in DOMAIN order : Taken(j) > 0}}

(* mutant: the check forgets the shares already requested *)
ExceedsOwn(d, wanted) == wanted > ActiveShares(d)

Exceeds(d, wanted) == PendingShares(d) + wanted > ActiveShares(d)

(* mutant: the request is eligible when its first lot is *)
EligibleFirst(at, allocated) ==
  Min({Larger(at, lots[a.lot].expires) : a \in allocated})

EligibleAt(at, allocated) ==
  Max({at} \cup {lots[a.lot].expires : a \in allocated})

(* requestVaultRedemption, up to its reads; a request beyond the shares    *)
(* that are left is refused.                                               *)
ReadForRedemption(s) ==
  /\ desk[s].op = "idle" /\ Len(redemptions) < MaxRedemptions
  /\ \E d \in Depositors, wanted \in 1..2, at \in RequestDates : \E order \in LotsByExpiry(d) :
       /\ LotsOf(d) # {}
       /\ ~Exceeds(d, wanted)
       /\ LET allocated == Allocate(order, PendingShares(d), wanted)
              eligible  == EligibleAt(at, allocated)
          IN desk' = [desk EXCEPT ![s] =
                 [op |-> "redemption", depositor |-> d, shares |-> wanted, at |-> at,
                  allocated |-> allocated, eligible |-> eligible, known |-> Len(lots),
                  status |-> IF eligible > at THEN "pending_lock" ELSE "queued"]]
  /\ UNCHANGED <<lots, redemptions, nav, disturbed>>

(* The insert; known, the lots there were at the read, is history. *)
requestVaultRedemption(s) ==
  LET o == desk[s]
      others == {t \in VaultSessions \ {s} : desk[t].op = "redemption" /\ desk[t].depositor = o.depositor}
  IN /\ o.op = "redemption"
     /\ redemptions' = Append(redemptions, [depositor |-> o.depositor, shares |-> o.shares, at |-> o.at,
                                            allocated |-> o.allocated, eligible |-> o.eligible,
                                            status |-> o.status, known |-> o.known])
     /\ disturbed' = IF others # {}
                     THEN [disturbed EXCEPT !.overlap = @ \cup {o.depositor}] ELSE disturbed
     /\ desk' = [desk EXCEPT ![s] = Idle]
     /\ UNCHANGED <<lots, nav>>

(* The runtime persists a portfolio snapshot; it never reads the lots. *)
PortfolioSnapshot ==
  /\ nav' \in Navs \ {nav}
  /\ UNCHANGED <<lots, redemptions, desk, disturbed>>

Next ==
  \/ \E s \in VaultSessions :
       \/ ReadForDeposit(s)
       \/ recordVaultDeposit(s)
       \/ ReadForRedemption(s)
       \/ requestVaultRedemption(s)
  \/ PortfolioSnapshot

Spec == Init /\ [][Next]_vaultVars

-----------------------------------------------------------------------------
(* Unless redemptions of the depositor overlapped, the pending requests of *)
(* a depositor never exceed the depositor's shares, whatever was deposited *)
(* or priced in between, and in whatever order.                            *)
NeverOversubscribed ==
  \A d \in Depositors \ disturbed.overlap : PendingShares(d) <= ActiveShares(d)

Orderly == Depositors \ (disturbed.overlap \cup disturbed.order)
SetAside(i, requests) ==
  SumOf(requests, LAMBDA r : SumOf(SetToSeq({a \in r.allocated : a.lot = i}), LAMBDA a : a.shares))

(* Nor is a share of a lot set aside for two requests, although every      *)
(* request recomputes what the earlier ones hold from their totals alone,  *)
(* never from the allocations they recorded.  That is so as long as the    *)
(* depositor's lots keep their order: not for lots of the same dates, nor  *)
(* when a lot comes in ahead of one set aside.                             *)
NoShareTwice ==
  \A i \in DOMAIN lots :
    lots[i].depositor \in Orderly => SetAside(i, redemptions) <= lots[i].shares

(* The allocations of a request add up to what was requested, and a        *)
(* request said to be queued has no share still locked on its date.        *)
QueuedIsUnlocked ==
  \A k \in DOMAIN redemptions :
    LET r == redemptions[k]
    IN /\ SumOf(SetToSeq(r.allocated), LAMBDA a : a.shares) = r.shares
       /\ r.status = "queued" => \A a \in r.allocated : lots[a.lot].expires <= r.at
       /\ \A a \in r.allocated : lots[a.lot].expires <= r.eligible

(* A request waits for no lock it could have avoided: the depositor's lots *)
(* it knew that unlock earlier than one it takes from were all spoken for  *)
(* by it and the requests before it (with NoShareTwice's exceptions).      *)
EarliestLotsFirst ==
  \A k \in DOMAIN redemptions : redemptions[k].depositor \in Orderly =>
    \A a \in redemptions[k].allocated : \A i \in 1..redemptions[k].known :
      (lots[i].depositor = redemptions[k].depositor /\ lots[i].expires < lots[a.lot].expires) =>
        SetAside(i, SubSeq(redemptions, 1, k)) = lots[i].shares

-----------------------------------------------------------------------------
(* The invariant behind the first: a request about to be inserted still    *)
(* fits, unless redemptions of its depositor overlapped.                   *)
StillFits(s, d) ==
  desk[s].op = "redemption" /\ desk[s].depositor = d =>
    d \in disturbed.overlap \/ PendingShares(d) + desk[s].shares <= ActiveShares(d)

Read(s) ==
  /\ desk[s].op = "deposit" => /\ desk[s].amount \in Nat /\ desk[s].price.den \in Nat
                               /\ desk[s].price.num \in Nat \ {0}
  /\ desk[s].op = "redemption" => desk[s].shares \in Nat

VaultInv ==
  /\ disturbed = [overlap |-> disturbed.overlap, order |-> disturbed.order]
  /\ lots \in Seq(ToSet(lots)) /\ redemptions \in Seq(ToSet(redemptions)) /\ nav \in Int
  /\ desk \in [VaultSessions -> {desk[s] : s \in VaultSessions}]
  /\ \A i \in DOMAIN lots : lots[i].shares \in Nat /\ lots[i].amount \in Nat
  /\ \A k \in DOMAIN redemptions : redemptions[k].shares \in Nat
  /\ \A s \in VaultSessions : Read(s) /\ \A d \in Depositors : StillFits(s, d)
  /\ NeverOversubscribed
=============================================================================
