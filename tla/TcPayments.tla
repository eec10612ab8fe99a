------------------------------- MODULE TcPayments -------------------------------
(***************************************************************************)
(* The contract tgrade-tc-payments: it keeps part of the rewards sent to   *)
(* it, passes the rest on, and as an end blocker pays what it kept to the  *)
(* members of the oversight community and of the arbiter pool.             *)
(***************************************************************************)
EXTENDS Integers, FiniteSets, Paging

CONSTANTS
  Admin,            \* addresses that may be the admin
  NoAdmin,          \* the admin is not set
  InitialAdmin,
  DECIMAL_ONE,      \* the Decimal 1.0 in its smallest unit (10^18 in the code)
  HOUR,             \* seconds in an hour
  DAY,              \* seconds in a day
  StartDays,        \* the days, counted from the start, that begin a period
  period,           \* Period::seconds of the payment period
  PaymentAmounts,   \* the amounts that may be set
  FundsRatios,      \* the ratios that may be asked for
  Versions,         \* the versions the contract may have had before
  CONTRACT_VERSION, \* the version of this code
  RATIO_VERSION,    \* 0.16.0, the last version that is given a ratio by default
  PageLimits,       \* the limits that clients ask for, {} for none
  MemberCounts,     \* the sizes that either member contract may have
  Rewards,          \* the amounts that may be sent to the contract
  BlockSteps,       \* the seconds that may pass between two blocks
  MaxTime,          \* bound: the last block's time
  MaxFunds          \* bound: the balance

VARIABLES
  admin,            \* ADMIN
  payment_amount,   \* Config::payment_amount, per member
  funds_ratio,      \* Config::funds_ratio, the part of the rewards to keep
  version,          \* the version stored with the contract
  payments,         \* the keys of PAYMENTS: times of recorded payments
  bank,             \* the contract's balance
  oc_members, ap_members,   \* total_points of the two member contracts
  events,           \* the tc_payments events: time and tokens paid out
  now               \* time of the current block

config_vars == <<admin, payment_amount, funds_ratio, version>>
members_vars == <<oc_members, ap_members>>
vars == <<config_vars, payments, bank, members_vars, events, now>>

ASSUME PaymentsAssumption ==
  /\ NoAdmin \notin Admin
  /\ InitialAdmin \in Admin \union {NoAdmin}
  /\ DECIMAL_ONE \in Nat \ {0} /\ FundsRatios \subseteq Nat
  /\ Versions \subseteq Nat /\ CONTRACT_VERSION \in Nat /\ RATIO_VERSION \in Nat
  /\ HOUR \in Nat \ {0} /\ DAY \in Nat /\ HOUR <= DAY
  /\ period \in Nat /\ period >= DAY
  /\ PaymentAmounts \subseteq Nat /\ PaymentAmounts # {}
  /\ MemberCounts \subseteq Nat /\ Rewards \subseteq Nat \ {0}

\* Months and years begin Period::seconds apart or more; state.rs wants the end
\* blocker "called at least once per hour"
ASSUME CalendarAssumption ==
  /\ StartDays \subseteq Nat
  /\ \A d, e \in StartDays : d < e => d * DAY + period <= e * DAY
  /\ BlockSteps \subseteq 1 .. HOUR

\* The share kept cannot be more than all: 1 - funds_ratio has no sign
valid_ratio(ratio) == ratio <= DECIMAL_ONE

Init ==
  /\ admin = InitialAdmin /\ payment_amount \in PaymentAmounts
  /\ funds_ratio \in FundsRatios /\ valid_ratio(funds_ratio)
  /\ version \in Versions
  /\ payments = {} /\ bank = 0 /\ events = {}
  /\ oc_members \in MemberCounts /\ ap_members \in MemberCounts
  /\ now = 0

-----------------------------------------------------------------------------
UpdateAdmin(sender, new) ==
  /\ sender = admin
  /\ admin' = new
  /\ UNCHANGED <<payment_amount, funds_ratio, version, payments, bank, members_vars, events, now>>

UpdateConfig(sender, amount) ==
  /\ sender = admin
  /\ payment_amount' = amount
  /\ UNCHANGED <<admin, funds_ratio, version, payments, bank, members_vars, events, now>>

\* migrate to this code, by the chain: amount and ratio are options, sets of at
\* most one value.  Up to RATIO_VERSION a ratio that is not given is one percent,
\* also when the contract had one
Unwrap(option, default) == IF option = {} THEN default ELSE CHOOSE x \in option : TRUE
migrated_ratio(ratio) ==
  IF version <= RATIO_VERSION THEN Unwrap(ratio, DECIMAL_ONE \div 100)
                              ELSE Unwrap(ratio, funds_ratio)

Migrate(amount, ratio) ==
  /\ version <= CONTRACT_VERSION
  /\ version' = CONTRACT_VERSION
  /\ payment_amount' = Unwrap(amount, payment_amount)
  /\ \A r \in ratio : valid_ratio(r)
  /\ funds_ratio' = migrated_ratio(ratio)
  /\ UNCHANGED <<admin, payments, bank, members_vars, events, now>>

required_reward_amount == (oc_members + ap_members) * payment_amount
kept_added(received) ==   \* mutant: the ratio is added to what is passed on
  received - ((DECIMAL_ONE + funds_ratio) * received) \div DECIMAL_ONE
\* The received funds are in the balance already when the handler reads it
kept(received) ==
  IF bank + received >= required_reward_amount + received
    THEN 0
    ELSE received - ((DECIMAL_ONE - funds_ratio) * received) \div DECIMAL_ONE

DistributeRewards(received) ==
  /\ bank' = bank + kept(received)
  /\ UNCHANGED <<config_vars, payments, members_vars, events, now>>

\* Members join and leave the two contracts
SetMembers(oc, ap) ==
  /\ oc_members' = oc /\ ap_members' = ap
  /\ UNCHANGED <<config_vars, payments, bank, events, now>>

-----------------------------------------------------------------------------
\* The end blocker

hour_after_midnight(t) == t % DAY < HOUR
should_apply(t) == t \div DAY \in StartDays /\ hour_after_midnight(t)

already_paid_drifting(t) ==   \* mutant: a whole period since the last payment
  \E last \in payments : t < last + period
already_paid_never(t) == t < 0   \* mutant: no check
already_paid(t) ==
  \E last \in payments :
    /\ \A other \in payments : other <= last
    /\ t < last + period - HOUR

due(t) == hour_after_midnight(t) /\ should_apply(t) /\ ~already_paid(t)

\* total_funds * Decimal::from_ratio(members, sum_of_members), both cut down
portion_of_oc(members) ==   \* mutant: both contracts get the part of the first
  LET sum_of_members == oc_members + ap_members
  IN IF sum_of_members = 0 \/ members = 0 THEN 0
     ELSE (bank * ((oc_members * DECIMAL_ONE) \div sum_of_members)) \div DECIMAL_ONE
portion(members) ==
  LET sum_of_members == oc_members + ap_members
  IN IF sum_of_members = 0 THEN 0
     ELSE (bank * ((members * DECIMAL_ONE) \div sum_of_members)) \div DECIMAL_ONE

RegisterEmptyPayment ==
  /\ due(now) /\ bank = 0
  /\ payments' = payments \union {now}
  /\ UNCHANGED <<bank, events>>

PayMembers ==
  LET paid == portion(oc_members) + portion(ap_members)
  IN /\ due(now) /\ bank > 0
     /\ paid <= bank
     /\ bank' = bank - paid
     /\ events' = events \union {[time |-> now, paid |-> paid]}
     /\ UNCHANGED payments

NotDue == ~due(now) /\ UNCHANGED <<payments, bank, events>>

\* end_block runs once at the end of every block
EndBlock ==
  /\ RegisterEmptyPayment \/ PayMembers \/ NotDue
  /\ \E step \in BlockSteps : now' = now + step
  /\ now' <= MaxTime
  /\ UNCHANGED <<config_vars, members_vars>>

Next ==
  \/ \E sender \in Admin, new \in Admin \union {NoAdmin} : UpdateAdmin(sender, new)
  \/ \E sender \in Admin, amount \in PaymentAmounts : UpdateConfig(sender, amount)
  \/ \E amount \in {{}} \union {{x} : x \in PaymentAmounts},
        ratio \in {{}} \union {{x} : x \in FundsRatios} : Migrate(amount, ratio)
  \/ \E received \in Rewards :
       bank + received <= MaxFunds /\ DistributeRewards(received)
  \/ \E oc, ap \in MemberCounts : SetMembers(oc, ap)
  \/ EndBlock

Spec == Init /\ [][Next]_vars

-----------------------------------------------------------------------------
\* The query of the records
list_payments(start_after, limit) == page(payments, start_after, limit)

-----------------------------------------------------------------------------
\* The type of the contract's storage and of what it reads
TypeOK ==
  /\ admin \in Admin \union {NoAdmin} /\ payment_amount \in Nat
  /\ funds_ratio \in 0 .. DECIMAL_ONE /\ version \in Nat
  /\ payments \subseteq Nat /\ bank \in Nat
  /\ oc_members \in Nat /\ ap_members \in Nat
  /\ events \subseteq [time : Nat, paid : Nat]
  /\ now \in Nat

\* A period without funds is recorded once: records are a period, less the hour
\* against drift, apart, however late in its hour the first one was made.
RecordsSpaced ==
  \A s, t \in payments : s < t => t - s >= period - HOUR

\* state.rs: a contract "called at least once per hour" loses no payment: in the
\* first hour of every period that is over the members were paid or an empty
\* payment was recorded, although the check for an earlier payment looks at the
\* time that one was made and not at its period.
EveryPeriodSettled ==
  \A day \in StartDays : day * DAY + HOUR <= now =>
    \E t \in payments \union {event.time : event \in events} :
      day * DAY <= t /\ t < day * DAY + HOUR

\* Reading the records with any limit shows each of them once, and the last one
\* shown is the one that already_paid goes by.
PaymentsListed ==
  \A limit \in PageLimits :
    LET pages == Pages(LAMBDA s : list_payments(s, limit), Cardinality(payments))
        shown == UNION {pages[i] : i \in DOMAIN pages}
    IN /\ Shows(pages, payments)
       /\ already_paid(now) <=> \E last \in Last(shown) : now < last + period - HOUR

\* What a payout leaves behind is rounding: less than two tokens for the two
\* amounts and two of the least decimals for the two ratios.
PayoutLeavesDust ==
  [][events' # events /\ oc_members + ap_members > 0 =>
       DECIMAL_ONE * bank' < 2 * (DECIMAL_ONE + bank)]_vars

\* contract.rs: who was paid is "Already paid" until "last_payment + period - 1
\* hour": two payouts are that far apart.
PaidOncePerPeriod ==
  \A e, f \in events : e.paid > 0 /\ f.paid > 0 /\ e.time < f.time =>
    f.time - e.time >= period - HOUR
=============================================================================
