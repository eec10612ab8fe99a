--------------------------- MODULE TcPayments_proofs ----------------------------
(***************************************************************************)
(* What the payment records of TcPayments show for every calendar, period  *)
(* and pace of blocks that the assumptions allow, that its funds stay      *)
(* amounts, and how little of them a payout leaves behind.                 *)
(***************************************************************************)
EXTENDS TcPayments, Collections_proofs

-----------------------------------------------------------------------------
\* Days and hours

\* A day that is over is over for every later day too.
LEMMA DaysGrow ==
  ASSUME NEW n \in Nat, NEW d \in Nat, NEW e \in Nat, d < e
  PROVE  d * n + n <= e * n
<1>1. PICK k \in Nat : e = d + 1 + k
  <2>1. e - d - 1 \in Nat /\ e = d + 1 + (e - d - 1)
    OBVIOUS
  <2> QED BY <2>1
<1>2. e * n = d * n + n + k * n /\ k * n \in Nat /\ d * n \in Nat
  BY <1>1
<1> QED BY <1>2

\* The day of a time and the seconds since its midnight, as / and % give them.
LEMMA TimeOfDay ==
  ASSUME NEW t \in Nat
  PROVE  /\ t \div DAY \in Nat /\ t % DAY \in 0 .. DAY - 1
         /\ t = (t \div DAY) * DAY + (t % DAY)
<1>1. DAY \in Nat /\ DAY > 0
  BY PaymentsAssumption
<1> QED BY <1>1

\* The first hour of a day is when / gives the day and % less than an hour.
LEMMA FirstHour ==
  ASSUME NEW t \in Nat, NEW day \in Nat
  PROVE  day * DAY <= t /\ t < day * DAY + HOUR
           <=> t \div DAY = day /\ hour_after_midnight(t)
<1> PICK q, r : q = t \div DAY /\ r = t % DAY
  OBVIOUS
<1>1. q \in Nat /\ r \in 0 .. DAY - 1 /\ t = q * DAY + r
  BY TimeOfDay
<1>2. DAY \in Nat /\ HOUR \in Nat /\ HOUR <= DAY /\ day * DAY \in Nat /\ q * DAY \in Nat
  BY <1>1, PaymentsAssumption
<1>3. q < day => t < day * DAY
  BY <1>1, <1>2, DaysGrow
<1>4. q > day => t >= day * DAY + HOUR
  BY <1>1, <1>2, DaysGrow
<1>5. q = day => (day * DAY <= t /\ (t < day * DAY + HOUR <=> r < HOUR))
  BY <1>1, <1>2
<1> QED BY <1>1, <1>3, <1>4, <1>5, <1>2 DEF hour_after_midnight

-----------------------------------------------------------------------------
\* The inductive invariant

\* Records are of past blocks, in the first hour of a period, and unless there
\* is none one of them is the last: what the end blocker reads is really the
\* latest record.
RecordsOK ==
  /\ now \in Nat /\ payments \subseteq Nat
  /\ \A t \in payments : t < now /\ should_apply(t)
  /\ payments = {} \/ \E last \in payments : \A other \in payments : other <= last

Settled(day) ==
  \E t \in payments \union {event.time : event \in events} :
    day * DAY <= t /\ t < day * DAY + HOUR

IInv == RecordsOK /\ RecordsSpaced /\ EveryPeriodSettled

\* A record that is made when none is recent enough is far from all of them.
LEMMA RecordFar ==
  ASSUME RecordsOK, ~already_paid(now), NEW s \in payments
  PROVE  now - s >= period - HOUR
<1>1. PICK last \in payments : \A other \in payments : other <= last
  BY DEF RecordsOK
<1>2. now >= last + period - HOUR
  <2>1. last + period - HOUR \in Int /\ now \in Int
    BY PaymentsAssumption DEF RecordsOK
  <2> QED BY <1>1, <2>1 DEF already_paid
<1> QED BY <1>1, <1>2, PaymentsAssumption DEF RecordsOK

\* A record that is recent enough to stop a payment was made for this period: an
\* earlier period is over for more than a period less an hour.
LEMMA RecentIsThisPeriod ==
  ASSUME RecordsOK, already_paid(now), NEW day \in StartDays,
         day * DAY <= now, now < day * DAY + HOUR
  PROVE  Settled(day)
<1>1. PICK last \in payments : now < last + period - HOUR
  BY DEF already_paid
<1>2. last \in Nat /\ last < now /\ should_apply(last) /\ now \in Nat
  BY DEF RecordsOK
<1>3. PICK d \in StartDays : d * DAY <= last /\ last < d * DAY + HOUR
  <2>1. last \div DAY \in StartDays /\ hour_after_midnight(last)
    BY <1>2 DEF should_apply
  <2>2. last \div DAY \in Nat
    BY <1>2, TimeOfDay
  <2>3. (last \div DAY) * DAY <= last /\ last < (last \div DAY) * DAY + HOUR
    BY <1>2, <2>1, <2>2, FirstHour
  <2> QED BY <2>1, <2>3
<1>4. /\ day \in Nat /\ d \in Nat /\ DAY \in Nat /\ HOUR \in Nat /\ period \in Nat
      /\ HOUR <= DAY /\ DAY <= period /\ HOUR > 0
  BY CalendarAssumption, PaymentsAssumption
<1>5. day * DAY \in Nat /\ d * DAY \in Nat
  BY <1>4
<1>6. ~(d < day)
  <2> SUFFICES ASSUME d < day PROVE FALSE
    OBVIOUS
  <2>1. d * DAY + period <= day * DAY
    BY CalendarAssumption
  <2> QED BY <1>1, <1>2, <1>3, <1>4, <1>5, <2>1
<1>7. ~(day < d)
  <2> SUFFICES ASSUME day < d PROVE FALSE
    OBVIOUS
  <2>1. day * DAY + DAY <= d * DAY
    BY <1>4, DaysGrow
  <2> QED BY <1>2, <1>3, <1>4, <1>5, <2>1
<1>8. d = day
  BY <1>4, <1>6, <1>7
<1> QED BY <1>3, <1>8 DEF Settled

-----------------------------------------------------------------------------
\* Only the end of a block makes records and lets time pass

LEMMA EndBlockKeeps ==
  ASSUME IInv, EndBlock
  PROVE  IInv'
<1>1. PICK step \in BlockSteps : now' = now + step
  BY DEF EndBlock
<1>2. /\ step \in 1 .. HOUR /\ HOUR \in Nat /\ now \in Nat /\ period \in Nat
      /\ now' \in Nat /\ now < now' /\ now' <= now + HOUR
  BY <1>1, CalendarAssumption, PaymentsAssumption DEF IInv, RecordsOK
<1>3. \/ due(now) /\ payments' = payments \union {now} /\ events' = events
      \/ due(now) /\ payments' = payments /\ (\E e \in events' : e.time = now) /\ events \subseteq events'
      \/ ~due(now) /\ payments' = payments /\ events' = events
  <2>1. CASE RegisterEmptyPayment
    BY <2>1 DEF RegisterEmptyPayment
  <2>2. CASE PayMembers
    <3> PICK event : event = [time |-> now, paid |-> portion(oc_members) + portion(ap_members)]
      OBVIOUS
    <3>1. due(now) /\ payments' = payments /\ events' = events \union {event}
      BY <2>2 DEF PayMembers
    <3>2. event.time = now
      OBVIOUS
    <3> QED BY <3>1, <3>2
  <2>3. CASE NotDue
    BY <2>3 DEF NotDue
  <2> QED BY <2>1, <2>2, <2>3 DEF EndBlock
<1>4. RecordsOK' /\ RecordsSpaced'
  <2>1. CASE due(now) /\ payments' = payments \union {now}
    <3>1. RecordsOK'
      BY <1>2, <2>1 DEF IInv, RecordsOK, due, should_apply, hour_after_midnight
    <3>2. \A s \in payments : now - s >= period - HOUR
      BY <2>1, RecordFar DEF IInv, due
    <3>3. RecordsSpaced'
      BY <1>2, <2>1, <3>2 DEF IInv, RecordsOK, RecordsSpaced
    <3> QED BY <3>1, <3>3
  <2>2. CASE payments' = payments
    BY <1>2, <2>2 DEF IInv, RecordsOK, RecordsSpaced, should_apply, hour_after_midnight
  <2> QED BY <1>3, <2>1, <2>2
<1>5. EveryPeriodSettled'
  <2> SUFFICES ASSUME NEW day \in StartDays, day * DAY + HOUR <= now'
               PROVE  Settled(day)'
    BY DEF EveryPeriodSettled, Settled
  <2>1. Settled(day) => Settled(day)'
    BY <1>3 DEF Settled
  <2>2. CASE day * DAY + HOUR <= now
    BY <2>1, <2>2 DEF IInv, EveryPeriodSettled, Settled
  <2>3. CASE ~(day * DAY + HOUR <= now)
    <3>1. day \in Nat /\ day * DAY \in Nat
      BY CalendarAssumption, PaymentsAssumption
    <3>2. day * DAY <= now /\ now < day * DAY + HOUR
      BY <1>2, <2>3, <3>1
    <3>3. CASE due(now)
      BY <1>3, <3>2, <3>3 DEF Settled
    <3>4. CASE ~due(now)
      <4>1. hour_after_midnight(now) /\ should_apply(now)
        BY <1>2, <3>1, <3>2, FirstHour DEF should_apply
      <4>2. already_paid(now)
        BY <3>4, <4>1 DEF due
      <4> QED BY <2>1, <3>2, <4>2, RecentIsThisPeriod DEF IInv
    <3> QED BY <3>3, <3>4
  <2> QED BY <2>2, <2>3
<1> QED BY <1>4, <1>5 DEF IInv

LEMMA InitEstablishes == Init => IInv
<1> SUFFICES ASSUME Init PROVE IInv
  OBVIOUS
<1>1. payments = {} /\ now = 0
  BY DEF Init
<1>2. \A day \in StartDays : ~(day * DAY + HOUR <= now)
  <2> SUFFICES ASSUME NEW day \in StartDays PROVE ~(day * DAY + HOUR <= now)
    OBVIOUS
  <2>1. day * DAY \in Nat
    BY CalendarAssumption, PaymentsAssumption
  <2> QED BY <1>1, <2>1, PaymentsAssumption
<1> QED BY <1>1, <1>2 DEF IInv, RecordsOK, RecordsSpaced, EveryPeriodSettled

LEMMA NextKeeps == IInv /\ [Next]_vars => IInv'
<1> SUFFICES ASSUME IInv, [Next]_vars PROVE IInv'
  OBVIOUS
<1>1. CASE EndBlock
  BY <1>1, EndBlockKeeps
<1>2. CASE UNCHANGED <<payments, events, now>>
  BY <1>2 DEF IInv, RecordsOK, RecordsSpaced, EveryPeriodSettled, should_apply,
              hour_after_midnight
<1>3. CASE Next /\ ~EndBlock
  <2>1. UNCHANGED <<payments, events, now>>
    BY <1>3 DEF Next, UpdateAdmin, UpdateConfig, Migrate, DistributeRewards, SetMembers
  <2> QED BY <1>2, <2>1
<1>4. CASE UNCHANGED vars
  BY <1>2, <1>4 DEF vars
<1> QED BY <1>1, <1>3, <1>4

\* Whatever the calendar, the funds and the members, and however late in its
\* hour a record was made: the records of end_block are a period, less the hour
\* against drift, apart, and no period is left without a payout or a record.
THEOREM Invariant == Spec => []IInv
<1> QED BY InitEstablishes, NextKeeps, PTL DEF Spec

\* Empty payments are recorded once a period (end_block and create_payment).
THEOREM Spaced == Spec => []RecordsSpaced
<1>1. IInv => RecordsSpaced
  BY DEF IInv
<1> QED BY <1>1, Invariant, PTL

\* A contract that is called once an hour misses no period: the check for an
\* earlier payment never takes the record of the period before for its own
\* (end_block and should_apply).
THEOREM Settles == Spec => []EveryPeriodSettled
<1>1. IInv => EveryPeriodSettled
  BY DEF IInv
<1> QED BY <1>1, Invariant, PTL

-----------------------------------------------------------------------------
\* The funds: what is kept and paid are amounts, for every ratio that validates

\* A share of at most one, cut down, is at most the whole.
LEMMA ShareBound ==
  ASSUME NEW x \in Nat, NEW y \in 0 .. DECIMAL_ONE
  PROVE  (y * x) \div DECIMAL_ONE \in 0 .. x
<1>1. DECIMAL_ONE \in Nat /\ DECIMAL_ONE > 0
  BY PaymentsAssumption
<1>2. y * x \in Nat /\ y * x <= x * DECIMAL_ONE
  BY <1>1
<1> DEFINE q == (y * x) \div DECIMAL_ONE
<1>3. q \in Nat /\ q * DECIMAL_ONE <= y * x
  BY <1>1, <1>2
<1>4. q * DECIMAL_ONE <= x * DECIMAL_ONE
  BY <1>1, <1>2, <1>3
<1>5. q <= x
  BY <1>1, <1>3, <1>4
<1> QED BY <1>3, <1>5

\* distribute_rewards keeps between nothing and all of what it received.
LEMMA KeptBound ==
  ASSUME TypeOK, NEW received \in Nat
  PROVE  kept(received) \in 0 .. received
<1>1. DECIMAL_ONE - funds_ratio \in 0 .. DECIMAL_ONE
  BY PaymentsAssumption DEF TypeOK
<1>2. ((DECIMAL_ONE - funds_ratio) * received) \div DECIMAL_ONE \in 0 .. received
  BY <1>1, ShareBound
<1> QED BY <1>2 DEF kept

\* The part of a member contract is an amount.
LEMMA PortionType ==
  ASSUME TypeOK, NEW members \in Nat
  PROVE  portion(members) \in Nat
<1> DEFINE all == oc_members + ap_members
           ratio == (members * DECIMAL_ONE) \div all
<1>1. /\ DECIMAL_ONE \in Nat /\ DECIMAL_ONE > 0 /\ bank \in Nat /\ all \in Nat
      /\ members * DECIMAL_ONE \in Nat
  BY PaymentsAssumption DEF TypeOK
<1>2. CASE all = 0
  BY <1>2 DEF portion
<1>3. CASE all # 0
  <2> HIDE DEF all
  <2>1. ratio \in Nat
    BY <1>1, <1>3
  <2> HIDE DEF ratio
  <2>2. bank * ratio \in Nat
    BY <1>1, <2>1
  <2>3. (bank * ratio) \div DECIMAL_ONE \in Nat
    BY <1>1, <2>2
  <2> QED BY <1>3, <2>3 DEF portion, all, ratio
<1> QED BY <1>2, <1>3

LEMMA OptionValue ==
  ASSUME NEW S, NEW option \in {{}} \union {{x} : x \in S}, NEW default
  PROVE  Unwrap(option, default) \in option \/ Unwrap(option, default) = default
BY DEF Unwrap

\* A migration that is not given a ratio sets one percent or keeps the old one.
LEMMA MigrateTyped ==
  ASSUME TypeOK, NEW amount \in {{}} \union {{x} : x \in PaymentAmounts},
         NEW ratio \in {{}} \union {{x} : x \in FundsRatios}, Migrate(amount, ratio)
  PROVE  TypeOK'
<1>1. payment_amount' \in Nat
  <2>1. payment_amount' \in amount \/ payment_amount' = payment_amount
    BY OptionValue DEF Migrate
  <2> QED BY <2>1, PaymentsAssumption DEF TypeOK
<1>2. funds_ratio' \in 0 .. DECIMAL_ONE
  <2>1. /\ \A r \in ratio : r \in 0 .. DECIMAL_ONE
        /\ DECIMAL_ONE \div 100 \in 0 .. DECIMAL_ONE /\ funds_ratio \in 0 .. DECIMAL_ONE
    BY PaymentsAssumption DEF Migrate, valid_ratio, TypeOK
  <2>2. \/ funds_ratio' = Unwrap(ratio, DECIMAL_ONE \div 100)
        \/ funds_ratio' = Unwrap(ratio, funds_ratio)
    BY DEF Migrate, migrated_ratio
  <2>3. \/ funds_ratio' \in ratio
        \/ funds_ratio' = DECIMAL_ONE \div 100
        \/ funds_ratio' = funds_ratio
    BY <2>2, OptionValue
  <2> QED BY <2>1, <2>3
<1> QED BY <1>1, <1>2, PaymentsAssumption DEF Migrate, TypeOK, members_vars

LEMMA EndBlockTyped ==
  ASSUME TypeOK, EndBlock
  PROVE  TypeOK'
<1>1. now' \in Nat
  BY CalendarAssumption, PaymentsAssumption DEF EndBlock, TypeOK
<1>2. payments' \subseteq Nat /\ bank' \in Nat /\ events' \subseteq [time : Nat, paid : Nat]
  <2>1. CASE RegisterEmptyPayment
    BY <2>1 DEF RegisterEmptyPayment, TypeOK
  <2>2. CASE PayMembers
    <3> DEFINE paid == portion(oc_members) + portion(ap_members)
    <3>1. paid \in Nat
      BY PortionType DEF TypeOK
    <3>2. /\ paid <= bank /\ bank' = bank - paid
          /\ events' = events \union {[time |-> now, paid |-> paid]}
          /\ payments' = payments
      BY <2>2 DEF PayMembers
    <3> HIDE DEF paid
    <3> QED BY <3>1, <3>2 DEF TypeOK
  <2>3. CASE NotDue
    BY <2>3 DEF NotDue, TypeOK
  <2> QED BY <2>1, <2>2, <2>3 DEF EndBlock
<1> QED BY <1>1, <1>2 DEF EndBlock, TypeOK, config_vars, members_vars

LEMMA NextTyped == TypeOK /\ [Next]_vars => TypeOK'
<1> SUFFICES ASSUME TypeOK, [Next]_vars PROVE TypeOK'
  OBVIOUS
<1>1. ASSUME NEW sender \in Admin, NEW new \in Admin \union {NoAdmin}, UpdateAdmin(sender, new)
      PROVE  TypeOK'
  BY <1>1 DEF UpdateAdmin, TypeOK, members_vars
<1>2. ASSUME NEW sender \in Admin, NEW amount \in PaymentAmounts, UpdateConfig(sender, amount)
      PROVE  TypeOK'
  BY <1>2, PaymentsAssumption DEF UpdateConfig, TypeOK, members_vars
<1>3. ASSUME NEW received \in Rewards, DistributeRewards(received)
      PROVE  TypeOK'
  <2>1. received \in Nat
    BY PaymentsAssumption
  <2>2. bank + kept(received) \in Nat
    BY <2>1, KeptBound DEF TypeOK
  <2> QED BY <1>3, <2>2 DEF DistributeRewards, TypeOK, config_vars, members_vars
<1>4. ASSUME NEW oc \in MemberCounts, NEW ap \in MemberCounts, SetMembers(oc, ap)
      PROVE  TypeOK'
  BY <1>4, PaymentsAssumption DEF SetMembers, TypeOK, config_vars
<1>5. CASE EndBlock
  BY <1>5, EndBlockTyped
<1>6. CASE UNCHANGED vars
  BY <1>6 DEF vars, TypeOK, config_vars, members_vars
<1> QED BY <1>1, <1>2, <1>3, <1>4, <1>5, <1>6, MigrateTyped DEF Next

\* No message, migration or payout drives an amount below zero or the ratio above
\* one, whatever the ratio, the rewards and the members.
THEOREM Typed == Spec => []TypeOK
<1>1. Init => TypeOK
  BY PaymentsAssumption DEF Init, TypeOK, valid_ratio
<1>2. TypeOK /\ [Next]_vars => TypeOK'
  BY NextTyped
<1> QED BY <1>1, <1>2, PTL DEF Spec

-----------------------------------------------------------------------------
\* PaymentsListed

LEMMA RecordsFinite == Spec => []IsFiniteSet(payments)
<1>1. Init => IsFiniteSet(payments)
  BY FS_EmptySet DEF Init
<1>2. ASSUME IsFiniteSet(payments), [Next]_vars PROVE IsFiniteSet(payments)'
  <2>1. payments' = payments \/ payments' = payments \union {now}
    BY <1>2 DEF Next, vars, config_vars, members_vars, UpdateAdmin, UpdateConfig, Migrate,
                DistributeRewards, SetMembers, EndBlock, RegisterEmptyPayment, PayMembers, NotDue
  <2> QED BY <1>2, <2>1, FS_AddElement
<1> QED BY <1>1, <1>2, PTL DEF Spec

\* Whoever reads the records, with any limit that asks for some, sees each of them
\* once, and the last of them is the one that already_paid goes by, which itself
\* reads only the last entry (list_payments and PAYMENTS.last of state.rs).
THEOREM RecordsListed ==
  ASSUME \A limit \in PageLimits : IsLimit(limit)
  PROVE  Spec => []PaymentsListed
<1>1. ASSUME IInv, IsFiniteSet(payments) PROVE PaymentsListed
  <2>1. ASSUME NEW limit \in PageLimits
        PROVE  LET pages == Pages(LAMBDA s : list_payments(s, limit), Cardinality(payments))
                   shown == UNION {pages[i] : i \in DOMAIN pages}
               IN /\ Shows(pages, payments)
                  /\ already_paid(now) <=> \E last \in Last(shown) : now < last + period - HOUR
    <3> PICK pages : pages = PagesOf(payments, limit, Cardinality(payments))
      OBVIOUS
    <3>1. Pages(LAMBDA s : list_payments(s, limit), Cardinality(payments)) = pages
      BY DEF PagesOf, list_payments
    <3>2. payments \in SUBSET Int /\ IsLimit(limit)
      BY <1>1 DEF IInv, RecordsOK
    <3>3. Shows(pages, payments)
      BY <1>1, <3>2, KeysOfShown
    <3>4. UNION {pages[i] : i \in DOMAIN pages} = payments
      BY <3>3, ShownUnion
    <3>5. already_paid(now) <=> \E last \in Last(payments) : now < last + period - HOUR
      BY DEF already_paid, Last
    <3> QED BY <3>1, <3>3, <3>4, <3>5
  <2> QED BY <2>1 DEF PaymentsListed
<1> QED BY <1>1, Invariant, RecordsFinite, PTL

-----------------------------------------------------------------------------
\* PayoutLeavesDust

\* Two shares of a sum, each cut to whole decimals, miss less than two decimals.
LEMMA SharesMiss ==
  ASSUME NEW one \in Nat \ {0}, NEW a \in Nat, NEW b \in Nat, a + b > 0
  PROVE  /\ (a * one) \div (a + b) \in Nat /\ (b * one) \div (a + b) \in Nat
         /\ (a * one) \div (a + b) + (b * one) \div (a + b) >= one - 1
<1> PICK all, q, r : all = a + b /\ q = (a * one) \div all /\ r = (b * one) \div all
  OBVIOUS
<1>1. all \in Nat \ {0} /\ a * one \in Nat /\ b * one \in Nat
  OBVIOUS
<1>2. /\ q \in Nat /\ r \in Nat
      /\ a * one < all * q + all /\ b * one < all * r + all
  BY <1>1, Quotient
<1>3. a * one + b * one = all * one
  OBVIOUS
<1>4. ASSUME q + r + 2 <= one PROVE FALSE
  <2>1. all * (q + r + 2) <= all * one
    BY <1>1, <1>2, <1>4, TimesOrder
  <2>2. all * (q + r + 2) = all * q + all * r + 2 * all
    BY <1>1, <1>2
  <2>3. all * q \in Int /\ all * r \in Int /\ all * one \in Int
    BY <1>1, <1>2
  <2> QED BY <1>1, <1>2, <1>3, <2>1, <2>2, <2>3
<1> QED BY <1>1, <1>2, <1>4

\* Two amounts cut to whole tokens miss less than two tokens of what the ratios
\* ask for.
LEMMA AmountsMiss ==
  ASSUME NEW one \in Nat \ {0}, NEW funds \in Nat, NEW q \in Nat, NEW r \in Nat,
         q + r >= one - 1
  PROVE  LET paid == (funds * q) \div one + (funds * r) \div one
         IN paid \in Nat /\ one * (funds - paid) < 2 * (one + funds)
<1> PICK x, y : x = (funds * q) \div one /\ y = (funds * r) \div one
  OBVIOUS
<1>1. funds * q \in Nat /\ funds * r \in Nat
  OBVIOUS
<1>2. x \in Nat /\ y \in Nat /\ funds * q < one * x + one /\ funds * r < one * y + one
  BY <1>1, Quotient
<1>3. funds * (one - 1) <= funds * (q + r)
  BY TimesOrder
<1>4. /\ funds * (one - 1) = funds * one - funds
      /\ funds * (q + r) = funds * q + funds * r
      /\ funds * one = one * funds /\ one * funds \in Int
  OBVIOUS
<1>5. /\ one * (funds - (x + y)) = one * funds - one * x - one * y
      /\ one * x \in Int /\ one * y \in Int
  BY <1>2
<1>6. one * funds - one * x - one * y < 2 * one + funds
  BY <1>1, <1>2, <1>3, <1>4, <1>5
<1>7. one * (funds - (x + y)) < 2 * (one + funds)
  BY <1>5, <1>6
<1> QED BY <1>2, <1>7

\* A payout leaves less than two tokens for the two amounts that are cut and two
\* of the least decimals for the two ratios, whatever the balance and the sizes of
\* the two member contracts (end_block and its total_funds * Decimal::from_ratio).
THEOREM LittleLeft == Spec => PayoutLeavesDust
<1>1. ASSUME TypeOK, Next, events' # events, oc_members + ap_members > 0
      PROVE  DECIMAL_ONE * bank' < 2 * (DECIMAL_ONE + bank)
  <2>1. PayMembers
    BY <1>1 DEF Next, UpdateAdmin, UpdateConfig, Migrate, DistributeRewards, SetMembers,
                EndBlock, RegisterEmptyPayment, NotDue
  <2> PICK all, q, r : /\ all = oc_members + ap_members
                       /\ q = (oc_members * DECIMAL_ONE) \div all
                       /\ r = (ap_members * DECIMAL_ONE) \div all
    OBVIOUS
  <2>2. DECIMAL_ONE \in Nat \ {0} /\ bank \in Nat /\ oc_members \in Nat /\ ap_members \in Nat
    BY <1>1, PaymentsAssumption DEF TypeOK
  <2>3. q \in Nat /\ r \in Nat /\ q + r >= DECIMAL_ONE - 1
    BY <1>1, <2>2, SharesMiss
  <2>4. /\ portion(oc_members) = (bank * q) \div DECIMAL_ONE
        /\ portion(ap_members) = (bank * r) \div DECIMAL_ONE
    BY <1>1, <2>2 DEF portion
  <2>5. bank' = bank - (portion(oc_members) + portion(ap_members))
    BY <2>1 DEF PayMembers
  <2> QED BY <2>2, <2>3, <2>4, <2>5, AmountsMiss
<1>2. TypeOK /\ [Next]_vars =>
        [events' # events /\ oc_members + ap_members > 0 =>
           DECIMAL_ONE * bank' < 2 * (DECIMAL_ONE + bank)]_vars
  BY <1>1
<1> QED BY <1>2, Typed, PTL DEF Spec, PayoutLeavesDust
=============================================================================
