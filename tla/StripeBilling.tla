--------------------------- MODULE StripeBilling ----------------------------
(***************************************************************************)
(* The subscriptions of one tenant, kept twice: at Stripe, and in the      *)
(* table subscriptions (api/billing/router.py, stripe.py, access.py).      *)
(* Checkout, plan changes and cancellation call Stripe from a request;     *)
(* everything else arrives as webhook events that Stripe repeats until     *)
(* they are answered with 2xx, in any order, duplicated, and handled by    *)
(* concurrent processes of the API.                                        *)
(*                                                                         *)
(* A webhook is one transaction. It begins by reading, and locking, the    *)
(* row of its subscription and ends by a commit that the unique indexes    *)
(* may refuse; other transactions run in between.                          *)
(*                                                                         *)
(* An amount is positive and is the plan it pays for, except for refunds,  *)
(* which are counted in thirds of the charge. Stripe itself is external:   *)
(* what it does is taken from the calls and the events of the code.        *)
(***************************************************************************)
EXTENDS Naturals, Sequences, FiniteSets, Functions

CONSTANTS
    Plan,       \* SUBSCRIBABLE_PLANS
    Sub,        \* identifiers of Stripe subscriptions
    Handler,    \* API processes, each handles one webhook at a time
    Caller,    \* API processes, each serves one request at a time
    None,       \* NULL
    Period,     \* the length of a billing period
    MaxTime,    \* bound: the clock, in seconds of Stripe's time stamps
    MaxEvents,  \* bound: events Stripe emits
    MaxRows     \* bound: rows of the tenant

ASSUME BillingAssumption ==
    /\ Period \in Nat \ {0}
    /\ MaxTime \in Nat \ {0} /\ MaxEvents \in Nat /\ MaxRows \in Nat
    /\ None \notin Plan \cup Sub

VARIABLES
    now,      \* the clock
    stripe,   \* Stripe: the state of each subscription
    sessions, \* Stripe: the session of Checkout of each pending row
    refunded, \* Stripe: amount_refunded of the first charge
    events,   \* Stripe: events emitted
    acked,    \* Stripe: ids of the events answered with 2xx
    rows,     \* subscriptions of the tenant, in the order of their ids
    plan,     \* tenants.plan
    ledger,   \* billing_events: event ids
    notified, \* billing_events: notification keys, which are invoices
    payments, \* payment_transactions
    handling, \* what a webhook handler has read and is about to commit
    asking,   \* what an owner's request has read and is about to commit
    lost      \* a change is not what Stripe was asked for, and no renewal followed

stripeVars == <<stripe, sessions, refunded, events, acked>>
tableVars  == <<rows, plan, ledger, notified, payments>>
billingVars == <<now, stripeVars, tableVars, handling, asking, lost>>

-----------------------------------------------------------------------------
(* Rows and events                                                         *)

\* CURRENT_STATUSES. Nothing asks Stripe for a trial period.
Current   == {"active", "trialing", "past_due"}
RowStatus == Current \cup {"pending", "canceled", "unpaid", "incomplete"}
Time      == 0 .. MaxTime + 3 * Period

\* started is kept only where expires_at is NULL: in a row that an invoice made
\* which was not paid.
SubscriptionRow == [status  : RowStatus,
        plan    : Plan,
        sub     : Sub \cup {None},      \* provider_subscription_id
        session : 0 .. MaxRows,         \* provider_checkout_session_id, or 0
        seen    : 0 .. MaxTime,         \* provider_event_created_at, or 0
        started : 0 .. MaxTime,         \* started_at
        expires : Time,                 \* expires_at, or 0
        cancels : BOOLEAN]              \* cancel_at_period_end

ASSUME NoneAssumption == None \notin SubscriptionRow

EventType == {"checkout", "expired", "updated", "deleted", "failed", "paid",
              "refund"}

Event == [id      : 1 .. MaxEvents,
          type    : EventType,
          created : 0 .. MaxTime,
          sub     : Sub \cup {None},
          session : 0 .. MaxRows,
          plan    : Plan \cup {None},
          status  : RowStatus,
          end     : Time,               \* the period's end
          cancels : BOOLEAN,
          prorated : BOOLEAN,           \* billing_reason subscription_update
          invoice : 0 .. MaxEvents,
          total   : 0 .. 3]             \* amount_refunded

Payment == [event : 1 .. MaxEvents, status : {"succeeded", "failed", "refunded"},
            invoice : 0 .. MaxEvents, amount : 0 .. 3]

\* at is the second of the last change; answers, what Stripe keeps for each
\* idempotency key of update_subscription; invoice, the one of the checkout.
StripeSub == [status : {"none", "active", "past_due", "unpaid", "canceled"},
              plan : Plan \cup {None}, end : Time, cancels : BOOLEAN,
              at : 0 .. MaxTime, invoice : 0 .. MaxEvents,
              answers : SUBSET [plan : Plan, status : RowStatus, end : Time]]

Session == [state : {"none", "open", "paid", "expired"}, at : 0 .. MaxTime]

NoRequest == [step |-> "none"]
NoEvent   == [step |-> "idle"]
Ids       == 1 .. Len(rows)

BillingInit ==
    /\ now = 1
    /\ stripe = [s \in Sub |-> [status |-> "none", plan |-> None, end |-> 0,
                     cancels |-> FALSE, at |-> 0, invoice |-> 0, answers |-> {}]]
    /\ sessions = [i \in 1 .. MaxRows |-> [state |-> "none", at |-> 0]]
    /\ refunded = [s \in Sub |-> 0]
    /\ events = {}
    /\ acked = {}
    /\ rows = <<>>
    /\ plan = "trial"
    /\ ledger = {}
    /\ notified = {}
    /\ payments = {}
    /\ handling = [h \in Handler |-> NoEvent]
    /\ asking = [r \in Caller |-> NoRequest]
    /\ lost = FALSE

-----------------------------------------------------------------------------
(* Access: api/billing/access.py                                           *)

\* subscription_is_current
IsCurrent(r) ==
    /\ r.status \in Current
    /\ (IF r.expires = 0 THEN r.started + Period ELSE r.expires) > now

\* What sync_tenant_plan writes, and effective_tenant_plan answers. An index
\* keeps at most one row in Current.
PlanOf(table, old) ==
    LET live == {i \in DOMAIN table : IsCurrent(table[i])}
    IN  IF live # {} THEN table[CHOOSE i \in live : TRUE].plan
        ELSE IF \E i \in DOMAIN table :
                    table[i].status \notin {"pending", "incomplete"}
             THEN "expired"
             ELSE old

\* A session writes tenants.plan only when it is not the value it has read;
\* the session of a request takes the plan of its authorisation for that value.
Changed(p)    == IF p = plan THEN None ELSE p
ChangedIn(r, p) == IF p = asking[r].plan THEN None ELSE p

\* What sync_tenant_plan leaves request r to write.
Synced(r) == ChangedIn(r, PlanOf(rows, asking[r].plan))

Written(p) == IF p = None THEN plan ELSE p

-----------------------------------------------------------------------------
(* Locks                                                                   *)

HasCurrent  == \E i \in Ids : rows[i].status \in Current
PendingRows == {i \in Ids : rows[i].status = "pending"}

HeldByRequest(r) ==
    IF asking[r].step \in {"checkout", "change"} /\ asking[r].locks
    THEN {asking[r].row} ELSE {}

HeldByHandler(h) == IF handling[h].step = "commit" THEN handling[h].locks ELSE {}

LockedRow(i) == \/ \E h \in Handler : i \in HeldByHandler(h)
                \/ \E r \in Caller : i \in HeldByRequest(r)

\* subscribe holds the tenant's row while it calls Stripe.
TenantLocked == \E r \in Caller : HeldByRequest(r) # {}

Ask(r, request) ==
    /\ asking[r].step = "signed in"
    /\ asking' = [asking EXCEPT ![r] = request]

Answered(r) == asking' = [asking EXCEPT ![r] = NoRequest]

-----------------------------------------------------------------------------
(* Events                                                                  *)

NextInvoice == Cardinality(events) + 1

BlankEvent == [id |-> 1, type |-> "paid", created |-> now, sub |-> None,
          session |-> 0, plan |-> None, status |-> "active", end |-> 0,
          cancels |-> FALSE, prorated |-> FALSE, invoice |-> 0, total |-> 0]

About(type, s, sub) ==
    [BlankEvent EXCEPT !.type = type, !.sub = s, !.plan = sub.plan,
                  !.status = sub.status, !.end = sub.end, !.cancels = sub.cancels,
                  !.invoice = NextInvoice]

\* Events of one moment carry the same second.
Emit(seq) ==
    LET n == Cardinality(events)
    IN  /\ n + Len(seq) <= MaxEvents
        /\ events' = events \cup {[seq[k] EXCEPT !.id = n + k] : k \in DOMAIN seq}

-----------------------------------------------------------------------------
(* Requests of the owner                                                   *)

\* get_current_user answers for the plan that the rows give, and leaves it in
\* the session as if it had been read.
SignIn(r) ==
    /\ asking[r] = NoRequest
    /\ asking' = [asking EXCEPT ![r] =
                   [step |-> "signed in", plan |-> PlanOf(rows, plan)]]
    /\ UNCHANGED <<now, stripeVars, tableVars, handling, lost>>

\* A request that is refused, or has nothing to change.
Leave(r) ==
    /\ asking[r].step = "signed in"
    /\ Answered(r)
    /\ UNCHANGED <<now, stripeVars, tableVars, handling, lost>>

\* GET /usage reads the rows again and commits what it finds later. It has
\* something to write only if the plan has changed since the authorisation.
BeginUsage(r) ==
    /\ Ask(r, [step |-> "usage", plan |-> Synced(r)])
    /\ Synced(r) # None
    /\ UNCHANGED <<now, stripeVars, tableVars, handling, lost>>

FinishUsage(r) ==
    /\ asking[r].step = "usage"
    /\ ~TenantLocked
    /\ plan' = asking[r].plan
    /\ Answered(r)
    /\ UNCHANGED <<now, stripeVars, rows, ledger, notified, payments, handling, lost>>

NewRow(p) ==
    [status |-> "pending", plan |-> p, sub |-> None, session |-> 0,
     seen |-> 0, started |-> 0, expires |-> 0, cancels |-> FALSE]

\* subscribe without a current subscription: the pending row is committed
\* before Stripe is called, which gives up the locks.
BeginCheckout(r, p) ==
    /\ Ask(r, [step |-> "checkout", row |-> Len(rows) + 1, locks |-> FALSE, plan |-> None])
    /\ ~TenantLocked
    /\ ~HasCurrent
    /\ PendingRows = {}
    /\ Len(rows) < MaxRows
    /\ rows' = Append(rows, NewRow(p))
    /\ plan' = Written(Synced(r))
    /\ UNCHANGED <<now, stripeVars, ledger, notified, payments, handling, lost>>

\* Repeated, it finds that row, and calls Stripe again if no session is known;
\* the tenant and the row stay locked.
RepeatCheckout(r, p, i) ==
    /\ ~TenantLocked
    /\ ~HasCurrent
    /\ i \in PendingRows
    /\ rows[i].plan = p
    /\ rows[i].session = 0
    /\ ~LockedRow(i)
    /\ Ask(r, [step |-> "checkout", row |-> i, locks |-> TRUE, plan |-> Synced(r)])
    /\ UNCHANGED <<now, stripeVars, tableVars, handling, lost>>

\* Stripe opens one session per idempotency key, that is per pending row.
CreateCheckoutSession(i) ==
    IF sessions[i].state # "none" THEN sessions
    ELSE [sessions EXCEPT ![i] = [state |-> "open", at |-> now]]

\* Its answer is stored, or is lost with the request, or refused by the unique
\* index when a webhook has stored the session in a row of its own; or Stripe
\* was not reached.
FinishCheckout(r, stored) ==
    /\ asking[r].step = "checkout"
    /\ LET i == asking[r].row
       IN  /\ sessions' \in {CreateCheckoutSession(i)} \cup IF stored THEN {} ELSE {sessions}
           /\ IF stored
              THEN /\ \A h \in Handler : i \notin HeldByHandler(h)
                   /\ \A q \in Caller \ {r} : HeldByRequest(q) = {}
                   /\ \A j \in Ids \ {i} : rows[j].session # i
                   /\ rows' = [rows EXCEPT ![i].session = i]
                   /\ plan' = Written(asking[r].plan)
              ELSE UNCHANGED <<rows, plan>>
    /\ Answered(r)
    /\ UNCHANGED <<now, stripe, refunded, events, acked, ledger, notified,
                   payments, handling, lost>>

\* The idempotency key is of the subscription and the plan: Stripe answers a
\* key it knows from memory and changes nothing.
Remembered(s, p) == {a \in stripe[s].answers : a.plan = p}

ModifySubscription(s, p) ==
    [stripe[s] EXCEPT !.plan = p, !.cancels = FALSE, !.at = now,
        !.answers = @ \cup {[plan |-> p, status |-> stripe[s].status, end |-> stripe[s].end]}]

\* subscribe with a current subscription asks Stripe to change it, which
\* invoices the difference at once; the tenant and the row stay locked.
BeginChange(r, p, i) ==
    /\ ~TenantLocked
    /\ i \in Ids /\ rows[i].status \in Current /\ ~LockedRow(i)
    /\ rows[i].sub # None
    /\ rows[i].plan # p \/ rows[i].cancels
    /\ LET s == rows[i].sub
           known == Remembered(s, p)
           new == ModifySubscription(s, p)
           answer == [plan |-> p, status |-> new.status, end |-> new.end]
       IN  \/ /\ known # {}
              /\ Ask(r, [step |-> "change", row |-> i, locks |-> TRUE,
                         plan |-> ChangedIn(r, p), answer |-> CHOOSE a \in known : TRUE])
              /\ lost' = TRUE
              /\ UNCHANGED <<stripe, events>>
           \/ /\ known = {}
              /\ stripe[s].status \in Current
              /\ stripe' = [stripe EXCEPT ![s] = new]
              /\ Emit(<<[About("paid", s, new) EXCEPT !.prorated = TRUE],
                        About("updated", s, new)>>)
              /\ Ask(r, [step |-> "change", row |-> i, locks |-> TRUE,
                         plan |-> ChangedIn(r, p), answer |-> answer])
              /\ UNCHANGED lost
    /\ UNCHANGED <<now, sessions, refunded, acked, tableVars, handling>>

FinishChange(r, stored) ==
    /\ asking[r].step = "change"
    /\ LET answer == asking[r].answer
       IN  IF stored
           THEN /\ rows' = [rows EXCEPT ![asking[r].row].plan = answer.plan,
                                        ![asking[r].row].cancels = FALSE,
                                        ![asking[r].row].status = answer.status,
                                        ![asking[r].row].expires = answer.end]
                /\ plan' = Written(asking[r].plan)
                /\ UNCHANGED lost
           ELSE lost' = TRUE /\ UNCHANGED <<rows, plan>>
    /\ Answered(r)
    /\ UNCHANGED <<now, stripeVars, ledger, notified, payments, handling>>

CancelSubscription(s) == [stripe[s] EXCEPT !.cancels = TRUE, !.at = now]

\* cancel locks nothing: it reads the row, tells Stripe, and sets the flag of
\* the row later, if it was not set when it read it.
BeginCancel(r, i) ==
    /\ i \in Ids /\ rows[i].status \in Current
    /\ rows[i].sub # None
    /\ LET s == rows[i].sub
           new == CancelSubscription(s)
       IN  /\ stripe[s].status \in Current
           /\ IF stripe[s].cancels THEN UNCHANGED <<stripe, events>>
              ELSE /\ stripe' = [stripe EXCEPT ![s] = new]
                   /\ Emit(<<About("updated", s, new)>>)
    /\ Ask(r, [step |-> "cancel", row |-> i, marks |-> ~rows[i].cancels,
               plan |-> Synced(r)])
    /\ UNCHANGED <<now, sessions, refunded, acked, tableVars, handling, lost>>

FinishCancel(r, stored) ==
    /\ asking[r].step = "cancel"
    /\ LET q == asking[r]
       IN  IF stored
           THEN /\ q.marks => ~LockedRow(q.row)
                /\ q.plan # None => ~TenantLocked
                /\ rows' = IF q.marks THEN [rows EXCEPT ![q.row].cancels = TRUE] ELSE rows
                /\ plan' = Written(q.plan)
           ELSE UNCHANGED <<rows, plan>>
    /\ Answered(r)
    /\ UNCHANGED <<now, stripeVars, ledger, notified, payments, handling, lost>>

-----------------------------------------------------------------------------
(* Stripe                                                                  *)

Quietly == UNCHANGED <<now, acked, tableVars, handling, asking>>

\* The customer pays: the subscription begins.
Pay(i, s) ==
    /\ sessions[i].state = "open"
    /\ stripe[s].status = "none"
    /\ LET new == [stripe[s] EXCEPT !.status = "active", !.plan = rows[i].plan,
                                    !.end = now + Period, !.at = now,
                                    !.invoice = NextInvoice]
       IN  /\ stripe' = [stripe EXCEPT ![s] = new]
           /\ Emit(<<[About("checkout", s, new) EXCEPT !.session = i],
                     About("updated", s, new), About("paid", s, new)>>)
    /\ sessions' = [sessions EXCEPT ![i].state = "paid"]
    /\ UNCHANGED <<refunded, lost>>
    /\ Quietly

SessionExpires(i) ==
    /\ sessions[i].state = "open"
    /\ sessions' = [sessions EXCEPT ![i].state = "expired"]
    /\ Emit(<<[BlankEvent EXCEPT !.type = "expired", !.session = i]>>)
    /\ UNCHANGED <<stripe, refunded, lost>>
    /\ Quietly

Moves(s, new, types) ==
    /\ stripe' = [stripe EXCEPT ![s] = [new EXCEPT !.at = now]]
    /\ Emit([k \in DOMAIN types |-> About(types[k], s, new)])
    /\ UNCHANGED <<sessions, refunded>>
    /\ Quietly

Renewable(s) ==
    stripe[s].status = "active" /\ stripe[s].end <= now /\ ~stripe[s].cancels

Renew(s) ==
    /\ Renewable(s)
    /\ Moves(s, [stripe[s] EXCEPT !.end = @ + Period], <<"paid", "updated">>)
    /\ lost' = FALSE

RenewalFails(s) ==
    /\ Renewable(s)
    /\ Moves(s, [stripe[s] EXCEPT !.end = @ + Period, !.status = "past_due"],
             <<"failed", "updated">>)
    /\ lost' = FALSE

Collects(s) ==
    /\ stripe[s].status \in {"past_due", "unpaid"}
    /\ Moves(s, [stripe[s] EXCEPT !.status = "active"], <<"paid", "updated">>)
    /\ UNCHANGED lost

\* What becomes of an invoice that is never paid is a setting of the account.
GivesUp(s) ==
    /\ stripe[s].status = "past_due"
    /\ Moves(s, [stripe[s] EXCEPT !.status = "unpaid"], <<"updated">>)
    /\ UNCHANGED lost

Deletes(s) ==
    /\ \/ /\ stripe[s].status = "active"
          /\ stripe[s].cancels /\ stripe[s].end <= now
       \/ stripe[s].status = "past_due"
    /\ Moves(s, [stripe[s] EXCEPT !.status = "canceled"], <<"deleted">>)
    /\ UNCHANGED lost

\* The operator refunds a part of the first charge.
Refund(s) ==
    /\ stripe[s].status # "none"
    /\ refunded[s] < 3
    /\ refunded' = [refunded EXCEPT ![s] = @ + 1]
    /\ Emit(<<[About("refund", s, stripe[s]) EXCEPT !.total = refunded[s] + 1,
                                                   !.invoice = stripe[s].invoice]>>)
    /\ UNCHANGED <<stripe, sessions, lost>>
    /\ Quietly

Tick ==
    /\ now < MaxTime
    /\ now' = now + 1
    /\ UNCHANGED <<stripeVars, tableVars, handling, asking, lost>>

-----------------------------------------------------------------------------
(* What an event asks for, given the committed tables                      *)

\* _subscription_row: by the subscription, else by the session.
Found(e) ==
    LET bySub     == {i \in Ids : e.sub # None /\ rows[i].sub = e.sub}
        bySession == {i \in Ids : e.session # 0 /\ rows[i].session = e.session}
        best      == IF bySub # {} THEN bySub ELSE bySession
    IN  IF best = {} THEN 0 ELSE CHOOSE i \in best : TRUE

\* A plausible bug: an event older than the last one applied is not noticed.
StaleNever(r, e) == FALSE

\* _stale_provider_event: the same second is stale too.
Stale(r, e) == r.seen # 0 /\ e.created <= r.seen

\* _other_current_subscription
Others(i) == {j \in Ids \ {i} : rows[j].status \in Current}

\* The plan after row i became r; i is 0 for a new row.
PlanWith(i, r) ==
    PlanOf(IF i = 0 THEN Append(rows, r) ELSE [rows EXCEPT ![i] = r], plan)

\* put is the row written, plan the tenant's new plan, pay the payment
\* recorded; done is what _process_stripe_event returns.
NoEffect == [put |-> None, plan |-> None, pay |-> "none", amount |-> 0,
            done |-> FALSE, rejected |-> FALSE]
Rejected == [NoEffect EXCEPT !.rejected = TRUE]
Put(r, p, done) == [NoEffect EXCEPT !.put = r, !.plan = p, !.done = done]

FreshRow(e) == [NewRow(e.plan) EXCEPT !.status = "incomplete", !.sub = e.sub]

\* A plausible bug: the tenant's other subscription is not looked for.
ActivateBeside(e, i) ==
    LET old == IF i = 0 THEN FreshRow(e) ELSE rows[i]
        new == [old EXCEPT !.plan = e.plan, !.sub = e.sub, !.status = "active",
                           !.session = e.session, !.seen = e.created,
                           !.expires = sessions[e.session].at + Period]
    IN  Put(new, Changed(e.plan), TRUE)

\* _activate_checkout. The period is counted from the session, not from the
\* payment.
ActivateCheckout(e, i) ==
    LET old == IF i = 0 THEN FreshRow(e) ELSE rows[i]
        new == [old EXCEPT !.plan = e.plan, !.sub = e.sub,
                           !.session = e.session, !.seen = e.created,
                           !.expires = sessions[e.session].at + Period]
    IN  IF i # 0 /\ Stale(old, e) THEN NoEffect
        ELSE IF Others(i) # {}
        THEN Put([new EXCEPT !.status = "incomplete"], None, FALSE)
        ELSE Put([new EXCEPT !.status = "active", !.cancels = FALSE],
                 Changed(e.plan), TRUE)

\* _update_subscription, also for deleted ones.
UpdateSubscription(e, i) ==
    LET old == IF i = 0 THEN FreshRow(e) ELSE rows[i]
        blocked == e.status \in Current /\ Others(i) # {}
        new == [old EXCEPT !.status = IF blocked THEN "incomplete" ELSE e.status,
                           !.cancels = e.cancels, !.expires = e.end,
                           !.seen = e.created, !.plan = e.plan]
    IN  IF Stale(old, e) /\ e.end <= old.expires THEN NoEffect
        ELSE Put(new, Changed(PlanWith(i, new)), ~blocked)

\* _invoice_period_end: an invoice never takes back what was paid before.
Later(a, b) == IF a > b THEN a ELSE b

\* _update_invoice_status. A payment that is older than the end of its
\* subscription is dropped; one of another amount than the row's is refused,
\* unless it is prorated.
UpdateInvoice(e, i) ==
    LET paid  == e.type = "paid"
        old   == IF i = 0 THEN [FreshRow(e) EXCEPT !.seen = e.created,
                                                   !.started = e.created]
                 ELSE rows[i]
        stale == i # 0 /\ Stale(old, e)
        ended == paid /\ old.status \in {"canceled", "unpaid"}
        record == [NoEffect EXCEPT !.pay = IF paid THEN "succeeded" ELSE "failed",
                                  !.done = TRUE]
        Write(r, p) == [record EXCEPT !.put = r, !.plan = p]
        new == [old EXCEPT !.status = IF paid THEN "active" ELSE "past_due",
                           !.expires = IF paid THEN Later(e.end, @) ELSE @,
                           !.seen = e.created]
    IN  IF stale /\ ended THEN NoEffect
        ELSE IF paid /\ ~e.prorated /\ e.plan # old.plan THEN Rejected
        ELSE IF stale \/ (ended /\ Others(i) # {}) THEN record
        ELSE IF Others(i) # {}
        THEN Write([old EXCEPT !.status = "incomplete", !.seen = e.created], None)
        ELSE Write(new, Changed(PlanWith(i, new)))

RecordedRefunds(invoice) ==
    SumFunctionOnSet([p \in payments |-> p.amount],
                     {p \in payments : p.invoice = invoice /\ p.status = "refunded"})

\* _record_refund_transaction: what is new of the cumulative amount.
RecordRefund(e, i) ==
    LET before == RecordedRefunds(e.invoice)
    IN  IF \E p \in payments : p.invoice = e.invoice /\ p.status = "succeeded"
        THEN [NoEffect EXCEPT !.pay = "refunded", !.done = TRUE,
                             !.amount = IF e.total > before THEN e.total - before
                                        ELSE 0]
        ELSE NoEffect

\* A session that was never paid: its row is closed.
ExpireCheckout(e, i) ==
    IF i # 0 /\ rows[i].status = "pending"
    THEN Put([rows[i] EXCEPT !.status = "canceled", !.seen = e.created], None, TRUE)
    ELSE NoEffect

\* _process_stripe_event
Effect(e, i) ==
    CASE e.type = "checkout"               -> ActivateCheckout(e, i)
      [] e.type = "expired"                -> ExpireCheckout(e, i)
      [] e.type \in {"updated", "deleted"} -> UpdateSubscription(e, i)
      [] e.type \in {"failed", "paid"}     -> UpdateInvoice(e, i)
      [] e.type = "refund"                 -> RecordRefund(e, i)

\* One message to the owner per invoice, from the checkout or the payment; 0
\* when there is none to send.
NotificationKey(e, effect) ==
    IF effect.done /\ e.type \in {"checkout", "paid"} /\ e.invoice \notin notified
    THEN e.invoice ELSE 0

-----------------------------------------------------------------------------
(* stripe_webhook                                                          *)

\* Whether _other_current_subscription is called: not for an event that was
\* found to be stale or refused, nor for one that ends a subscription.
LooksForOthers(e, i) ==
    CASE e.type = "checkout"               -> i = 0 \/ ~Stale(rows[i], e)
      [] e.type \in {"updated", "deleted"} -> e.status \in Current /\ Effect(e, i).put # None
      [] e.type \in {"failed", "paid"}     -> /\ i = 0 \/ ~Stale(rows[i], e)
                                              /\ ~Effect(e, i).rejected

\* The rows a transaction holds: its own and the current one it looked for.
LockSet(e, i) ==
    CASE e.type = "refund"  -> {}
      [] e.type = "expired" -> {j \in {i} \ {0} : rows[j].status = "pending"}
      [] OTHER              -> ({i} \ {0}) \cup IF LooksForOthers(e, i) THEN Others(i) ELSE {}

\* A repeated event is looked for before any lock is taken.
Receive(h, e) ==
    /\ handling[h] = NoEvent
    /\ e.id \notin ledger
    /\ handling' = [handling EXCEPT ![h] = [step |-> "received", event |-> e]]
    /\ UNCHANGED <<now, stripeVars, tableVars, asking, lost>>

Begin(h) ==
    /\ handling[h].step = "received"
    /\ LET e      == handling[h].event
           i      == Found(e)
           effect == Effect(e, i)
       IN  /\ \A j \in LockSet(e, i) : ~LockedRow(j)
           /\ handling' = [handling EXCEPT ![h] =
                [step |-> "commit", event |-> e, row |-> i, effect |-> effect,
                 locks |-> LockSet(e, i), key |-> NotificationKey(e, effect)]]
    /\ UNCHANGED <<now, stripeVars, tableVars, asking, lost>>

\* The unique indexes on the subscription, on the session and on the
\* tenant's current row.
Refused(i, r) ==
    \E j \in Ids \ {i} :
        \/ r.sub # None /\ rows[j].sub = r.sub
        \/ r.session # 0 /\ rows[j].session = r.session
        \/ r.status \in Current /\ rows[j].status \in Current

\* Bound: a transaction that would need one row more waits.
Fits(w) == w.row = 0 /\ w.effect.put # None => Len(rows) < MaxRows

\* 4xx or 5xx, or the process died: nothing is written, Stripe repeats.
Fail(h) ==
    /\ handling' = [handling EXCEPT ![h] = NoEvent]
    /\ UNCHANGED <<now, stripeVars, tableVars, asking, lost>>

\* 2xx without an effect: a duplicate.
Skip(h) ==
    /\ acked' = acked \cup {handling[h].event.id}
    /\ handling' = [handling EXCEPT ![h] = NoEvent]
    /\ UNCHANGED <<now, stripe, sessions, refunded, events, tableVars, asking, lost>>

\* _record_invoice_transaction and _record_refund_transaction
Transactions(w) ==
    IF w.effect.pay = "none" THEN {}
    ELSE {[event |-> w.event.id, status |-> w.effect.pay,
           invoice |-> w.event.invoice, amount |-> w.effect.amount]}

\* The commit: effects, payment, event and notification key together. An answer
\* that is lost after it is as if it came later: the repeated event is a
\* duplicate.
Write(h) ==
    LET w == handling[h]
        f == w.effect
    IN  /\ rows' = IF f.put = None THEN rows
                   ELSE IF w.row = 0 THEN Append(rows, f.put)
                   ELSE [rows EXCEPT ![w.row] = f.put]
        /\ plan' = Written(f.plan)
        /\ payments' = payments \cup Transactions(w)
        /\ ledger' = ledger \cup {w.event.id}
        /\ notified' = notified \cup ({w.key} \ {0})
        /\ acked' = acked \cup {w.event.id}
        /\ handling' = [handling EXCEPT ![h] = NoEvent]
        /\ UNCHANGED <<now, stripe, sessions, refunded, events, asking, lost>>

\* The indexes of billing_events refuse the event or the key.
Known(w) == w.event.id \in ledger \/ w.key \in notified

\* Only a checkout leaves its row to the commit, whose error is looked into;
\* the others flush it before.
Commit(h) ==
    /\ handling[h].step = "commit"
    /\ Fits(handling[h])
    /\ handling[h].effect.plan # None => ~TenantLocked
    /\ LET w       == handling[h]
           refused == w.effect.put # None /\ Refused(w.row, w.effect.put)
           atFlush == refused /\ w.event.type # "checkout"
       IN  \/ /\ w.effect.rejected \/ atFlush
              /\ Fail(h)
           \/ /\ ~w.effect.rejected /\ ~atFlush
              /\ Known(w)
              /\ Skip(h)
           \/ /\ ~w.effect.rejected /\ ~atFlush
              /\ ~Known(w)
              /\ IF refused THEN Fail(h) ELSE Write(h)

Dies(h) == handling[h] # NoEvent /\ Fail(h)

-----------------------------------------------------------------------------

OwnerActs(r) ==
    \/ Leave(r)
    \/ BeginUsage(r)
    \/ \E p \in Plan : BeginCheckout(r, p)
    \/ \E p \in Plan, i \in Ids : RepeatCheckout(r, p, i) \/ BeginChange(r, p, i)
    \/ \E i \in Ids : BeginCancel(r, i)

Owner ==
    \E r \in Caller :
        \/ SignIn(r)
        \/ OwnerActs(r)
        \/ FinishUsage(r)
        \/ \E b \in BOOLEAN : FinishCheckout(r, b) \/ FinishChange(r, b) \/ FinishCancel(r, b)

Stripe ==
    \/ \E s \in Sub : \/ \E i \in Ids : Pay(i, s)
                      \/ Renew(s)
                      \/ RenewalFails(s)
                      \/ Collects(s)
                      \/ GivesUp(s)
                      \/ Deletes(s)
                      \/ Refund(s)
    \/ \E i \in Ids : SessionExpires(i)

Webhook ==
    \E h \in Handler : \/ \E e \in events : Receive(h, e)
                       \/ Begin(h)
                       \/ Commit(h)
                       \/ Dies(h)

BillingNext == Tick \/ Owner \/ Stripe \/ Webhook

BillingSpec == BillingInit /\ [][BillingNext]_billingVars

-----------------------------------------------------------------------------
(* Properties                                                              *)

\* Every variable holds what its table, or Stripe, can hold.
BillingTypeOK ==
    /\ now \in 0 .. MaxTime
    /\ stripe \in [Sub -> StripeSub]
    /\ sessions \in [1 .. MaxRows -> Session]
    /\ refunded \in [Sub -> 0 .. 3]
    /\ \A e \in events : e \in Event
    /\ acked \subseteq 1 .. MaxEvents
    /\ \A i \in Ids : rows[i] \in SubscriptionRow
    /\ Len(rows) <= MaxRows
    /\ plan \in Plan \cup {"trial", "expired"}
    /\ ledger \subseteq 1 .. MaxEvents
    /\ \A p \in payments : p \in Payment
    /\ lost \in BOOLEAN

\* Every event was answered and no request or handler is on its way.
Quiet ==
    /\ \A e \in events : e.id \in acked
    /\ \A h \in Handler : handling[h] = NoEvent
    /\ \A r \in Caller : asking[r] = NoRequest

\* Whatever the order, the repetitions and the overlaps of the webhooks were,
\* a tenant whose paid period runs has the plan it pays for (_activate_checkout,
\* _update_subscription and _update_invoice_status together). The exception:
\* the answer to a plan change was lost, or was Stripe's answer to an earlier
\* change to the same plan, until the next renewal.
AccessWhenPaid ==
    Quiet /\ ~lost =>
        \A s \in Sub : stripe[s].status \in Current /\ stripe[s].end > now
                       => PlanOf(rows, plan) = stripe[s].plan

\* And a tenant of which no subscription runs any more has no paid plan: no
\* late, repeated or reordered event gives it back.
NoAccessAfterEnd ==
    Quiet /\ (\A s \in Sub : stripe[s].status \notin Current \/ stripe[s].end <= now)
        => PlanOf(rows, plan) \notin Plan

\* An invoice that was paid and answered is in payment_transactions, also
\* when the checkout of the same invoice was handled at the same time; unless
\* it was applied first that its subscription had ended or remained unpaid.
PaymentsRecorded ==
    \A e \in events :
        e.type = "paid" /\ e.id \in acked =>
            \/ \E p \in payments : p.event = e.id /\ p.status = "succeeded"
            \/ \E d \in events : d.status \in {"canceled", "unpaid"} /\ d.sub = e.sub
                                 /\ d.created >= e.created /\ d.id \in acked

\* Refunds handled one after the other, in any order, add up to the
\* cumulative amount of the latest (_record_refund_transaction).
RefundsAddUp ==
    \A s \in Sub : stripe[s].invoice # 0 => RecordedRefunds(stripe[s].invoice) <= refunded[s]

\* No event is refused for ever: when every other event was answered, no
\* amount check and no unique index refuses the one that is left. The
\* exception: an invoice that comes after the plan change that followed it no
\* longer agrees with the row (router.py:446-471).
LastEventAccepted ==
    (\A h \in Handler : handling[h] = NoEvent) /\ (\A r \in Caller : asking[r] = NoRequest) =>
        \A e \in events :
            e.id \notin ledger /\ (\A d \in events \ {e} : d.id \in acked) =>
                LET f == Effect(e, Found(e))
                IN  IF f.rejected
                    THEN \E d \in events : d.prorated /\ d.created > e.created
                    ELSE f.put = None \/ ~Refused(Found(e), f.put)

\* access.py:47 promises that an unfinished checkout does not use up the
\* trial.
TrialSurvivesCheckout ==
    (\A s \in Sub : stripe[s].status = "none") => PlanOf(rows, plan) = "trial"

\* Access follows what was paid for, both ways.
AccessFollowsPayment == AccessWhenPaid /\ NoAccessAfterEnd
=============================================================================
