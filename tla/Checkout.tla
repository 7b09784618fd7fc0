------------------------------ MODULE Checkout ------------------------------
(***************************************************************************)
(* A client's way through the portal: the payment page with its timer, its *)
(* back-off, its manual check and its wallet dialogue, the success page    *)
(* with its status poll (static/js/main.js), the workers that answer       *)
(* /api/check-payment, grace, and the invoice that runs out meanwhile.     *)
(* One client, one transfer, one tier.  Browser timers are not late, what  *)
(* is due at once happens before time passes, and every answer but that to *)
(* a check comes within a unit of time.                                    *)
(***************************************************************************)
EXTENDS Integers, FiniteSets

CONSTANTS
    Chain,           \* configured chains
    DefaultChain,    \* DEFAULT_CHAIN
    Worker,          \* gunicorn workers
    PollInterval,    \* POLL_INTERVAL_MS
    PollMax,         \* POLL_MAX_INTERVAL_MS
    FetchTimeout,    \* FETCH_TIMEOUT_MS
    StatusInterval,  \* STATUS_POLL_INTERVAL_MS
    RedirectDelay,   \* REDIRECT_DELAY_MS
    GraceDuration,   \* GRACE_DURATION_SECONDS
    GraceCooldown,   \* GRACE_COOLDOWN_SECONDS
    PendingDuration, \* PAYMENT_PENDING_DURATION
    Confirming,      \* the time until a transfer has settled
    Ttl,             \* how old an answer of the verification may be
    Cycle,           \* the daemon expires a session that is over within this time
    MaxFaults        \* bound: errors, slow answers and what the client does

ASSUME CheckoutAssumption ==
    /\ DefaultChain \in Chain
    /\ {PollInterval, FetchTimeout, StatusInterval, PendingDuration} \subseteq Nat \ {0}
    /\ PollMax \in Nat /\ PollMax >= PollInterval
    /\ {RedirectDelay, GraceDuration, GraceCooldown} \subseteq Nat
    /\ {Confirming, Ttl, Cycle, MaxFaults} \subseteq Nat

VARIABLES
    page,     \* what the browser shows, and the chain it will ask about
    visible,  \* isPageVisible
    timer,    \* pollTimer, or the status timer: time left, or Off
    delay,    \* pollDelay
    flight,   \* the check that checkPayment waits for
    leaving,  \* the redirect that is set: time left and where to, or Staying
    work,     \* per worker, the check it is handling, or Free
    session,  \* the client's row: its status and the time left, down to -Cycle
    since,    \* the time since the last grant of grace, up to GraceCooldown
    invoice,  \* per chain, the time left of the invoice, or Off: never shown
    transfer, \* external: the client's payment
    blind,    \* for how long a failure of the explorer may still be cached
    watched,  \* history: for how long nothing has kept the page from checking
    faults    \* bound: how much has interfered so far

vars == <<page, visible, timer, delay, flight, leaving, work, session, since,
          invoice, transfer, blind, watched, faults>>
browser == <<page, visible, timer, delay, flight, leaving>>
portal == <<work, session, since, invoice, blind>>

Off == -1
NoFlight == [kind |-> "none", got |-> "nothing", age |-> 0]
Staying == [left |-> Off, chain |-> DefaultChain]
Free == [pc |-> "free", chain |-> "none", had |-> "unpaid", awaited |-> FALSE]
NoTransfer == [chain |-> "none", age |-> 0, fate |-> "unpaid"]

\* is_paid: there is time left, and quota.
Active == session.status \in {"grace", "paid"} /\ session.left > 0
Over == session.status \in {"grace", "paid"} /\ session.left <= 0

\* Mutant: the timer is set although the page is hidden.
ArmedAlways(d) == d

\* Polling starts when the page is shown; there is no timer while it is hidden.
Armed(d) == IF visible THEN d ELSE Off

Init ==
    /\ page = [at |-> "payment", chain |-> DefaultChain]
    /\ visible = TRUE
    /\ timer = PollInterval
    /\ delay = PollInterval
    /\ flight = NoFlight
    /\ leaving = Staying
    /\ work = [w \in Worker |-> Free]
    /\ session = [status |-> "new", left |-> 0]
    /\ since = GraceCooldown
    /\ invoice = [c \in Chain |-> IF c = DefaultChain THEN PendingDuration ELSE Off]
    /\ transfer = NoTransfer
    /\ blind = 0
    /\ watched = 0
    /\ faults = 0
-----------------------------------------------------------------------------
(***************************************************************************)
(* The pages: index and success.                                           *)
(***************************************************************************)
\* The workers finish what nobody waits for any more.
Abandon == [w \in Worker |-> [work[w] EXCEPT !.awaited = FALSE]]

\* The status is polled at once; from here the page will go to "/".
ShowSuccess ==
    /\ page' = [at |-> "success", chain |-> DefaultChain]
    /\ timer' = 0
    /\ UNCHANGED <<session, invoice>>

\* A paid session that is over becomes expired; of a grace only one that has
\* lapsed does, not one whose quota is used up.  The invoice of the chain is
\* reused while it runs, else replaced.
ShowPayment(c) ==
    /\ page' = [at |-> "payment", chain |-> c]
    /\ timer' = Armed(PollInterval)
    /\ \/ Over /\ session' = [status |-> "expired", left |-> 0]
       \/ session.status # "paid" /\ UNCHANGED session
    /\ invoice' = [invoice EXCEPT ![c] = IF @ > 0 THEN @ ELSE PendingDuration]

\* A page is loaded, and what was in flight is forgotten.
Load(c) ==
    /\ IF Active THEN ShowSuccess ELSE ShowPayment(c)
    /\ delay' = PollInterval
    /\ flight' = NoFlight
    /\ leaving' = Staying
    /\ work' = Abandon
    /\ UNCHANGED <<visible, since, blind>>

\* The page will be left, unless that is settled already.
LeaveFor(c) ==
    leaving' = IF leaving = Staying THEN [left |-> RedirectDelay, chain |-> c] ELSE leaving
-----------------------------------------------------------------------------
(***************************************************************************)
(* The client.                                                             *)
(***************************************************************************)
Interferes == faults < MaxFaults /\ faults' = faults + 1            \* bound

\* Off: polling has stopped, until a page is loaded or polling starts again.
Stalled == watched = Off
Interrupted == IF Stalled THEN Off ELSE 0
\* A page that shows another chain starts to watch anew.
Resumed == IF Stalled \/ page'.chain # page.chain THEN 0 ELSE watched

\* What is paid to an address whose invoice has run out is lost.
Transferred(c) ==
    /\ transfer = NoTransfer
    /\ transfer' = [chain |-> c, age |-> 0,
                    fate |-> IF invoice[c] > 0 THEN "open" ELSE "lost"]

\* The client pays to an address it has been shown, wherever it is now.
Pay(c) ==
    /\ invoice[c] # Off
    /\ Transferred(c)
    /\ UNCHANGED <<browser, portal, watched, faults>>

\* It does so in the wallet dialogue, which starts the polling again.
PayWithWallet ==
    /\ page.at = "payment"
    /\ Transferred(page.chain)
    /\ timer' = Armed(PollInterval)
    /\ delay' = PollInterval
    /\ UNCHANGED <<page, visible, flight, leaving, portal, faults>>
    /\ watched' = Resumed

\* activate_grace and its button.  A session that is over counts as expired.
\* The page is loaded anew after a while and polls meanwhile, or the answer is
\* lost; a refusal changes nothing but what Expire does.
Grace ==
    /\ page.at = "payment"
    /\ session.status \in {"new", "expired"} \/ Over
    /\ since = GraceCooldown
    /\ session' = [status |-> "grace", left |-> GraceDuration]
    /\ since' = 0
    /\ \/ LeaveFor(page.chain) /\ UNCHANGED <<watched, faults>>
       \/ Interferes /\ watched' = Interrupted /\ UNCHANGED leaving
    /\ UNCHANGED <<page, visible, timer, delay, flight, work, invoice, transfer, blind>>

\* Another chain is chosen, or the page is loaded again.
Visit(c) ==
    /\ Interferes
    /\ Load(c)
    /\ watched' = 0
    /\ UNCHANGED transfer

Hide ==
    /\ visible
    /\ visible' = FALSE
    /\ timer' = IF page.at = "payment" THEN Off ELSE timer
    /\ Interferes
    /\ watched' = Interrupted
    /\ UNCHANGED <<page, delay, flight, leaving, portal, transfer>>

Show ==
    /\ ~visible
    /\ visible' = TRUE
    /\ IF page.at = "payment"
       THEN timer' = PollInterval /\ delay' = PollInterval
       ELSE UNCHANGED <<timer, delay>>
    /\ watched' = 0
    /\ UNCHANGED <<page, flight, leaving, portal, transfer, faults>>

\* The button; while a check is in flight it does nothing.
Click ==
    /\ page.at = "payment"
    /\ flight = NoFlight
    /\ flight' = [kind |-> "manual", got |-> "nothing", age |-> 0]
    /\ Interferes
    /\ UNCHANGED <<page, visible, timer, delay, leaving, portal, transfer, watched>>
-----------------------------------------------------------------------------
(***************************************************************************)
(* checkPayment and pollStatus.                                            *)
(***************************************************************************)
\* The timer fires.  If a check is in flight it has fired in vain: a check of
\* the button does not set it again.
Poll ==
    /\ page.at = "payment"
    /\ timer = 0
    /\ timer' = Off
    /\ flight' = IF flight = NoFlight
                 THEN [kind |-> "auto", got |-> "nothing", age |-> 0] ELSE flight
    /\ watched' = IF flight.kind = "manual" THEN Off ELSE watched
    /\ UNCHANGED <<page, visible, delay, leaving, portal, transfer, faults>>

\* Mutant: polling goes on only after an error.
NotPaidStopping ==
    /\ flight.got = "unpaid"
    /\ flight' = NoFlight
    /\ UNCHANGED <<page, visible, timer, delay, leaving, portal, transfer, watched, faults>>

\* Not paid yet: the automatic check comes again after the shortest delay.
NotPaid ==
    /\ flight.got = "unpaid"
    /\ flight' = NoFlight
    /\ IF flight.kind = "auto"
       THEN delay' = PollInterval /\ timer' = Armed(PollInterval)
       ELSE UNCHANGED <<timer, delay>>
    /\ UNCHANGED <<page, visible, leaving, portal, transfer, watched, faults>>

Double(d) == IF 2 * d < PollMax THEN 2 * d ELSE PollMax

\* An error, or no answer in time: the next automatic check comes later.
CheckFailed ==
    /\ flight # NoFlight
    /\ flight.got = "error" \/ (flight.got = "nothing" /\ flight.age = FetchTimeout)
    /\ flight' = NoFlight
    /\ IF flight.kind = "auto"
       THEN delay' = Double(delay) /\ timer' = Armed(Double(delay))
       ELSE UNCHANGED <<timer, delay>>
    /\ work' = Abandon
    /\ watched' = Interrupted
    /\ UNCHANGED <<page, visible, leaving, session, since, invoice, transfer, blind, faults>>

\* Mutant: the page stays where it is.
PaidStaying ==
    /\ flight.got = "paid"
    /\ flight' = NoFlight
    /\ timer' = Off
    /\ delay' = PollInterval
    /\ UNCHANGED <<page, visible, leaving, portal, transfer, watched, faults>>

\* Paid, or in grace: polling stops, and the page will go to /success, which
\* does not name the chain.
Paid ==
    /\ flight.got = "paid"
    /\ flight' = NoFlight
    /\ timer' = Off
    /\ delay' = PollInterval
    /\ LeaveFor(DefaultChain)
    /\ UNCHANGED <<page, visible, portal, transfer, watched, faults>>

Leave ==
    /\ leaving.left = 0
    /\ Load(leaving.chain)
    /\ watched' = Resumed
    /\ UNCHANGED <<transfer, faults>>

\* The success page leaves when the status is neither paid nor grace, and asks
\* again when it learns nothing.
PollStatus ==
    /\ page.at = "success"
    /\ timer = 0
    /\ IF session.status \in {"grace", "paid"}
       THEN /\ timer' = StatusInterval
            /\ UNCHANGED <<page, visible, delay, flight, leaving, portal, watched>>
       ELSE Load(DefaultChain) /\ watched' = Resumed
    /\ UNCHANGED <<transfer, faults>>

StatusFails ==
    /\ page.at = "success"
    /\ timer = 0
    /\ Interferes
    /\ timer' = StatusInterval
    /\ watched' = Interrupted
    /\ UNCHANGED <<page, visible, delay, flight, leaving, portal, transfer>>
-----------------------------------------------------------------------------
(***************************************************************************)
(* The workers: check_payment, one step per transaction or request.        *)
(***************************************************************************)
Asked == \E w \in Worker : work[w].awaited

Accept(w) ==
    /\ flight # NoFlight /\ flight.got = "nothing" /\ ~Asked
    /\ work[w] = Free
    /\ work' = [work EXCEPT ![w] = [pc |-> "isPaid", chain |-> page.chain,
                                    had |-> "unpaid", awaited |-> TRUE]]
    /\ UNCHANGED <<browser, session, since, invoice, transfer, blind, watched, faults>>

Goes(w, pc) == work' = [work EXCEPT ![w].pc = pc] /\ UNCHANGED flight

Reply(w, what) ==
    /\ work' = [work EXCEPT ![w] = Free]
    /\ flight' = IF work[w].awaited THEN [flight EXCEPT !.got = what] ELSE flight

\* While a session runs, be it one of grace, no invoice is looked at.
IsPaid(w) ==
    /\ work[w].pc = "isPaid"
    /\ IF Active THEN Reply(w, "paid") ELSE Goes(w, "list")
    /\ UNCHANGED <<session, invoice, transfer>>

\* What the invoice on the chain has received when its verification begins.
Received(c) ==
    IF transfer.fate # "open" \/ transfer.chain # c THEN "unpaid"
    ELSE IF transfer.age >= Confirming + Ttl /\ blind = 0 THEN "settled"
    ELSE "paid"

List(w) ==
    /\ work[w].pc = "list"
    /\ IF invoice[work[w].chain] > 0
       THEN /\ work' = [work EXCEPT ![w].pc = "verify", ![w].had = Received(work[w].chain)]
            /\ UNCHANGED flight
       ELSE Reply(w, "error")
    /\ UNCHANGED <<session, invoice, transfer>>

\* A transfer that settles in the meantime, or has only just done so, may be
\* missed, because the answer is in the cache; an older one is found.
Verified(w) ==
    /\ work[w].pc = "verify"
    /\ \/ /\ transfer.chain = work[w].chain /\ transfer.age >= Confirming
          /\ work[w].had # "unpaid" \/ transfer.fate = "open"
          /\ Goes(w, "record")
       \/ /\ work[w].had # "settled"
          /\ Reply(w, "unpaid")
    /\ UNCHANGED <<session, invoice, transfer>>

\* mark_paid.  A transfer that is recorded already changes nothing.  With the
\* quota at its cap, what has been used keeps even the new session from running,
\* unless use is counted anew.
Record(w) ==
    /\ work[w].pc = "record"
    /\ Reply(w, "paid")
    /\ IF transfer.fate = "credited" THEN UNCHANGED <<session, invoice, transfer>>
       ELSE /\ \E left \in IF session.status \in {"new", "grace"} THEN {1} ELSE {0, 1} :
                   session' = [status |-> "paid", left |-> left]
            /\ invoice' = IF transfer.fate = "open"
                          THEN [invoice EXCEPT ![work[w].chain] = 0] ELSE invoice
            /\ transfer' = [transfer EXCEPT !.fate = "credited"]

Handle(w) ==
    /\ IsPaid(w) \/ List(w) \/ Verified(w) \/ Record(w)
    /\ UNCHANGED <<page, visible, timer, delay, leaving, since, blind, watched, faults>>

\* The rate limit strikes, a step raises, or the worker is killed.
Fail(w) ==
    /\ work[w] # Free
    /\ Interferes
    /\ Reply(w, "error")
    /\ watched' = Interrupted
    /\ UNCHANGED <<page, visible, timer, delay, leaving, session, since, invoice, transfer,
                   blind>>

\* A request to the explorer fails: to the page that is "not paid yet", and it is
\* cached like any other answer.
ExplorerFails(w) ==
    /\ work[w].pc = "verify"
    /\ Interferes
    /\ Reply(w, "unpaid")
    /\ blind' = Ttl
    /\ watched' = Interrupted
    /\ UNCHANGED <<page, visible, timer, delay, leaving, session, since, invoice, transfer>>

\* The answer is lost on its way, also that to a payment just recorded.
LoseAnswer ==
    /\ flight.got \in {"paid", "unpaid"}
    /\ Interferes
    /\ flight' = [flight EXCEPT !.got = "error"]
    /\ watched' = Interrupted
    /\ UNCHANGED <<page, visible, timer, delay, leaving, portal, transfer>>
-----------------------------------------------------------------------------
(***************************************************************************)
(* The daemon, and time.                                                   *)
(***************************************************************************)
\* The quota is used up; a paid session may also reach its end.
Exhaust ==
    /\ Active
    /\ session' = [session EXCEPT !.left = 0]
    /\ UNCHANGED <<browser, work, since, invoice, transfer, blind, watched, faults>>

Expire ==
    /\ Over
    /\ session' = [status |-> "expired", left |-> 0]
    /\ UNCHANGED <<browser, work, since, invoice, transfer, blind, watched, faults>>

\* The page shows, or will show again, the chain the transfer is on.
Watching == visible /\ transfer.fate = "open" /\ transfer.chain = page.chain

Larger(a, b) == IF a > b THEN a ELSE b

\* The time to the next check that tells: one that began too early, a redirect or
\* a status poll, and the shortest delay; or the longest back-off; and the check.
CheckTime ==
    Larger(PollMax,
           PollInterval + Larger(FetchTimeout, Larger(StatusInterval, RedirectDelay)))
    + FetchTimeout

\* A detour: the redirect, a grace with the daemon's cycle, the status poll that
\* follows, and the first check after the return.
DetourTime ==
    RedirectDelay + GraceDuration + Cycle + StatusInterval + PollInterval + FetchTimeout

\* A transfer that is sent this long before its invoice runs out is found: it has
\* to be confirmed, and older answers to expire.  Ages past Margin are not told
\* apart.
Margin == Confirming + Ttl + CheckTime + DetourTime

Older(a) == IF a < Margin THEN a + 1 ELSE a
Down(n) == IF n > 0 THEN n - 1 ELSE n

\* What the browser and the daemon have to do by now, they do before time passes.
Due ==
    \/ timer = 0 \/ leaving.left = 0
    \/ flight.got # "nothing" \/ flight.age = FetchTimeout
    \/ Over /\ session.left = -Cycle

\* A check that is still without an answer at its time limit is one fault.
TimesOut == flight # NoFlight /\ flight.age + 1 = FetchTimeout

Tick ==
    /\ ~Due
    /\ TimesOut => faults < MaxFaults                               \* bound
    /\ faults' = IF TimesOut THEN faults + 1 ELSE faults
    /\ timer' = Down(timer)
    /\ leaving' = [leaving EXCEPT !.left = Down(@)]
    /\ flight' = IF flight = NoFlight THEN flight ELSE [flight EXCEPT !.age = @ + 1]
    /\ session' = IF session.status = "grace" \/ Over THEN [session EXCEPT !.left = @ - 1]
                  ELSE session
    /\ since' = IF since < GraceCooldown THEN since + 1 ELSE since
    /\ invoice' = [c \in Chain |-> Down(invoice[c])]
    /\ transfer' =
           IF transfer.fate # "open" THEN transfer
           ELSE IF invoice'[transfer.chain] = 0 THEN [transfer EXCEPT !.fate = "lost"]
           ELSE [transfer EXCEPT !.age = Older(@)]
    /\ blind' = Down(blind)
    /\ watched' = IF Stalled THEN Off ELSE IF Watching THEN Older(watched) ELSE 0
    /\ UNCHANGED <<page, visible, delay, work>>

Next ==
    \/ PayWithWallet \/ Grace \/ Hide \/ Show \/ Click
    \/ \E c \in Chain : Pay(c) \/ Visit(c)
    \/ Poll \/ NotPaid \/ CheckFailed \/ Paid \/ Leave \/ PollStatus \/ StatusFails
    \/ \E w \in Worker : Accept(w) \/ Handle(w) \/ Fail(w) \/ ExplorerFails(w)
    \/ LoseAnswer
    \/ Exhaust \/ Expire
    \/ Tick

Spec == Init /\ [][Next]_vars

\* Time passes, the browser runs its timers and handles its answers, the daemon
\* runs its cycle, and every worker finishes what it has begun.
FairSpec ==
    /\ Spec
    /\ WF_vars(Tick)
    /\ WF_vars(Poll)
    /\ WF_vars(NotPaid)
    /\ WF_vars(CheckFailed)
    /\ WF_vars(Paid)
    /\ WF_vars(Leave)
    /\ WF_vars(PollStatus)
    /\ WF_vars(Expire)
    /\ \A w \in Worker : WF_vars(Accept(w)) /\ WF_vars(Handle(w))
-----------------------------------------------------------------------------
(***************************************************************************)
(* Properties.                                                             *)
(***************************************************************************)
\* The variables keep their types; at most one check has an answer awaited, and
\* a page that is hidden polls nothing.
TypeOK ==
    /\ page \in [at : {"payment", "success"}, chain : Chain]
    /\ visible \in BOOLEAN
    /\ timer \in Off..PollMax \cup Off..StatusInterval
    /\ delay \in PollInterval..PollMax
    /\ flight \in {NoFlight} \cup
           [kind : {"auto", "manual"}, got : {"nothing", "paid", "unpaid", "error"},
            age : 0..FetchTimeout]
    /\ leaving \in [left : Off..RedirectDelay, chain : Chain]
    /\ work \in [Worker -> {Free} \cup
           [pc : {"isPaid", "list", "verify", "record"}, chain : Chain,
            had : {"unpaid", "paid", "settled"}, awaited : BOOLEAN]]
    /\ Cardinality({w \in Worker : work[w].awaited}) <= 1
    /\ Asked => flight # NoFlight /\ flight.got = "nothing"
    /\ session.status \in {"new", "grace", "paid", "expired"}
    /\ session.left \in (-Cycle)..(GraceDuration + 1)
    /\ since \in 0..GraceCooldown
    /\ invoice \in [Chain -> Off..PendingDuration]
    /\ transfer.fate \in {"unpaid", "open", "credited", "lost"}
    /\ blind \in 0..Ttl
    /\ watched \in Off..Margin
    /\ ~visible /\ page.at = "payment" => timer = Off

\* A transfer is lost only if it was sent less than Margin before its invoice ran
\* out, or if for that long the page was not there to check: hidden, loaded again,
\* showing another chain, cut off by errors, or stalled by a check of the button.
\* Otherwise polling, back-off, a grace and the return from it leave enough time, if
\* the cooldown keeps a second grace away for so long (db.py:332, db.py:484-564,
\* app.py:512, main.js:250-384).
LostOnlyLate ==
    [][transfer.fate = "open" /\ transfer'.fate = "lost" =>
           transfer.age < Margin \/ watched < Margin]_vars

\* Once a payment is credited, even by a request whose answer is lost or no longer
\* waited for, the page leaves for /success, unless it is hidden or stalled, or the
\* session is over or never ran, the quota being at its cap (main.js:269-341,
\* app.py:507-519, db.py:619).
Told ==
    transfer.fate = "credited" ~>
        page.at = "success" \/ ~visible \/ Stalled \/ ~Active
=============================================================================
