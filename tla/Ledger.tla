------------------------------- MODULE Ledger -------------------------------
(***************************************************************************)
(* Invoices and payments: the tables pending_payments, payments and        *)
(* derivation_counter of db.py, the requests of /api/check-payment that    *)
(* read them, look at the block chain and record what they find, and the   *)
(* cleanups and restarts that delete rows and recompute the counter.       *)
(*                                                                         *)
(* A request holds no lock between its steps: it reads is_paid, then the   *)
(* list of invoices, then asks the explorer about one address after the    *)
(* other, and each mark_paid is a transaction of its own.  The rows of the *)
(* clients table are ClientTable's subject; here only is_paid matters.     *)
(***************************************************************************)
EXTENDS Integers, FiniteSets, Sequences

CONSTANTS
    Client,          \* client addresses
    Chain,           \* configured chains
    Tier,            \* tier indices of a chain
    Worker,          \* gunicorn workers; each handles one request at a time
    Tx,              \* transactions, as <<chain, hash>>
    PendingDuration, \* PAYMENT_PENDING_DURATION
    AccessDuration,  \* ACCESS_DURATION
    TxTolerance,     \* TX_TIMESTAMP_TOLERANCE
    PendingKeep,     \* PENDING_CLEANUP_DAYS
    PaymentsKeep,    \* PAYMENTS_CLEANUP_DAYS
    RequestTimeout,  \* gunicorn kills a worker that takes longer
    IndexLimit,      \* the last BIP44 index
    \* Bounds of the model.
    MaxTime,         \* the clock stops here
    MaxBatch,        \* deposit addresses one transaction pays
    MaxRestarts,     \* restarts of the portal
    MaxRevokes       \* calls of revoke

ASSUME LedgerAssumption ==
    /\ Tx \subseteq Chain \X Nat
    /\ PendingDuration \in Nat \ {0}
    /\ AccessDuration \in Nat \ {0}
    /\ TxTolerance \in Nat
    /\ PendingKeep \in Nat \ {0}
    /\ PaymentsKeep \in Nat \ {0}
    /\ RequestTimeout \in Nat
    /\ IndexLimit \in Nat
    /\ MaxTime \in Nat /\ MaxBatch \in Nat /\ MaxRestarts \in Nat
    /\ MaxRevokes \in Nat

VARIABLES
    now,       \* int(time.time())
    pending,   \* the pending_payments table
    payments,  \* the payments table
    nextIndex, \* derivation_counter.next_index
    active,    \* the clients for which is_paid is true
    shown,     \* history: the invoices whose addresses clients have been shown
    onchain,   \* external: the transactions that have been sent
    request,   \* per worker, the check-payment request it is handling
    restarts,  \* bound: how many restarts so far
    revokes,   \* bound: how many revocations so far
    credited   \* history: the clients each transaction was credited to, in order

tables == <<pending, payments, nextIndex>>
bounds == <<restarts, revokes>>
vars == <<now, tables, active, shown, onchain, request, bounds, credited>>

\* The address of an invoice is derive_address(idx), one address per index.
Invoice == [idx : Nat, client : Client, chain : Chain, tier : Tier,
            status : {"pending", "paid", "expired"}, created : Nat, expires : Nat]

Payment == [tx : Tx, client : Client, idx : Nat, expires : Nat]

\* A transaction pays a set of addresses; a batch pays several.  payees and timely
\* are a history: the clients that were shown those addresses, and whether it was
\* sent before any of them could be another client's.
Unsent == [to |-> {}, at |-> 0, payees |-> {}, timely |-> TRUE]

NoRequest == [pc |-> "idle"]

Init ==
    /\ now = 0
    /\ pending = {} /\ payments = {} /\ nextIndex = 0
    /\ active = {}
    /\ shown = {}
    /\ onchain = [t \in Tx |-> Unsent]
    /\ request = [w \in Worker |-> NoRequest]
    /\ restarts = 0 /\ revokes = 0
    /\ credited = [t \in Tx |-> <<>>]
-----------------------------------------------------------------------------
(***************************************************************************)
(* The welcome page: get_or_create_pending_payment.                        *)
(***************************************************************************)
Of(c, ch, ti) == {p \in pending : p.client = c /\ p.chain = ch /\ p.tier = ti}

Live(p) == p.status = "pending" /\ p.expires > now

\* Mutant: opening an invoice expires the client's other tiers too.
StaleAnyTier(c, ch, ti) ==
    {p \in pending : p.client = c /\ p.chain = ch /\ p.status = "pending"}

\* The rows of this client, chain and tier whose time is over.
Stale(c, ch, ti) ==
    {p \in Of(c, ch, ti) : p.status = "pending" /\ p.expires <= now}

WithStatus(rows, s) == {[p EXCEPT !.status = s] : p \in rows}

\* The UNIQUE constraints of pending_payments.
Conflict(rows, new) ==
    \E p \in rows :
        \/ p.idx = new.idx
        \/ /\ p.status = "pending"
           /\ <<p.client, p.chain, p.tier>> = <<new.client, new.chain, new.tier>>

NewInvoice(c, ch, ti) ==
    [idx |-> nextIndex, client |-> c, chain |-> ch, tier |-> ti,
     status |-> "pending", created |-> now, expires |-> now + PendingDuration]

\* Mutant: the stale rows stay pending.
SweptNot(c, ch, ti) == pending

\* The table as the transaction leaves it before the INSERT.
Swept(c, ch, ti) ==
    (pending \ Stale(c, ch, ti)) \cup WithStatus(Stale(c, ch, ti), "expired")

CreateInvoice(c, ch, ti) ==
    LET new == NewInvoice(c, ch, ti) IN
    /\ ~\E p \in Of(c, ch, ti) : Live(p)
    /\ nextIndex <= IndexLimit
    /\ ~Conflict(Swept(c, ch, ti), new)
    /\ pending' = Swept(c, ch, ti) \cup {new}
    /\ nextIndex' = nextIndex + 1
    /\ shown' = shown \cup {new}
    /\ UNCHANGED <<now, payments, active, onchain, request, bounds, credited>>

\* Reusing a live invoice commits nothing; an index past the limit and a
\* violated constraint are rolled back: the page fails with an error.
-----------------------------------------------------------------------------
(***************************************************************************)
(* Outside: a client sends a transaction to addresses it was shown, it     *)
(* gets or loses access by other means (grace, time, traffic), the clock   *)
(* advances.                                                               *)
(***************************************************************************)
\* The row of an invoice may be deleted PendingKeep after its time, and its index
\* given away; a transfer counts for an invoice of up to TxTolerance later.
Timely(p) == now + TxTolerance <= p.expires + PendingKeep

Transfer(to) ==
    [to |-> {p.idx : p \in to}, at |-> now, payees |-> {p.client : p \in to},
     timely |-> \A p \in to : Timely(p)]

\* The page does not change when its invoice runs out, and nothing stops a
\* client from paying an address later, or more than once.
Send(t) ==
    /\ onchain[t] = Unsent
    /\ \E to \in SUBSET shown :
        /\ Cardinality(to) \in 1..MaxBatch                           \* bound
        /\ onchain' = [onchain EXCEPT ![t] = Transfer(to)]
    /\ UNCHANGED <<now, tables, active, shown, request, bounds, credited>>

GainAccess(c) ==
    /\ c \notin active
    /\ active' = active \cup {c}
    /\ UNCHANGED <<now, tables, shown, onchain, request, bounds, credited>>

LoseAccess(c) ==
    /\ c \in active
    /\ active' = active \ {c}
    /\ UNCHANGED <<now, tables, shown, onchain, request, bounds, credited>>

\* Time passes; gunicorn has killed the requests that took too long.
Tick ==
    /\ now < MaxTime                                                \* bound
    /\ \A w \in Worker : request[w].pc # "idle" => now - request[w].since < RequestTimeout
    /\ now' = now + 1
    /\ UNCHANGED <<tables, active, shown, onchain, request, bounds, credited>>
-----------------------------------------------------------------------------
(***************************************************************************)
(* /api/check-payment, as worker w runs it.                                *)
(***************************************************************************)
Become(w, r) == request' = [request EXCEPT ![w] = r]

\* is_paid: a client that has access is told so and nothing is checked.
CheckBegin(w, c, ch) ==
    /\ request[w].pc = "idle"
    /\ c \notin active
    /\ Become(w, [pc |-> "list", client |-> c, chain |-> ch, since |-> now])
    /\ UNCHANGED <<now, tables, active, shown, onchain, bounds, credited>>

LiveInvoices(c, ch) == {p \in pending : p.client = c /\ p.chain = ch /\ Live(p)}

\* get_active_pending_payments.
ListInvoices(w) ==
    LET r == request[w]
        todo == LiveInvoices(r.client, r.chain)
    IN
    /\ r.pc = "list"
    /\ Become(w, IF todo = {} THEN NoRequest
                 ELSE [pc |-> "verify", client |-> r.client, chain |-> r.chain,
                       since |-> r.since, todo |-> todo])
    /\ UNCHANGED <<now, tables, active, shown, onchain, bounds, credited>>

\* ORDER BY created_at, id.
Oldest(todo, p) ==
    /\ p \in todo
    /\ \A q \in todo :
        p.created < q.created \/ (p.created = q.created /\ p.idx <= q.idx)

\* Mutant: any transfer on the chain is taken for the client's own.
MatchesAnyAddress(t, p) ==
    t[1] = p.chain /\ onchain[t] # Unsent /\ onchain[t].at >= p.created - TxTolerance

\* Mutant: old transfers are accepted.
MatchesAnyTime(t, p) == t[1] = p.chain /\ p.idx \in onchain[t].to

\* What verify_payment_on_chain accepts for the address of p.
Matches(t, p) ==
    /\ t[1] = p.chain
    /\ p.idx \in onchain[t].to
    /\ onchain[t].at >= p.created - TxTolerance

\* verify_payment_on_chain finds a payment...
VerifyOk(w) ==
    /\ request[w].pc = "verify"
    /\ \E p \in request[w].todo, t \in Tx :
        /\ Oldest(request[w].todo, p)
        /\ Matches(t, p)
        /\ Become(w, [pc |-> "credit", client |-> request[w].client,
                      chain |-> request[w].chain, since |-> request[w].since,
                      idx |-> p.idx, tx |-> t])
    /\ UNCHANGED <<now, tables, active, shown, onchain, bounds, credited>>

\* ...or none: not sent, not confirmed yet, a cached answer, an error.
VerifyNone(w) ==
    /\ request[w].pc = "verify"
    /\ \E p \in request[w].todo :
        /\ Oldest(request[w].todo, p)
        /\ Become(w, IF request[w].todo = {p} THEN NoRequest
                     ELSE [request[w] EXCEPT !.todo = @ \ {p}])
    /\ UNCHANGED <<now, tables, active, shown, onchain, bounds, credited>>

\* Mutant: only the payments of running sessions are looked at.
RecordedRunning(t) == \E m \in payments : m.tx = t /\ m.expires > now

Recorded(t) == \E m \in payments : m.tx = t

\* mark_paid records the transaction, closes the invoice if it is still open
\* and credits the client; the caps may leave the client without access.
Credit(w) ==
    LET r == request[w]
        mine == {p \in pending : /\ p.client = r.client /\ p.chain = r.chain
                                 /\ p.idx = r.idx /\ p.status = "pending"}
    IN
    /\ r.pc = "credit"
    /\ ~Recorded(r.tx)
    /\ payments' = payments \cup {[tx |-> r.tx, client |-> r.client, idx |-> r.idx,
                                   expires |-> now + AccessDuration]}
    /\ pending' = (pending \ mine) \cup WithStatus(mine, "paid")
    /\ active' \in {active, active \cup {r.client}}
    /\ credited' = [credited EXCEPT ![r.tx] = Append(@, r.client)]
    /\ Become(w, NoRequest)
    /\ UNCHANGED <<now, nextIndex, shown, onchain, bounds>>

\* mark_paid of a transaction already in the table: everything is rolled back,
\* and the client is told it has paid.
CreditAgain(w) ==
    /\ request[w].pc = "credit"
    /\ Recorded(request[w].tx)
    /\ Become(w, NoRequest)
    /\ UNCHANGED <<now, tables, active, shown, onchain, bounds, credited>>

\* A worker dies at any point of its request, or takes too long and is killed.
WorkerCrash(w) ==
    /\ request[w].pc # "idle"
    /\ Become(w, NoRequest)
    /\ UNCHANGED <<now, tables, active, shown, onchain, bounds, credited>>
-----------------------------------------------------------------------------
(***************************************************************************)
(* Cleanups and restarts.                                                  *)
(***************************************************************************)
KeptPending == {p \in pending : p.expires >= now - PendingKeep}
KeptPayments == {m \in payments : m.expires >= now - PaymentsKeep}

\* Mutant: the payments table is forgotten.
FirstFreePending(n) ==
    /\ \A p \in pending : p.idx < n
    /\ n = 0 \/ \E p \in pending : p.idx = n - 1

\* MAX(the largest index in use, -1) + 1.
FirstFree(n) ==
    /\ \A p \in pending \cup payments : p.idx < n
    /\ n = 0 \/ \E p \in pending \cup payments : p.idx = n - 1

\* Mutant: the counter is set to the largest index in use.
RestartAtLargest ==
    /\ restarts < MaxRestarts
    /\ restarts' = restarts + 1
    /\ \E n \in 0..(IndexLimit + 1) : FirstFree(n) /\ nextIndex' = n - 1
    /\ pending' = KeptPending
    /\ payments' = KeptPayments
    /\ request' = [w \in Worker |-> NoRequest]
    /\ UNCHANGED <<now, active, shown, onchain, revokes, credited>>

\* The portal starts: init_db recomputes the counter, then deletes old rows.
Restart ==
    /\ restarts < MaxRestarts                                       \* bound
    /\ restarts' = restarts + 1
    /\ \E n \in 0..(IndexLimit + 1) : FirstFree(n) /\ nextIndex' = n
    /\ pending' = KeptPending
    /\ payments' = KeptPayments
    /\ request' = [w \in Worker |-> NoRequest]
    /\ UNCHANGED <<now, active, shown, onchain, revokes, credited>>

\* The daemon deletes old rows every 300 cycles.
Cleanup ==
    /\ pending' = KeptPending
    /\ payments' = KeptPayments
    /\ UNCHANGED <<now, nextIndex, active, shown, onchain, request, bounds, credited>>

\* revoke deletes every row of a client; its requests in flight go on.
Revoke(c) ==
    /\ revokes < MaxRevokes                                         \* bound
    /\ revokes' = revokes + 1
    /\ pending' = {p \in pending : p.client # c}
    /\ payments' = {m \in payments : m.client # c}
    /\ active' = active \ {c}
    /\ UNCHANGED <<now, nextIndex, shown, onchain, request, restarts, credited>>

Next ==
    \/ \E c \in Client :
        \/ \E ch \in Chain :
            \/ \E ti \in Tier : CreateInvoice(c, ch, ti)
            \/ \E w \in Worker : CheckBegin(w, c, ch)
        \/ GainAccess(c)
        \/ LoseAccess(c)
        \/ Revoke(c)
    \/ \E t \in Tx : Send(t)
    \/ \E w \in Worker :
        \/ ListInvoices(w)
        \/ VerifyOk(w)
        \/ VerifyNone(w)
        \/ Credit(w)
        \/ CreditAgain(w)
        \/ WorkerCrash(w)
    \/ Restart
    \/ Cleanup
    \/ Tick

Spec == Init /\ [][Next]_vars
-----------------------------------------------------------------------------
(***************************************************************************)
(* Properties.                                                             *)
(***************************************************************************)
Requests ==
    {NoRequest}
    \cup [pc : {"list"}, client : Client, chain : Chain, since : Nat]
    \cup [pc : {"verify"}, client : Client, chain : Chain, since : Nat,
          todo : SUBSET Invoice]
    \cup [pc : {"credit"}, client : Client, chain : Chain, since : Nat,
          idx : Nat, tx : Tx]

\* Every variable keeps its type.
TypeOK ==
    /\ now \in Nat
    /\ pending \subseteq Invoice
    /\ payments \subseteq Payment
    /\ nextIndex \in Nat
    /\ active \subseteq Client
    /\ shown \subseteq Invoice
    /\ onchain \in [Tx -> [to : SUBSET Nat, at : Nat, payees : SUBSET Client, timely : BOOLEAN]]
    /\ request \in [Worker -> Requests]
    /\ restarts \in Nat /\ revokes \in Nat
    /\ credited \in [Tx -> Seq(Client)]

\* The next index is unused: no invoice, payment or request in flight refers to
\* it or to a later one, whatever was deleted and recomputed before, so the
\* INSERT of a new invoice never fails on derivation_index UNIQUE
\* (db.py:161, 188-197, 238-249).
CounterAhead ==
    /\ \A p \in pending \cup payments : p.idx < nextIndex
    /\ \A w \in Worker :
        /\ request[w].pc = "verify" => \A p \in request[w].todo : p.idx < nextIndex
        /\ request[w].pc = "credit" => request[w].idx < nextIndex

\* The constraints of the table never stop a page from getting an invoice: the
\* IntegrityError branch is dead code as long as indices remain (db.py:448-457).
NeverCollides ==
    \A c \in Client, ch \in Chain, ti \in Tier :
        (~\E p \in Of(c, ch, ti) : Live(p)) =>
            ~Conflict(Swept(c, ch, ti), NewInvoice(c, ch, ti))

\* Once shown, an address stays good: as long as its time is not over, an open
\* invoice is not expired, replaced or deleted; it can only become paid
\* (db.py:226-235, 393-401; sync-auth.sh:175-179).
OpenInvoiceKept ==
    [][\A p \in pending : p.status = "pending" /\ p.expires > now' =>
        p \in pending' \/ [p EXCEPT !.status = "paid"] \in pending']_vars

\* However many workers find the same transaction, and whenever one of them
\* dies and the client asks again, it is credited once, as long as its record
\* is not deleted by hand (db.py:575-603).
CreditedOnce ==
    revokes = 0 => \A t \in Tx : Len(credited[t]) <= 1

\* The clients a transaction was credited to.
Beneficiaries(t) == {credited[t][i] : i \in DOMAIN credited[t]}

\* An invoice becomes paid only by a transaction that was sent to its address
\* and credited to its client (app.py:527-533, db.py:605-612).
PaidByTransfer ==
    \A p \in pending : p.status = "paid" =>
        \E t \in Tx : t[1] = p.chain /\ p.idx \in onchain[t].to /\ p.client \in Beneficiaries(t)

\* As long as no row is deleted by hand, a transfer is credited only to clients it
\* was meant for, never to one that got the same address after a cleanup and a
\* restart, if it was sent at the latest PENDING_CLEANUP_DAYS, less the tolerance on
\* time stamps, after its invoice was over.  A transfer sent later than that may be
\* credited to somebody else: _match_tx has no upper bound on its time
\* (db.py:188-197, 226-231, verification.py:77-89).
CreditedToPayee ==
    revokes = 0 => \A t \in Tx :
        onchain[t].timely => Beneficiaries(t) \subseteq onchain[t].payees
=============================================================================
