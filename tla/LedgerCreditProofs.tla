------------------------- MODULE LedgerCreditProofs -------------------------
(***************************************************************************)
(* Whom a transfer is credited to, and how often.  An address is tied to   *)
(* one client for as long as any row or any request in flight shows it; a  *)
(* transaction is remembered for longer than any invoice that it could     *)
(* still pay stays open, if the settings compare as the theorem about it   *)
(* assumes.                                                                *)
(***************************************************************************)
EXTENDS LedgerProofs

USE DEF Invoice, Payment, tables, bounds, vars

\* The invoices a request still has to look at.
Listed(w) == IF request[w].pc = "verify" THEN request[w].todo ELSE {}

\* The invoices somebody may still act on: those in the table, and those that
\* a request read from it earlier.
Seen == pending \cup UNION {Listed(w) : w \in Worker}

\* What a request is about to record: a transfer to an address it shows,
\* mined before the request's invoice was over.
Owed(r) ==
    /\ r.tx[1] = r.chain
    /\ r.idx \in onchain[r.tx].to
    /\ r.since < onchain[r.tx].at + TxTolerance + PendingDuration

InvoicesTraced ==
    /\ \A p \in Seen : p.expires = p.created + PendingDuration
    /\ \A p, q \in Seen : p.idx = q.idx => p.client = q.client

RequestTraced(r) ==
    /\ r.pc # "idle" => r.since <= now /\ now <= r.since + RequestTimeout
    /\ r.pc = "verify" =>
           \A p \in r.todo : p.client = r.client /\ p.chain = r.chain /\ p.expires > r.since
    /\ r.pc = "credit" => Owed(r)

Traced ==
    /\ TypeOK
    /\ CounterAhead
    /\ InvoicesTraced
    /\ \A w \in Worker : RequestTraced(request[w])
    /\ \A t \in Tx : onchain[t].at <= now
    /\ PaidByTransfer

-----------------------------------------------------------------------------
(***************************************************************************)
(* What a step may do, seen from one request, one transaction and one row. *)
(***************************************************************************)
\* A request goes on, ends, or begins; only one worker moves at a time.
RequestMoves(w) ==
    LET r == request[w]
        s == request'[w]
    IN
    \/ s = r
    \/ s.pc = "idle"
    \/ s.pc = "list" /\ s.since = now /\ now' = now
    \/ /\ r.pc = "list" /\ s.pc = "verify"
       /\ s.client = r.client /\ s.chain = r.chain /\ s.since = r.since
       /\ s.todo = LiveInvoices(r.client, r.chain)
    \/ /\ r.pc = "verify" /\ s.pc = "verify"
       /\ s.client = r.client /\ s.chain = r.chain /\ s.since = r.since
       /\ s.todo \subseteq r.todo
    \/ /\ r.pc = "verify" /\ s.pc = "credit"
       /\ s.client = r.client /\ s.chain = r.chain /\ s.since = r.since
       /\ \E p \in r.todo : s.idx = p.idx /\ Matches(s.tx, p)

LEMMA BecomeMoves ==
    ASSUME TypeOK, NEW w \in Worker, NEW s, Become(w, s)
    PROVE  request'[w] = s /\ \A v \in Worker : v # w => RequestMoves(v)
  BY DEF Become, TypeOK, RequestMoves

LEMMA StepMoves ==
    ASSUME TypeOK, [Next]_vars, NEW v \in Worker
    PROVE  RequestMoves(v)
<1>1. ASSUME NEW w \in Worker, Become(w, NoRequest) PROVE RequestMoves(v)
  BY <1>1, BecomeMoves DEF RequestMoves, NoRequest
<1>2. ASSUME NEW w \in Worker, NEW c \in Client, NEW ch \in Chain, CheckBegin(w, c, ch)
      PROVE  RequestMoves(v)
  <2> DEFINE s == [pc |-> "list", client |-> c, chain |-> ch, since |-> now]
  <2>1. s.pc = "list" /\ s.since = now
    OBVIOUS
  <2>2. Become(w, s) /\ now' = now
    BY <1>2 DEF CheckBegin
  <2> HIDE DEF s
  <2>3. QED
    BY <2>1, <2>2, BecomeMoves DEF RequestMoves
<1>3. ASSUME NEW w \in Worker, ListInvoices(w) PROVE RequestMoves(v)
  <2> DEFINE r == request[w]
             s == [pc |-> "verify", client |-> r.client, chain |-> r.chain,
                   since |-> r.since, todo |-> LiveInvoices(r.client, r.chain)]
  <2>1. /\ s.pc = "verify" /\ s.client = r.client /\ s.chain = r.chain /\ s.since = r.since
        /\ s.todo = LiveInvoices(r.client, r.chain)
    OBVIOUS
  <2>2. r.pc = "list" /\ (Become(w, s) \/ Become(w, NoRequest))
    BY <1>3 DEF ListInvoices
  <2> HIDE DEF s
  <2>3. CASE Become(w, s)
    BY <2>1, <2>2, <2>3, BecomeMoves DEF RequestMoves
  <2>4. QED
    BY <1>1, <2>2, <2>3
<1>4. ASSUME NEW w \in Worker, VerifyOk(w) PROVE RequestMoves(v)
  <2> DEFINE r == request[w]
  <2>1. PICK p \in r.todo, t \in Tx :
            /\ Matches(t, p)
            /\ Become(w, [pc |-> "credit", client |-> r.client, chain |-> r.chain,
                          since |-> r.since, idx |-> p.idx, tx |-> t])
    BY <1>4 DEF VerifyOk
  <2> DEFINE s == [pc |-> "credit", client |-> r.client, chain |-> r.chain,
                   since |-> r.since, idx |-> p.idx, tx |-> t]
  <2>2. /\ s.pc = "credit" /\ s.client = r.client /\ s.chain = r.chain /\ s.since = r.since
        /\ s.idx = p.idx /\ s.tx = t
    OBVIOUS
  <2>3. r.pc = "verify" /\ Become(w, s)
    BY <1>4, <2>1 DEF VerifyOk
  <2> HIDE DEF s
  <2>4. QED
    BY <2>1, <2>2, <2>3, BecomeMoves DEF RequestMoves
<1>5. ASSUME NEW w \in Worker, VerifyNone(w) PROVE RequestMoves(v)
  <2> DEFINE r == request[w]
  <2>1. r.pc = "verify" /\ r \in Requests
    BY <1>5 DEF VerifyNone, TypeOK
  <2>2. PICK p \in r.todo : Become(w, IF r.todo = {p} THEN NoRequest
                                      ELSE [r EXCEPT !.todo = @ \ {p}])
    BY <1>5 DEF VerifyNone
  <2> DEFINE s == [r EXCEPT !.todo = @ \ {p}]
  <2>3. /\ s.pc = "verify" /\ s.client = r.client /\ s.chain = r.chain /\ s.since = r.since
        /\ s.todo \subseteq r.todo
    <3>1. r = [pc |-> "verify", client |-> r.client, chain |-> r.chain,
               since |-> r.since, todo |-> r.todo]
      BY <2>1, RequestPhases
    <3>2. QED
      BY <3>1
  <2>4. Become(w, s) \/ Become(w, NoRequest)
    BY <2>2
  <2> HIDE DEF s
  <2>5. CASE Become(w, s)
    BY <2>1, <2>3, <2>5, BecomeMoves DEF RequestMoves
  <2>6. QED
    BY <1>1, <2>4, <2>5
<1>6. ASSUME request' = request PROVE RequestMoves(v)
  BY <1>6 DEF RequestMoves
<1>7. CASE Restart
  BY <1>7 DEF Restart, RequestMoves, NoRequest
<1>8. ASSUME NEW w \in Worker, Credit(w) \/ CreditAgain(w) \/ WorkerCrash(w)
      PROVE  RequestMoves(v)
  BY <1>1, <1>8 DEF Credit, CreditAgain, WorkerCrash
<1>9. ASSUME \/ \E c \in Client, ch \in Chain, ti \in Tier : CreateInvoice(c, ch, ti)
             \/ \E c \in Client : GainAccess(c) \/ LoseAccess(c) \/ Revoke(c)
             \/ \E t \in Tx : Send(t)
             \/ Cleanup \/ Tick \/ UNCHANGED vars
      PROVE  RequestMoves(v)
  BY <1>6, <1>9 DEF CreateInvoice, Send, GainAccess, LoseAccess, Tick, Cleanup, Revoke
<1>10. QED
  BY <1>2, <1>3, <1>4, <1>5, <1>7, <1>8, <1>9 DEF Next

\* A row is new, or an old one whose status may have been rewritten.
SameInvoice(p, q) ==
    /\ p.idx = q.idx /\ p.client = q.client /\ p.chain = q.chain
    /\ p.created = q.created /\ p.expires = q.expires

LEMMA StatusKeeps ==
    ASSUME NEW rows, rows \subseteq Invoice, NEW s
    PROVE  \A p \in WithStatus(rows, s) : \E q \in rows : SameInvoice(p, q)
<1>1. ASSUME NEW q \in rows PROVE SameInvoice([q EXCEPT !.status = s], q)
  <2>1. q \in Invoice
    OBVIOUS
  <2>2. QED
    BY <2>1 DEF SameInvoice
<1>2. QED
  BY <1>1 DEF WithStatus

LEMMA StepRows ==
    ASSUME TypeOK, [Next]_vars
    PROVE  \/ \A p \in pending' : \E q \in pending : SameInvoice(p, q)
           \/ \E c \in Client, ch \in Chain, ti \in Tier :
                  /\ CreateInvoice(c, ch, ti)
                  /\ \A p \in pending' :
                        p = NewInvoice(c, ch, ti) \/ \E q \in pending : SameInvoice(p, q)
<1> DEFINE From(p) == \E q \in pending : SameInvoice(p, q)
<1>1. ASSUME pending' \subseteq pending PROVE \A p \in pending' : From(p)
  BY <1>1 DEF SameInvoice
<1>2. ASSUME NEW c \in Client, NEW ch \in Chain, NEW ti \in Tier, CreateInvoice(c, ch, ti)
      PROVE  \A p \in pending' : From(p) \/ p = NewInvoice(c, ch, ti)
  <2>1. Stale(c, ch, ti) \subseteq pending /\ pending \subseteq Invoice
    BY DEF Stale, Of, TypeOK
  <2>2. \A p \in Swept(c, ch, ti) : From(p)
    BY <2>1, StatusKeeps DEF Swept, SameInvoice
  <2>3. QED
    BY <1>2, <2>2 DEF CreateInvoice
<1>3. ASSUME NEW w \in Worker, Credit(w) PROVE \A p \in pending' : From(p)
  <2> DEFINE r == request[w]
             mine == {p \in pending : /\ p.client = r.client /\ p.chain = r.chain
                                      /\ p.idx = r.idx /\ p.status = "pending"}
  <2>1. pending' = (pending \ mine) \cup WithStatus(mine, "paid")
    BY <1>3 DEF Credit
  <2>2. mine \subseteq Invoice /\ mine \subseteq pending
    BY DEF TypeOK
  <2> HIDE DEF mine
  <2>3. QED
    BY <2>1, <2>2, StatusKeeps DEF SameInvoice
<1>4. CASE \/ \E c \in Client, ch \in Chain, ti \in Tier : CreateInvoice(c, ch, ti)
           \/ \E w \in Worker : Credit(w)
  BY <1>2, <1>3, <1>4
<1>5. CASE pending' \subseteq pending
  BY <1>1, <1>5
<1>6. CASE \/ \E w \in Worker, c \in Client, ch \in Chain : CheckBegin(w, c, ch)
           \/ \E w \in Worker : ListInvoices(w) \/ VerifyOk(w) \/ VerifyNone(w)
           \/ \E w \in Worker : CreditAgain(w) \/ WorkerCrash(w)
  BY <1>5, <1>6 DEF CheckBegin, ListInvoices, VerifyOk, VerifyNone, CreditAgain, WorkerCrash
<1>7. CASE \/ \E c \in Client : GainAccess(c) \/ LoseAccess(c) \/ Revoke(c)
           \/ \E t \in Tx : Send(t)
           \/ Restart \/ Cleanup \/ Tick \/ UNCHANGED vars
  BY <1>5, <1>7 DEF Send, GainAccess, LoseAccess, Tick, Restart, Cleanup, KeptPending, Revoke
<1>8. QED
  BY <1>4, <1>6, <1>7 DEF Next

LEMMA StepSeen ==
    ASSUME TypeOK, [Next]_vars
    PROVE  \/ \A p \in Seen' : \E q \in Seen : SameInvoice(p, q)
           \/ \E c \in Client, ch \in Chain, ti \in Tier :
                  /\ CreateInvoice(c, ch, ti)
                  /\ \A p \in Seen' :
                        p = NewInvoice(c, ch, ti) \/ \E q \in Seen : SameInvoice(p, q)
<1>1. ASSUME NEW w \in Worker PROVE \A p \in Listed(w)' : p \in Seen
  BY StepMoves DEF RequestMoves, Listed, Seen, LiveInvoices
<1>2. \A p \in Seen : SameInvoice(p, p)
  BY DEF SameInvoice
<1>3. \A p \in Seen' : p \in pending' \/ \E q \in Seen : SameInvoice(p, q)
  BY <1>1, <1>2 DEF Seen
<1>4. pending \subseteq Seen
  BY DEF Seen
<1>5. QED
  BY <1>3, <1>4, StepRows

\* The clock, the chain and the history of credits.
LEMMA StepTransfers ==
    ASSUME TypeOK, [Next]_vars, NEW t \in Tx
    PROVE  /\ now \in Nat /\ now' \in Nat /\ now <= now'
           /\ \/ onchain'[t] = onchain[t]
              \/ onchain[t] = Unsent /\ Send(t)
           /\ \/ credited'[t] = credited[t]
              \/ \E w \in Worker : Credit(w) /\ request[w].tx = t
<1>1. CASE \E w \in Worker : Credit(w)
  <2>1. PICK w \in Worker : Credit(w)
    BY <1>1
  <2>2. credited' = [credited EXCEPT ![request[w].tx] = Append(@, request[w].client)]
    BY <2>1 DEF Credit
  <2>3. now' = now /\ onchain' = onchain /\ now \in Nat
    BY <2>1 DEF Credit, TypeOK
  <2>4. QED
    BY <2>1, <2>2, <2>3 DEF TypeOK
<1>2. CASE \E u \in Tx : Send(u)
  <2>1. PICK u \in Tx : Send(u)
    BY <1>2
  <2>2. now' = now /\ credited' = credited /\ now \in Nat
    BY <2>1 DEF Send, TypeOK
  <2>3. u # t => onchain'[t] = onchain[t]
    BY <2>1 DEF Send, TypeOK
  <2>4. onchain[u] = Unsent
    BY <2>1 DEF Send
  <2>5. QED
    BY <2>1, <2>2, <2>3, <2>4
<1>3. CASE Tick
  BY <1>3 DEF Tick, TypeOK
<1>4. ASSUME now' = now, onchain' = onchain, credited' = credited
      PROVE  /\ now \in Nat /\ now' \in Nat /\ now <= now'
             /\ onchain'[t] = onchain[t] /\ credited'[t] = credited[t]
  BY <1>4 DEF TypeOK
<1>5. CASE \/ \E w \in Worker, c \in Client, ch \in Chain : CheckBegin(w, c, ch)
           \/ \E w \in Worker : ListInvoices(w) \/ VerifyOk(w) \/ VerifyNone(w)
           \/ \E w \in Worker : CreditAgain(w) \/ WorkerCrash(w)
  BY <1>4, <1>5 DEF CheckBegin, ListInvoices, VerifyOk, VerifyNone, CreditAgain, WorkerCrash
<1>6. CASE \/ \E c \in Client, ch \in Chain, ti \in Tier : CreateInvoice(c, ch, ti)
           \/ \E c \in Client : GainAccess(c) \/ LoseAccess(c) \/ Revoke(c)
           \/ Restart \/ Cleanup \/ UNCHANGED vars
  BY <1>4, <1>6 DEF CreateInvoice, GainAccess, LoseAccess, Restart, Cleanup, Revoke
<1>7. QED
  BY <1>1, <1>2, <1>3, <1>5, <1>6 DEF Next

-----------------------------------------------------------------------------
(***************************************************************************)
(* An invoice becomes paid only by a transfer to its address.              *)
(***************************************************************************)
\* The numbers and the indices of what is seen.
LEMMA SeenTypes ==
    ASSUME TypeOK, CounterAhead
    PROVE  /\ Seen \subseteq Invoice
           /\ \A p \in Seen : /\ p.idx \in Nat /\ p.created \in Nat /\ p.expires \in Nat
                              /\ p.idx < nextIndex
           /\ nextIndex \in Nat /\ now \in Nat
<1>1. ASSUME NEW w \in Worker
      PROVE  Listed(w) \subseteq Invoice /\ \A p \in Listed(w) : p.idx < nextIndex
  <2>1. request[w] \in Requests
    BY DEF TypeOK
  <2>2. QED
    BY <2>1, RequestPhases DEF Listed, CounterAhead
<1>2. Seen \subseteq Invoice /\ \A p \in Seen : p.idx < nextIndex
  BY <1>1 DEF Seen, TypeOK, CounterAhead
<1>3. QED
  BY <1>2 DEF TypeOK

LEMMA InvoicesStep ==
    ASSUME TypeOK, CounterAhead, InvoicesTraced, [Next]_vars
    PROVE  InvoicesTraced'
<1>1. \A p \in Seen : p.expires = p.created + PendingDuration
  BY DEF InvoicesTraced
<1>2. \A p, q \in Seen : p.idx = q.idx => p.client = q.client
  BY DEF InvoicesTraced
<1>3. CASE \A p \in Seen' : \E q \in Seen : SameInvoice(p, q)
  BY <1>1, <1>2, <1>3 DEF InvoicesTraced, SameInvoice
<1>4. CASE \E c \in Client, ch \in Chain, ti \in Tier :
                  /\ CreateInvoice(c, ch, ti)
                  /\ \A p \in Seen' :
                        p = NewInvoice(c, ch, ti) \/ \E q \in Seen : SameInvoice(p, q)
  <2>1. PICK c \in Client, ch \in Chain, ti \in Tier :
                  \A p \in Seen' :
                        p = NewInvoice(c, ch, ti) \/ \E q \in Seen : SameInvoice(p, q)
    BY <1>4
  <2> DEFINE new == NewInvoice(c, ch, ti)
  <2>2. new.idx = nextIndex /\ new.expires = new.created + PendingDuration
    BY DEF NewInvoice
  <2>3. \A q \in Seen : q.idx # nextIndex
    BY SeenTypes
  <2> HIDE DEF new
  <2>4. \A p \in Seen' : p = new \/ \E q \in Seen : SameInvoice(p, q)
    BY <2>1 DEF new
  <2>5. \A p \in Seen' : p.expires = p.created + PendingDuration
    BY <1>1, <2>2, <2>4 DEF SameInvoice
  <2>6. \A p, q \in Seen' : p.idx = q.idx => p.client = q.client
    BY <1>2, <2>2, <2>3, <2>4 DEF SameInvoice
  <2>7. QED
    BY <2>5, <2>6 DEF InvoicesTraced
<1>5. QED
  BY <1>3, <1>4, StepSeen

\* The clock stands still or ticks.
LEMMA StepClock ==
    ASSUME TypeOK, [Next]_vars
    PROVE  /\ now \in Nat /\ now' \in Nat /\ now <= now'
           /\ now' = now \/ Tick
<1>1. now \in Nat
  BY DEF TypeOK
<1>2. Tick \/ now' = now
  <2>1. CASE \/ \E v \in Worker, c \in Client, ch \in Chain : CheckBegin(v, c, ch)
             \/ \E v \in Worker : ListInvoices(v) \/ VerifyOk(v) \/ VerifyNone(v)
             \/ \E v \in Worker : Credit(v) \/ CreditAgain(v) \/ WorkerCrash(v)
    BY <2>1 DEF CheckBegin, ListInvoices, VerifyOk, VerifyNone, Credit, CreditAgain, WorkerCrash
  <2>2. CASE \/ \E c \in Client, ch \in Chain, ti \in Tier : CreateInvoice(c, ch, ti)
             \/ \E c \in Client : GainAccess(c) \/ LoseAccess(c) \/ Revoke(c)
             \/ \E t \in Tx : Send(t)
             \/ Restart \/ Cleanup \/ UNCHANGED vars
    BY <2>2 DEF CreateInvoice, GainAccess, LoseAccess, Restart, Cleanup, Revoke, Send
  <2>3. QED
    BY <2>1, <2>2 DEF Next
<1>3. Tick => now' = now + 1
  BY DEF Tick
<1>4. QED
  BY <1>1, <1>2, <1>3

\* gunicorn kills a request before the clock passes its limit.
LEMMA RequestInTime ==
    ASSUME TypeOK, [Next]_vars, NEW w \in Worker, request[w].pc # "idle",
           request[w].since <= now, now <= request[w].since + RequestTimeout
    PROVE  request[w].since <= now' /\ now' <= request[w].since + RequestTimeout
<1>1. request[w].since \in Nat /\ now \in Nat /\ RequestTimeout \in Nat
  BY RequestPhases, LedgerAssumption DEF TypeOK
<1>2. CASE Tick
  BY <1>1, <1>2 DEF Tick
<1>3. CASE now' = now
  BY <1>3
<1>4. Tick \/ now' = now
  BY StepClock
<1>5. QED
  BY <1>2, <1>3, <1>4

\* A transfer that has been sent stays what it is.
LEMMA SentStays ==
    ASSUME TypeOK, [Next]_vars, NEW t \in Tx, onchain[t].to # {}
    PROVE  onchain'[t] = onchain[t]
  BY StepTransfers DEF Unsent

LEMMA OwedStays ==
    ASSUME TypeOK, [Next]_vars, NEW r, r.tx \in Tx, Owed(r), NEW s, s = r
    PROVE  s.tx[1] = s.chain /\ s.idx \in onchain'[s.tx].to
           /\ s.since < onchain'[s.tx].at + TxTolerance + PendingDuration
<1>1. onchain[r.tx].to # {}
  BY DEF Owed
<1>2. QED
  BY <1>1, SentStays DEF Owed

LEMMA RequestsStep ==
    ASSUME Traced, TypeOK', [Next]_vars, NEW w \in Worker
    PROVE  RequestTraced(request[w])'
<1> DEFINE r == request[w]
           s == request'[w]
<1>1. TypeOK /\ CounterAhead /\ InvoicesTraced /\ RequestTraced(r)
  BY DEF Traced
<1>2. r \in Requests /\ s \in Requests
  BY <1>1 DEF TypeOK
<1>3. /\ r.pc # "idle" => r.since \in Nat
      /\ s.pc = "credit" => s.tx \in Tx
      /\ r.pc = "credit" => r.tx \in Tx
  BY <1>2, RequestPhases
<1>4. r.pc # "idle" => r.since <= now' /\ now' <= r.since + RequestTimeout
  BY <1>1, RequestInTime DEF RequestTraced
<1>5. /\ now \in Nat /\ now' \in Nat /\ RequestTimeout \in Nat
      /\ TxTolerance \in Nat /\ PendingDuration \in Nat
  BY LedgerAssumption, <1>1 DEF TypeOK
<1>6. /\ s.pc # "idle" => s.since <= now' /\ now' <= s.since + RequestTimeout
      /\ s.pc = "verify" =>
             \A p \in s.todo : p.client = s.client /\ p.chain = s.chain /\ p.expires > s.since
      /\ s.pc = "credit" => /\ s.tx[1] = s.chain /\ s.idx \in onchain'[s.tx].to
                            /\ s.since < onchain'[s.tx].at + TxTolerance + PendingDuration
  <2>1. CASE s = r
    <3>1. s.pc = "credit" => /\ s.tx[1] = s.chain /\ s.idx \in onchain'[s.tx].to
                             /\ s.since < onchain'[s.tx].at + TxTolerance + PendingDuration
      BY <1>1, <1>3, <2>1, OwedStays DEF RequestTraced
    <3> HIDE DEF s, r
    <3>2. QED
      BY <1>1, <1>4, <2>1, <3>1 DEF RequestTraced
  <2>2. CASE s.pc = "idle"
    BY <2>2
  <2>3. CASE s.pc = "list" /\ s.since = now /\ now' = now
    BY <1>5, <2>3
  <2>4. CASE /\ r.pc = "list" /\ s.pc = "verify"
             /\ s.client = r.client /\ s.chain = r.chain /\ s.since = r.since
             /\ s.todo = LiveInvoices(r.client, r.chain)
    <3>1. \A p \in s.todo : /\ p.client = r.client /\ p.chain = r.chain /\ p.expires > now
                            /\ p.expires \in Nat
      BY <1>1, <2>4 DEF LiveInvoices, Live, TypeOK
    <3>2. r.since <= now /\ r.since \in Nat
      BY <1>1, <1>3, <2>4 DEF RequestTraced
    <3>3. QED
      BY <1>4, <1>5, <2>4, <3>1, <3>2
  <2>5. CASE /\ r.pc = "verify" /\ s.pc = "verify"
             /\ s.client = r.client /\ s.chain = r.chain /\ s.since = r.since
             /\ s.todo \subseteq r.todo
    BY <1>1, <1>4, <2>5 DEF RequestTraced
  <2>6. CASE /\ r.pc = "verify" /\ s.pc = "credit"
             /\ s.client = r.client /\ s.chain = r.chain /\ s.since = r.since
             /\ \E p \in r.todo : s.idx = p.idx /\ Matches(s.tx, p)
    <3>1. PICK p \in r.todo : s.idx = p.idx /\ Matches(s.tx, p)
      BY <2>6
    <3>2. p \in Seen /\ p.client = r.client /\ p.chain = r.chain /\ p.expires > r.since
      BY <1>1, <2>6 DEF RequestTraced, Seen, Listed
    <3>3. p.expires = p.created + PendingDuration /\ p.created \in Nat
      BY <1>1, <3>2, SeenTypes DEF InvoicesTraced
    <3>4. /\ s.tx \in Tx /\ s.tx[1] = p.chain /\ p.idx \in onchain[s.tx].to
          /\ onchain[s.tx].at >= p.created - TxTolerance /\ onchain[s.tx].at \in Nat
      BY <1>1, <1>3, <2>6, <3>1 DEF Matches, TypeOK
    <3>5. onchain'[s.tx] = onchain[s.tx]
      BY <1>1, <3>4, SentStays
    <3>6. r.since < onchain[s.tx].at + TxTolerance + PendingDuration
      BY <1>3, <1>5, <2>6, <3>2, <3>3, <3>4
    <3>7. QED
      BY <1>4, <2>6, <3>1, <3>2, <3>4, <3>5, <3>6
  <2>7. QED
    BY <1>1, <2>1, <2>2, <2>3, <2>4, <2>5, <2>6, StepMoves DEF RequestMoves
<1>7. QED
  BY <1>6 DEF RequestTraced, Owed

LEMMA BeneficiariesGrow ==
    ASSUME NEW q \in Seq(Client), NEW c \in Client, NEW b, b = Append(q, c)
    PROVE  {b[i] : i \in DOMAIN b} = {q[i] : i \in DOMAIN q} \cup {c}
<1>1. /\ DOMAIN b = DOMAIN q \cup {Len(q) + 1} /\ b[Len(q) + 1] = c
      /\ \A i \in DOMAIN q : b[i] = q[i]
  OBVIOUS
<1>2. QED
  BY <1>1

\* Credits are never taken back.
LEMMA StepBeneficiaries ==
    ASSUME TypeOK, [Next]_vars, NEW t \in Tx
    PROVE  /\ Beneficiaries(t) \subseteq Beneficiaries(t)'
           /\ \A w \in Worker : Credit(w) /\ request[w].tx = t =>
                  Beneficiaries(t)' = Beneficiaries(t) \cup {request[w].client}
           /\ \A c \in Beneficiaries(t)' : c \in Beneficiaries(t) \/
                  \E w \in Worker : Credit(w) /\ request[w].tx = t /\ c = request[w].client
<1>1. ASSUME NEW w \in Worker, Credit(w), request[w].tx = t
      PROVE  Beneficiaries(t)' = Beneficiaries(t) \cup {request[w].client}
  <2>1. credited[t] \in Seq(Client) /\ request[w].client \in Client
    BY <1>1, RequestPhases DEF TypeOK, Credit
  <2>2. credited'[t] = Append(credited[t], request[w].client)
    BY <1>1 DEF Credit, TypeOK
  <2>3. {credited'[t][i] : i \in DOMAIN credited'[t]}
            = {credited[t][i] : i \in DOMAIN credited[t]} \cup {request[w].client}
    BY <2>1, <2>2, BeneficiariesGrow
  <2>4. QED
    BY <2>3 DEF Beneficiaries
<1>2. ASSUME credited'[t] = credited[t] PROVE Beneficiaries(t)' = Beneficiaries(t)
  BY <1>2 DEF Beneficiaries
<1>3. QED
  BY <1>1, <1>2, StepTransfers

\* A row that is paid was paid before, or is marked by this credit.
LEMMA StepPaid ==
    ASSUME TypeOK, [Next]_vars, NEW p \in pending', p.status = "paid"
    PROVE  \/ p \in pending
           \/ \E w \in Worker :
                  /\ Credit(w) /\ p.idx = request[w].idx
                  /\ p.chain = request[w].chain /\ p.client = request[w].client
<1>1. ASSUME NEW c \in Client, NEW ch \in Chain, NEW ti \in Tier, CreateInvoice(c, ch, ti)
      PROVE  p \in pending
  <2>1. Stale(c, ch, ti) \subseteq Invoice
    BY DEF Stale, Of, TypeOK
  <2>2. \A q \in WithStatus(Stale(c, ch, ti), "expired") : q.status = "expired"
    BY <2>1, StatusType
  <2>3. NewInvoice(c, ch, ti).status = "pending"
    BY DEF NewInvoice
  <2>4. QED
    BY <1>1, <2>2, <2>3 DEF CreateInvoice, Swept
<1>2. ASSUME NEW w \in Worker, Credit(w)
      PROVE  p \in pending \/ ( /\ p.idx = request[w].idx /\ p.chain = request[w].chain
                                /\ p.client = request[w].client )
  <2> DEFINE r == request[w]
             mine == {q \in pending : /\ q.client = r.client /\ q.chain = r.chain
                                      /\ q.idx = r.idx /\ q.status = "pending"}
  <2>1. pending' = (pending \ mine) \cup WithStatus(mine, "paid")
    BY <1>2 DEF Credit
  <2>2. mine \subseteq Invoice /\ \A q \in mine : q.client = r.client /\ q.chain = r.chain /\ q.idx = r.idx
    BY DEF TypeOK
  <2> HIDE DEF mine
  <2>3. \A x \in WithStatus(mine, "paid") : \E q \in mine : SameInvoice(x, q)
    BY <2>2, StatusKeeps
  <2>4. QED
    BY <2>1, <2>2, <2>3 DEF SameInvoice
<1>3. CASE \/ \E c \in Client, ch \in Chain, ti \in Tier : CreateInvoice(c, ch, ti)
           \/ \E w \in Worker : Credit(w)
  BY <1>1, <1>2, <1>3
<1>4. CASE \/ \E w \in Worker, c \in Client, ch \in Chain : CheckBegin(w, c, ch)
           \/ \E w \in Worker : ListInvoices(w) \/ VerifyOk(w) \/ VerifyNone(w)
           \/ \E w \in Worker : CreditAgain(w) \/ WorkerCrash(w)
  BY <1>4 DEF CheckBegin, ListInvoices, VerifyOk, VerifyNone, CreditAgain, WorkerCrash
<1>5. CASE \/ \E c \in Client : GainAccess(c) \/ LoseAccess(c) \/ Revoke(c)
           \/ \E t \in Tx : Send(t)
           \/ Restart \/ Cleanup \/ Tick \/ UNCHANGED vars
  BY <1>5 DEF Send, GainAccess, LoseAccess, Tick, Restart, Cleanup, KeptPending, Revoke
<1>6. QED
  BY <1>3, <1>4, <1>5 DEF Next

LEMMA PaidStep ==
    ASSUME Traced, [Next]_vars
    PROVE  PaidByTransfer'
<1> SUFFICES ASSUME NEW p \in pending', p.status = "paid"
             PROVE  \E t \in Tx : /\ t[1] = p.chain /\ p.idx \in onchain'[t].to
                                  /\ p.client \in Beneficiaries(t)'
  BY DEF PaidByTransfer
<1>1. TypeOK
  BY DEF Traced
<1>2. CASE p \in pending
  <2>1. PICK t \in Tx : t[1] = p.chain /\ p.idx \in onchain[t].to /\ p.client \in Beneficiaries(t)
    BY <1>2 DEF Traced, PaidByTransfer
  <2>2. onchain'[t] = onchain[t]
    BY <1>1, <2>1, SentStays
  <2>3. p.client \in Beneficiaries(t)'
    BY <1>1, <2>1, StepBeneficiaries
  <2>4. QED
    BY <2>1, <2>2, <2>3
<1>3. CASE \E w \in Worker :
               /\ Credit(w) /\ p.idx = request[w].idx
               /\ p.chain = request[w].chain /\ p.client = request[w].client
  <2>1. PICK w \in Worker :
               /\ Credit(w) /\ p.idx = request[w].idx
               /\ p.chain = request[w].chain /\ p.client = request[w].client
    BY <1>3
  <2> DEFINE t == request[w].tx
  <2>2. request[w].pc = "credit" /\ Owed(request[w]) /\ t \in Tx
    BY <1>1, <2>1, RequestPhases DEF Credit, Traced, RequestTraced, TypeOK
  <2>3. t[1] = p.chain /\ p.idx \in onchain[t].to
    BY <2>1, <2>2 DEF Owed
  <2>4. onchain'[t] = onchain[t]
    BY <1>1, <2>2, <2>3, SentStays
  <2>5. PICK u \in Tx : u = t
    BY <2>2
  <2>6. Beneficiaries(u)' = Beneficiaries(u) \cup {request[w].client}
    BY <1>1, <2>1, <2>5, StepBeneficiaries
  <2>7. QED
    BY <2>1, <2>3, <2>4, <2>5, <2>6
<1>4. QED
  BY <1>1, <1>2, <1>3, StepPaid

LEMMA InitTraced == Init => Traced
<1> SUFFICES ASSUME Init PROVE Traced
  OBVIOUS
<1>1. TypeOK /\ CounterAhead
  BY InitTypeOK, InitAhead
<1>2. Seen = {}
  BY DEF Init, Seen, Listed, NoRequest
<1>3. InvoicesTraced
  BY <1>2 DEF InvoicesTraced
<1>4. \A w \in Worker : RequestTraced(request[w])
  BY DEF Init, RequestTraced, NoRequest
<1>5. \A t \in Tx : onchain[t].at <= now
  BY DEF Init, Unsent
<1>6. PaidByTransfer
  BY DEF Init, PaidByTransfer
<1>7. QED
  BY <1>1, <1>3, <1>4, <1>5, <1>6 DEF Traced

LEMMA StepTraced == Traced /\ [Next]_vars => Traced'
<1> SUFFICES ASSUME Traced, [Next]_vars PROVE Traced'
  OBVIOUS
<1>1. TypeOK' /\ CounterAhead'
  BY StepTypeOK, StepAhead DEF Traced
<1>2. InvoicesTraced'
  BY InvoicesStep DEF Traced
<1>3. \A w \in Worker : RequestTraced(request[w])'
  BY <1>1, RequestsStep
<1>4. ASSUME NEW t \in Tx PROVE onchain'[t].at <= now'
  <2>1. /\ now \in Nat /\ now' \in Nat /\ now <= now'
        /\ onchain'[t] = onchain[t] \/ Send(t)
    BY StepTransfers DEF Traced
  <2>2. onchain[t].at \in Nat /\ onchain[t].at <= now
    BY DEF Traced, TypeOK
  <2>3. Send(t) => onchain'[t].at = now
    BY DEF Send, Transfer, Traced, TypeOK
  <2>4. QED
    BY <2>1, <2>2, <2>3
<1>5. PaidByTransfer'
  BY PaidStep
<1>6. QED
  BY <1>1, <1>2, <1>3, <1>4, <1>5 DEF Traced

\* An invoice is marked paid only by a transfer to its address that was
\* credited to its client, whichever workers were asked, died and were asked
\* again, and whatever was deleted meanwhile (app.py:527-533, db.py:605-612).
THEOREM PaidByTransferHolds == Spec => []PaidByTransfer
<1>1. Init => Traced
  BY InitTraced
<1>2. Traced /\ [Next]_vars => Traced'
  BY StepTraced
<1>3. Traced => PaidByTransfer
  BY DEF Traced
<1>4. QED
  BY <1>1, <1>2, <1>3, PTL DEF Spec

-----------------------------------------------------------------------------
(***************************************************************************)
(* As long as no row is deleted by hand, a transaction is credited once,   *)
(* if it is remembered for longer than an invoice it could pay stays open. *)
(***************************************************************************)
\* PAYMENTS_CLEANUP_DAYS against the other settings.
RemembersLongEnough ==
    TxTolerance + PendingDuration + RequestTimeout <= AccessDuration + PaymentsKeep

Remembered(t) ==
    \/ \E m \in payments : m.tx = t /\ m.expires >= onchain[t].at + AccessDuration
    \/ now > onchain[t].at + AccessDuration + PaymentsKeep

Once ==
    revokes = 0 => \A t \in Tx :
        credited[t] # <<>> => Len(credited[t]) = 1 /\ onchain[t].to # {} /\ Remembered(t)

LEMMA StepRemembered ==
    ASSUME TypeOK, [Next]_vars, revokes' = 0, NEW t \in Tx, onchain[t].to # {}, Remembered(t)
    PROVE  Remembered(t)'
<1>1. /\ onchain'[t] = onchain[t] /\ now \in Nat /\ now' \in Nat /\ now <= now'
      /\ onchain[t].at \in Nat /\ AccessDuration \in Nat /\ PaymentsKeep \in Nat
  BY SentStays, StepTransfers, LedgerAssumption DEF TypeOK
<1>2. CASE now > onchain[t].at + AccessDuration + PaymentsKeep
  BY <1>1, <1>2 DEF Remembered
<1>3. CASE \E m \in payments : m.tx = t /\ m.expires >= onchain[t].at + AccessDuration
  <2>1. PICK m \in payments : m.tx = t /\ m.expires >= onchain[t].at + AccessDuration
    BY <1>3
  <2>2. m.expires \in Nat
    BY DEF TypeOK
  <2>3. CASE m \in payments'
    BY <1>1, <2>1, <2>3 DEF Remembered
  <2>4. CASE payments' = KeptPayments /\ now' = now /\ m \notin payments'
    <3>1. ~(m.expires >= now - PaymentsKeep)
      BY <2>4 DEF KeptPayments
    <3>2. now > onchain[t].at + AccessDuration + PaymentsKeep
      BY <1>1, <2>1, <2>2, <3>1
    <3>3. QED
      BY <1>2, <3>2
  <2>5. (m \in payments') \/ (payments' = KeptPayments /\ now' = now)
    <3>1. CASE \/ \E v \in Worker, c \in Client, ch \in Chain : CheckBegin(v, c, ch)
               \/ \E v \in Worker : ListInvoices(v) \/ VerifyOk(v) \/ VerifyNone(v)
               \/ \E v \in Worker : Credit(v) \/ CreditAgain(v) \/ WorkerCrash(v)
      BY <3>1 DEF CheckBegin, ListInvoices, VerifyOk, VerifyNone, Credit, CreditAgain, WorkerCrash
    <3>2. CASE \/ \E c \in Client, ch \in Chain, ti \in Tier : CreateInvoice(c, ch, ti)
               \/ \E c \in Client : GainAccess(c) \/ LoseAccess(c)
               \/ \E u \in Tx : Send(u)
               \/ Restart \/ Cleanup \/ Tick \/ UNCHANGED vars
      BY <3>2 DEF CreateInvoice, GainAccess, LoseAccess, Restart, Cleanup, Send, Tick
    <3>3. ASSUME NEW c \in Client PROVE ~Revoke(c)
      BY DEF Revoke, TypeOK
    <3>4. QED
      BY <3>1, <3>2, <3>3 DEF Next
  <2>6. QED
    BY <2>3, <2>4, <2>5
<1>4. QED
  BY <1>2, <1>3 DEF Remembered

\* Nobody forgets that a row was deleted by hand.
LEMMA StepRevokes ==
    ASSUME TypeOK, [Next]_vars, revokes' = 0
    PROVE  revokes = 0 /\ \A c \in Client : ~Revoke(c)
<1>1. ASSUME NEW c \in Client PROVE ~Revoke(c)
  BY DEF Revoke, TypeOK
<1>2. revokes' = revokes
  <2>1. CASE \/ \E v \in Worker, c \in Client, ch \in Chain : CheckBegin(v, c, ch)
             \/ \E v \in Worker : ListInvoices(v) \/ VerifyOk(v) \/ VerifyNone(v)
             \/ \E v \in Worker : Credit(v) \/ CreditAgain(v) \/ WorkerCrash(v)
    BY <2>1 DEF CheckBegin, ListInvoices, VerifyOk, VerifyNone, Credit, CreditAgain, WorkerCrash
  <2>2. CASE \/ \E c \in Client, ch \in Chain, ti \in Tier : CreateInvoice(c, ch, ti)
             \/ \E c \in Client : GainAccess(c) \/ LoseAccess(c)
             \/ \E u \in Tx : Send(u)
             \/ Cleanup \/ Tick \/ UNCHANGED vars
    BY <2>2 DEF CreateInvoice, GainAccess, LoseAccess, Cleanup, Send, Tick
  <2>3. CASE Restart
    BY <2>3 DEF Restart
  <2>4. QED
    BY <1>1, <2>1, <2>2, <2>3 DEF Next
<1>3. QED
  BY <1>1, <1>2

\* How late a transaction found by a request can be credited.
LEMMA CreditInTime ==
    ASSUME RemembersLongEnough, NEW at \in Nat, NEW since \in Nat, now \in Nat,
           now <= since + RequestTimeout, since < at + TxTolerance + PendingDuration
    PROVE  ~(now > at + AccessDuration + PaymentsKeep)
<1>1. /\ TxTolerance \in Nat /\ PendingDuration \in Nat /\ RequestTimeout \in Nat
      /\ AccessDuration \in Nat /\ PaymentsKeep \in Nat
  BY LedgerAssumption
<1>2. TxTolerance + PendingDuration + RequestTimeout <= AccessDuration + PaymentsKeep
  BY DEF RemembersLongEnough
<1>3. QED
  BY <1>1, <1>2

LEMMA StepOnce ==
    ASSUME Traced, Once, RemembersLongEnough, [Next]_vars
    PROVE  Once'
<1> SUFFICES ASSUME revokes' = 0, NEW t \in Tx, credited'[t] # <<>>
             PROVE  Len(credited'[t]) = 1 /\ onchain'[t].to # {} /\ Remembered(t)'
  BY DEF Once
<1>1. TypeOK /\ revokes = 0
  BY StepRevokes DEF Traced
<1>2. CASE credited'[t] = credited[t]
  <2>1. Len(credited[t]) = 1 /\ onchain[t].to # {} /\ Remembered(t)
    BY <1>1, <1>2 DEF Once
  <2>2. QED
    BY <1>1, <1>2, <2>1, SentStays, StepRemembered
<1>3. CASE \E w \in Worker : Credit(w) /\ request[w].tx = t
  <2>1. PICK w \in Worker : Credit(w) /\ request[w].tx = t
    BY <1>3
  <2> DEFINE r == request[w]
  <2>2. /\ r.pc = "credit" /\ Owed(r) /\ r.since \in Nat /\ r.client \in Client
        /\ now <= r.since + RequestTimeout
    BY <1>1, <2>1, RequestPhases DEF Credit, Traced, RequestTraced, TypeOK
  <2>3. /\ onchain[t].at \in Nat /\ now \in Nat /\ onchain[t].at <= now
        /\ AccessDuration \in Nat /\ PaymentsKeep \in Nat /\ TxTolerance \in Nat
        /\ PendingDuration \in Nat /\ RequestTimeout \in Nat
        /\ credited[t] \in Seq(Client)
    BY <1>1, LedgerAssumption DEF TypeOK, Traced
  <2>4. ~Recorded(t) /\ onchain[t].to # {}
    BY <2>1, <2>2 DEF Credit, Owed
  <2>5. ~(now > onchain[t].at + AccessDuration + PaymentsKeep)
    <3>1. r.since < onchain[t].at + TxTolerance + PendingDuration
      BY <2>1, <2>2 DEF Owed
    <3>2. PICK since \in Nat, at \in Nat : since = r.since /\ at = onchain[t].at
      BY <2>2, <2>3
    <3>3. now <= since + RequestTimeout /\ since < at + TxTolerance + PendingDuration
      BY <2>2, <3>1, <3>2
    <3>4. ~(now > at + AccessDuration + PaymentsKeep)
      BY <2>3, <3>3, CreditInTime
    <3>5. QED
      BY <3>2, <3>4
  <2>6. credited[t] = <<>>
    BY <1>1, <2>4, <2>5 DEF Once, Remembered, Recorded
  <2>7. credited'[t] = Append(credited[t], r.client)
    BY <1>1, <2>1 DEF Credit, TypeOK
  <2>8. Len(credited'[t]) = 1
    BY <2>2, <2>6, <2>7
  <2>9. onchain'[t] = onchain[t]
    BY <1>1, <2>4, SentStays
  <2>10. \E m \in payments' : m.tx = t /\ m.expires >= onchain[t].at + AccessDuration
    <3> DEFINE m == [tx |-> r.tx, client |-> r.client, idx |-> r.idx,
                     expires |-> now + AccessDuration]
    <3>1. m \in payments' /\ m.tx = t /\ m.expires = now + AccessDuration
      BY <2>1 DEF Credit
    <3> HIDE DEF m
    <3>2. m.expires >= onchain[t].at + AccessDuration
      BY <2>3, <3>1
    <3>3. QED
      BY <3>1, <3>2
  <2>11. QED
    BY <2>4, <2>8, <2>9, <2>10 DEF Remembered
<1>4. QED
  BY <1>1, <1>2, <1>3, StepTransfers

\* However many workers find the same transaction, whenever one of them dies
\* and the client asks again, and however many invoices one transaction pays:
\* it is credited once, as long as its record is not deleted by hand and the
\* settings let it be remembered for long enough (db.py:575-603).
THEOREM CreditedOnceHolds ==
    ASSUME RemembersLongEnough
    PROVE  Spec => []CreditedOnce
<1>1. Init => Traced /\ Once
  BY InitTraced DEF Init, Once
<1>2. Traced /\ Once /\ [Next]_vars => Traced' /\ Once'
  BY StepTraced, StepOnce
<1>3. Traced /\ Once => CreditedOnce
  <2> SUFFICES ASSUME Traced, Once, revokes = 0, NEW t \in Tx PROVE Len(credited[t]) <= 1
    BY DEF CreditedOnce
  <2>1. CASE credited[t] = <<>>
    BY <2>1
  <2>2. CASE credited[t] # <<>>
    <3>1. Len(credited[t]) = 1
      BY <2>2 DEF Once
    <3>2. QED
      BY <3>1
  <2>3. QED
    BY <2>1, <2>2
<1>4. QED
  BY <1>1, <1>2, <1>3, PTL DEF Spec

-----------------------------------------------------------------------------
(***************************************************************************)
(* As long as no row is deleted by hand, a timely transfer is credited to  *)
(* a client it was meant for: the row of an invoice stays until no invoice *)
(* that gets the same index later can be paid by such a transfer.          *)
(***************************************************************************)
\* An invoice that was shown is still in the table, or has long been over.
StillThere(s) ==
    (\E q \in pending : SameInvoice(q, s)) \/ now > s.expires + PendingKeep

\* An address that was shown is one client's, until long after.
Apart(s, p) ==
    p.idx = s.idx => p.client = s.client \/ p.created > s.expires + PendingKeep

\* An address paid in time is still taken, or was freed too late to matter.
Taken(t, i) ==
    \/ \E q \in pending : q.idx = i /\ onchain[t].at + TxTolerance <= q.expires + PendingKeep
    \/ now > onchain[t].at + TxTolerance

\* The address of p was paid for p's client, or before p could have been.
PaidFor(t, p) ==
    onchain[t].timely /\ p.idx \in onchain[t].to =>
        p.client \in onchain[t].payees \/ p.created > onchain[t].at + TxTolerance

ForPayee(r) ==
    r.pc = "credit" /\ onchain[r.tx].timely => r.client \in onchain[r.tx].payees

Rightful ==
    revokes = 0 =>
        /\ \A s \in shown : StillThere(s)
        /\ \A s \in shown : \A p \in Seen : Apart(s, p)
        /\ \A t \in Tx : onchain[t].timely => \A i \in onchain[t].to : Taken(t, i)
        /\ \A t \in Tx : \A p \in Seen : PaidFor(t, p)
        /\ \A w \in Worker : ForPayee(request[w])
        /\ \A t \in Tx : onchain[t].timely => Beneficiaries(t) \subseteq onchain[t].payees

\* What a transfer is when it has just been sent.
LEMMA SendSent ==
    ASSUME TypeOK, NEW t \in Tx, Send(t)
    PROVE  \E to \in SUBSET shown :
               /\ onchain'[t].to = {p.idx : p \in to}
               /\ onchain'[t].payees = {p.client : p \in to}
               /\ onchain'[t].timely => \A p \in to : Timely(p)
               /\ onchain'[t].at = now
               /\ now' = now /\ pending' = pending /\ request' = request /\ shown' = shown
<1>1. PICK to \in SUBSET shown : onchain' = [onchain EXCEPT ![t] = Transfer(to)]
  BY DEF Send
<1>2. onchain'[t] = Transfer(to)
  BY <1>1 DEF TypeOK
<1>3. now' = now /\ pending' = pending /\ request' = request /\ shown' = shown
  BY DEF Send
<1>4. /\ Transfer(to).to = {p.idx : p \in to} /\ Transfer(to).at = now
      /\ Transfer(to).payees = {p.client : p \in to}
  BY DEF Transfer
<1>5. Transfer(to).timely = \A p \in to : Timely(p)
  BY Zenon DEF Transfer
<1>6. QED
  BY <1>2, <1>3, <1>4, <1>5

\* An open row is in the table after any step but a cleanup or a revocation.
LEMMA StepKeepsRows ==
    ASSUME TypeOK, [Next]_vars, \A c \in Client : ~Revoke(c), NEW q \in pending
    PROVE  \/ \E p \in pending' : SameInvoice(p, q)
           \/ now' = now /\ ~(q.expires >= now - PendingKeep)
<1>1. \A s : \A rows \in SUBSET Invoice : q \in rows =>
          \E p \in WithStatus(rows, s) : SameInvoice(p, q)
  <2>1. ASSUME NEW s, NEW rows \in SUBSET Invoice, q \in rows
        PROVE  \E p \in WithStatus(rows, s) : SameInvoice(p, q)
    <3>1. [q EXCEPT !.status = s] \in WithStatus(rows, s)
      BY <2>1 DEF WithStatus
    <3>2. q \in Invoice
      BY DEF TypeOK
    <3>3. SameInvoice([q EXCEPT !.status = s], q)
      BY <3>2 DEF SameInvoice
    <3>4. QED
      BY <3>1, <3>3
  <2>2. QED
    BY <2>1
<1>2. SameInvoice(q, q)
  BY DEF SameInvoice
<1>3. ASSUME NEW c \in Client, NEW ch \in Chain, NEW ti \in Tier, CreateInvoice(c, ch, ti)
      PROVE  \E p \in pending' : SameInvoice(p, q)
  <2>1. Stale(c, ch, ti) \in SUBSET Invoice
    BY DEF Stale, Of, TypeOK
  <2>2. \E p \in Swept(c, ch, ti) : SameInvoice(p, q)
    BY <1>1, <1>2, <2>1 DEF Swept
  <2>3. QED
    BY <1>3, <2>2 DEF CreateInvoice
<1>4. ASSUME NEW w \in Worker, Credit(w) PROVE \E p \in pending' : SameInvoice(p, q)
  <2> DEFINE r == request[w]
             mine == {x \in pending : /\ x.client = r.client /\ x.chain = r.chain
                                      /\ x.idx = r.idx /\ x.status = "pending"}
  <2>1. pending' = (pending \ mine) \cup WithStatus(mine, "paid")
    BY <1>4 DEF Credit
  <2>2. mine \in SUBSET Invoice
    BY DEF TypeOK
  <2> HIDE DEF mine
  <2>3. QED
    BY <1>1, <1>2, <2>1, <2>2
<1>5. CASE \/ \E c \in Client, ch \in Chain, ti \in Tier : CreateInvoice(c, ch, ti)
           \/ \E w \in Worker : Credit(w)
  BY <1>3, <1>4, <1>5
<1>6. CASE pending' = pending
  BY <1>2, <1>6
<1>7. CASE pending' = KeptPending /\ now' = now
  BY <1>2, <1>7 DEF KeptPending
<1>8. CASE \/ \E w \in Worker, c \in Client, ch \in Chain : CheckBegin(w, c, ch)
           \/ \E w \in Worker : ListInvoices(w) \/ VerifyOk(w) \/ VerifyNone(w)
           \/ \E w \in Worker : CreditAgain(w) \/ WorkerCrash(w)
  BY <1>6, <1>8 DEF CheckBegin, ListInvoices, VerifyOk, VerifyNone, CreditAgain, WorkerCrash
<1>9. CASE \/ \E c \in Client : GainAccess(c) \/ LoseAccess(c)
           \/ \E t \in Tx : Send(t)
           \/ Tick \/ UNCHANGED vars
  BY <1>6, <1>9 DEF Send, GainAccess, LoseAccess, Tick
<1>10. CASE Restart \/ Cleanup
  BY <1>7, <1>10 DEF Restart, Cleanup
<1>11. QED
  BY <1>5, <1>8, <1>9, <1>10 DEF Next

\* What clients have been shown grows by the invoices that are created.
LEMMA StepShown ==
    ASSUME TypeOK, [Next]_vars
    PROVE  \/ shown' = shown
           \/ \E c \in Client, ch \in Chain, ti \in Tier :
                  /\ CreateInvoice(c, ch, ti)
                  /\ shown' = shown \cup {NewInvoice(c, ch, ti)}
                  /\ NewInvoice(c, ch, ti) \in pending'
<1>1. CASE \E c \in Client, ch \in Chain, ti \in Tier : CreateInvoice(c, ch, ti)
  BY <1>1 DEF CreateInvoice
<1>2. CASE \/ \E w \in Worker, c \in Client, ch \in Chain : CheckBegin(w, c, ch)
           \/ \E w \in Worker : ListInvoices(w) \/ VerifyOk(w) \/ VerifyNone(w)
           \/ \E w \in Worker : Credit(w) \/ CreditAgain(w) \/ WorkerCrash(w)
  BY <1>2 DEF CheckBegin, ListInvoices, VerifyOk, VerifyNone, Credit, CreditAgain, WorkerCrash
<1>3. CASE \/ \E c \in Client : GainAccess(c) \/ LoseAccess(c) \/ Revoke(c)
           \/ \E t \in Tx : Send(t)
           \/ Restart \/ Cleanup \/ Tick \/ UNCHANGED vars
  BY <1>3 DEF Send, GainAccess, LoseAccess, Tick, Restart, Cleanup, Revoke
<1>4. QED
  BY <1>1, <1>2, <1>3 DEF Next

LEMMA StepStillThere ==
    ASSUME TypeOK, [Next]_vars, \A c \in Client : ~Revoke(c),
           \A x \in shown : StillThere(x), NEW s \in shown'
    PROVE  StillThere(s)'
<1>1. \A q : SameInvoice(q, q)
  BY DEF SameInvoice
<1>2. CASE s \in shown
  <2>1. now \in Nat /\ now' \in Nat /\ s.expires + PendingKeep \in Nat
    <3>1. s \in Invoice /\ PendingKeep \in Nat
      BY <1>2, LedgerAssumption DEF TypeOK
    <3>2. s.expires \in Nat
      BY <3>1
    <3>3. now \in Nat /\ now' \in Nat
      BY StepClock
    <3>4. QED
      BY <3>1, <3>2, <3>3
  <2>2. CASE now > s.expires + PendingKeep
    <3>1. now <= now'
      BY StepClock
    <3>2. QED
      BY <2>1, <2>2, <3>1 DEF StillThere
  <2>3. CASE \E q \in pending : SameInvoice(q, s)
    <3>1. PICK q \in pending : SameInvoice(q, s)
      BY <2>3
    <3>2. CASE \E p \in pending' : SameInvoice(p, q)
      BY <3>1, <3>2 DEF StillThere, SameInvoice
    <3>3. CASE now' = now /\ ~(q.expires >= now - PendingKeep)
      <4>1. q.expires = s.expires /\ q.expires \in Nat /\ PendingKeep \in Nat
        BY <3>1, LedgerAssumption DEF SameInvoice, TypeOK
      <4>2. now' > s.expires + PendingKeep
        BY <2>1, <3>3, <4>1
      <4>3. QED
        BY <4>2 DEF StillThere
    <3>4. QED
      BY <3>2, <3>3, StepKeepsRows
  <2>4. QED
    BY <1>2, <2>2, <2>3 DEF StillThere
<1>3. CASE s \in pending'
  BY <1>1, <1>3 DEF StillThere
<1>4. QED
  BY <1>2, <1>3, StepShown

LEMMA StepApart ==
    ASSUME TypeOK, CounterAhead, [Next]_vars,
           \A x \in shown : StillThere(x),
           \A x \in shown : \A q \in Seen : Apart(x, q),
           NEW s \in shown', NEW p \in Seen'
    PROVE  Apart(s, p)
<1>1. \A q \in Seen : q.idx # nextIndex
  BY SeenTypes
<1>2. CASE s \in shown /\ \E q \in Seen : SameInvoice(p, q)
  BY <1>2 DEF Apart, SameInvoice
<1>3. CASE \E c \in Client, ch \in Chain, ti \in Tier :
              s \in shown /\ p = NewInvoice(c, ch, ti)
  <2>1. p.idx = nextIndex /\ p.created = now
    BY <1>3 DEF NewInvoice
  <2>2. ASSUME p.idx = s.idx PROVE p.created > s.expires + PendingKeep
    <3>1. ~\E q \in pending : SameInvoice(q, s)
      BY <1>1, <2>1, <2>2 DEF Seen, SameInvoice
    <3>2. QED
      BY <1>3, <2>1, <3>1 DEF StillThere
  <2>3. QED
    BY <2>2 DEF Apart
<1>4. CASE \E c \in Client, ch \in Chain, ti \in Tier :
              /\ s = NewInvoice(c, ch, ti)
              /\ p = NewInvoice(c, ch, ti) \/ \E q \in Seen : SameInvoice(p, q)
  <2>1. s.idx = nextIndex
    BY <1>4 DEF NewInvoice
  <2>2. CASE p = s
    BY <2>2 DEF Apart
  <2>3. CASE \E q \in Seen : SameInvoice(p, q)
    BY <1>1, <2>1, <2>3 DEF Apart, SameInvoice
  <2>4. QED
    BY <1>4, <2>2, <2>3
<1>5. QED
  <2>1. CASE \A x \in Seen' : \E q \in Seen : SameInvoice(x, q)
    BY <1>2, <1>4, <2>1, StepShown
  <2>2. CASE \E c \in Client, ch \in Chain, ti \in Tier :
                /\ CreateInvoice(c, ch, ti)
                /\ \A x \in Seen' :
                      x = NewInvoice(c, ch, ti) \/ \E q \in Seen : SameInvoice(x, q)
    <3>1. PICK c \in Client, ch \in Chain, ti \in Tier :
                /\ CreateInvoice(c, ch, ti)
                /\ \A x \in Seen' :
                      x = NewInvoice(c, ch, ti) \/ \E q \in Seen : SameInvoice(x, q)
      BY <2>2
    <3>2. shown' = shown \cup {NewInvoice(c, ch, ti)}
      BY <3>1 DEF CreateInvoice
    <3>3. p = NewInvoice(c, ch, ti) \/ \E q \in Seen : SameInvoice(p, q)
      BY <3>1
    <3>4. QED
      BY <1>2, <1>3, <1>4, <3>2, <3>3
  <2>3. QED
    BY <2>1, <2>2, StepSeen

LEMMA StepTaken ==
    ASSUME TypeOK, [Next]_vars, \A c \in Client : ~Revoke(c),
           \A s \in shown : StillThere(s), NEW t \in Tx,
           onchain[t].timely => \A i \in onchain[t].to : Taken(t, i),
           onchain'[t].timely, NEW i \in onchain'[t].to
    PROVE  Taken(t, i)'
<1>1. /\ now \in Nat /\ now' \in Nat /\ now <= now' /\ PendingKeep \in Nat
      /\ onchain[t].at \in Nat /\ TxTolerance \in Nat
  BY StepTransfers, LedgerAssumption DEF TypeOK
<1>2. CASE onchain'[t] = onchain[t]
  <2>1. Taken(t, i)
    BY <1>2
  <2>2. CASE now > onchain[t].at + TxTolerance
    BY <1>1, <1>2, <2>2 DEF Taken
  <2>3. CASE \E q \in pending :
                q.idx = i /\ onchain[t].at + TxTolerance <= q.expires + PendingKeep
    <3>1. PICK q \in pending :
                q.idx = i /\ onchain[t].at + TxTolerance <= q.expires + PendingKeep
      BY <2>3
    <3>2. q.expires \in Nat
      BY DEF TypeOK
    <3>3. CASE \E p \in pending' : SameInvoice(p, q)
      BY <1>2, <3>1, <3>3 DEF Taken, SameInvoice
    <3>4. CASE now' = now /\ ~(q.expires >= now - PendingKeep)
      <4>1. now' > onchain[t].at + TxTolerance
        BY <1>1, <3>1, <3>2, <3>4
      <4>2. QED
        BY <1>2, <4>1 DEF Taken
    <3>5. QED
      BY <3>3, <3>4, StepKeepsRows
  <2>4. QED
    BY <2>1, <2>2, <2>3 DEF Taken
<1>3. CASE Send(t)
  <2>1. PICK to \in SUBSET shown :
               /\ onchain'[t].to = {p.idx : p \in to}
               /\ onchain'[t].timely => \A p \in to : Timely(p)
               /\ onchain'[t].at = now /\ pending' = pending
    BY <1>3, SendSent
  <2>2. PICK s \in to : s.idx = i
    BY <2>1
  <2>3. s \in shown /\ now + TxTolerance <= s.expires + PendingKeep /\ s.expires \in Nat
    BY <2>1, <2>2 DEF Timely, TypeOK
  <2>4. \E q \in pending : SameInvoice(q, s)
    BY <1>1, <2>3 DEF StillThere
  <2>5. QED
    BY <2>1, <2>2, <2>3, <2>4 DEF Taken, SameInvoice
<1>4. QED
  BY <1>2, <1>3, StepTransfers

LEMMA StepPaidFor ==
    ASSUME TypeOK, CounterAhead, [Next]_vars, NEW t \in Tx,
           onchain[t].timely => \A i \in onchain[t].to : Taken(t, i),
           \A s \in shown : \A q \in Seen : Apart(s, q),
           \A q \in Seen : PaidFor(t, q),
           NEW p \in Seen'
    PROVE  PaidFor(t, p)'
<1>1. /\ now \in Nat /\ PendingKeep \in Nat /\ TxTolerance \in Nat /\ onchain[t].at \in Nat
  BY LedgerAssumption DEF TypeOK
<1>2. CASE onchain'[t] = onchain[t]
  <2>1. CASE \E q \in Seen : SameInvoice(p, q)
    BY <1>2, <2>1 DEF SameInvoice, PaidFor
  <2>2. CASE \E c \in Client, ch \in Chain, ti \in Tier :
                 CreateInvoice(c, ch, ti) /\ p = NewInvoice(c, ch, ti)
    <3>1. p.idx = nextIndex /\ p.created = now
      BY <2>2 DEF NewInvoice
    <3>2. \A q \in pending : q.idx # nextIndex
      BY SeenTypes DEF Seen
    <3>3. onchain[t].timely /\ p.idx \in onchain[t].to => now > onchain[t].at + TxTolerance
      BY <3>1, <3>2 DEF Taken
    <3>4. QED
      BY <1>2, <3>1, <3>3 DEF PaidFor
  <2>3. QED
    BY <2>1, <2>2, StepSeen
<1>3. CASE Send(t)
  <2>1. PICK to \in SUBSET shown :
               /\ onchain'[t].to = {q.idx : q \in to}
               /\ onchain'[t].payees = {q.client : q \in to}
               /\ onchain'[t].timely => \A q \in to : Timely(q)
               /\ onchain'[t].at = now
               /\ pending' = pending /\ request' = request
    BY <1>3, SendSent
  <2>2. p \in Seen /\ p.created \in Nat
    BY <2>1, SeenTypes DEF Seen, Listed
  <2>3. ASSUME onchain'[t].timely, p.idx \in onchain'[t].to
        PROVE  p.client \in onchain'[t].payees \/ p.created > onchain'[t].at + TxTolerance
    <3>1. PICK s \in to : s.idx = p.idx
      BY <2>1, <2>3
    <3>2. now + TxTolerance <= s.expires + PendingKeep /\ s.expires \in Nat
      BY <2>1, <2>3, <3>1 DEF Timely, TypeOK
    <3>3. p.client = s.client \/ p.created > s.expires + PendingKeep
      BY <2>2, <3>1 DEF Apart
    <3>4. s.client \in onchain'[t].payees
      BY <2>1
    <3>5. CASE p.client = s.client
      BY <3>4, <3>5
    <3>6. CASE p.created > s.expires + PendingKeep
      BY <1>1, <2>1, <2>2, <3>2, <3>6
    <3>7. QED
      BY <3>3, <3>5, <3>6
  <2>4. QED
    BY <2>3 DEF PaidFor
<1>4. QED
  BY <1>2, <1>3, StepTransfers

\* A request that has found a transfer has found one that paid its client.
LEMMA StepFound ==
    ASSUME Traced, TypeOK', [Next]_vars, NEW w \in Worker,
           \A t \in Tx : \A p \in Seen : PaidFor(t, p), ForPayee(request[w])
    PROVE  ForPayee(request[w])'
<1> DEFINE r == request[w]
           s == request'[w]
<1> SUFFICES ASSUME s.pc = "credit", onchain'[s.tx].timely
             PROVE  s.client \in onchain'[s.tx].payees
  BY DEF ForPayee
<1>1. TypeOK /\ RequestTraced(r)
  BY DEF Traced
<1>2. s.tx \in Tx /\ (r.pc = "credit" => r.tx \in Tx)
  BY <1>1, RequestPhases DEF TypeOK
<1>3. CASE s = r
  <2>1. onchain[r.tx].to # {}
    BY <1>1, <1>3 DEF RequestTraced, Owed
  <2>2. onchain'[r.tx] = onchain[r.tx]
    BY <1>1, <1>2, <1>3, <2>1, SentStays
  <2>3. QED
    BY <1>3, <2>2 DEF ForPayee
<1>4. CASE /\ r.pc = "verify" /\ s.pc = "credit"
           /\ s.client = r.client /\ s.chain = r.chain /\ s.since = r.since
           /\ \E p \in r.todo : s.idx = p.idx /\ Matches(s.tx, p)
  <2>1. PICK p \in r.todo : s.idx = p.idx /\ Matches(s.tx, p)
    BY <1>4
  <2>2. p \in Seen /\ p.client = r.client
    BY <1>1, <1>4 DEF RequestTraced, Seen, Listed
  <2>3. p.created \in Nat /\ TxTolerance \in Nat /\ onchain[s.tx].at \in Nat
    BY <1>1, <1>2, <2>2, SeenTypes, LedgerAssumption DEF TypeOK, Traced
  <2>4. p.idx \in onchain[s.tx].to /\ onchain[s.tx].at >= p.created - TxTolerance
    BY <2>1 DEF Matches
  <2>5. PaidFor(s.tx, p)
    BY <1>2, <2>2
  <2>6. ~(p.created > onchain[s.tx].at + TxTolerance)
    BY <2>3, <2>4
  <2>7. onchain'[s.tx] = onchain[s.tx]
    BY <1>1, <1>2, <2>4, SentStays
  <2>8. p.client \in onchain[s.tx].payees
    BY <2>4, <2>5, <2>6, <2>7 DEF PaidFor
  <2>9. QED
    BY <1>4, <2>2, <2>7, <2>8
<1>5. QED
  BY <1>3, <1>4, StepMoves, <1>1 DEF RequestMoves

LEMMA StepRightful ==
    ASSUME Traced, Traced', Rightful, [Next]_vars
    PROVE  Rightful'
<1> SUFFICES ASSUME revokes' = 0
             PROVE  /\ \A s \in shown' : StillThere(s)'
                    /\ \A s \in shown' : \A p \in Seen' : Apart(s, p)
                    /\ \A t \in Tx : onchain'[t].timely =>
                           \A i \in onchain'[t].to : Taken(t, i)'
                    /\ \A t \in Tx : \A p \in Seen' : PaidFor(t, p)'
                    /\ \A w \in Worker : ForPayee(request[w])'
                    /\ \A t \in Tx : onchain'[t].timely =>
                           Beneficiaries(t)' \subseteq onchain'[t].payees
  BY DEF Rightful, Apart
<1>1. TypeOK /\ CounterAhead /\ InvoicesTraced /\ TypeOK'
  BY DEF Traced
<1>2. revokes = 0 /\ \A c \in Client : ~Revoke(c)
  BY <1>1, StepRevokes
<1>3. /\ \A s \in shown : StillThere(s)
      /\ \A s \in shown : \A p \in Seen : Apart(s, p)
      /\ \A t \in Tx : onchain[t].timely => \A i \in onchain[t].to : Taken(t, i)
      /\ \A t \in Tx : \A p \in Seen : PaidFor(t, p)
      /\ \A w \in Worker : ForPayee(request[w])
      /\ \A t \in Tx : onchain[t].timely => Beneficiaries(t) \subseteq onchain[t].payees
  BY <1>2 DEF Rightful
<1>4. ASSUME NEW s \in shown' PROVE StillThere(s)'
  BY <1>1, <1>2, <1>3, StepStillThere
<1>5. ASSUME NEW s \in shown', NEW p \in Seen' PROVE Apart(s, p)
  BY <1>1, <1>3, StepApart
<1>6. ASSUME NEW t \in Tx, onchain'[t].timely, NEW i \in onchain'[t].to PROVE Taken(t, i)'
  <2>1. onchain[t].timely => \A j \in onchain[t].to : Taken(t, j)
    BY <1>3
  <2>2. QED
    BY <1>1, <1>2, <1>3, <1>6, <2>1, StepTaken
<1>7. ASSUME NEW t \in Tx, NEW p \in Seen' PROVE PaidFor(t, p)'
  <2>1. /\ onchain[t].timely => \A j \in onchain[t].to : Taken(t, j)
        /\ \A q \in Seen : PaidFor(t, q)
    BY <1>3
  <2>2. QED
    BY <1>1, <1>3, <2>1, StepPaidFor
<1>8. ASSUME NEW w \in Worker PROVE ForPayee(request[w])'
  BY <1>1, <1>3, StepFound
<1>9. ASSUME NEW t \in Tx, onchain'[t].timely, NEW c \in Beneficiaries(t)'
      PROVE  c \in onchain'[t].payees
  <2>1. CASE c \in Beneficiaries(t)
    <3>1. onchain[t] # Unsent
      BY <1>3, <2>1 DEF Unsent
    <3>2. onchain'[t] = onchain[t]
      BY <1>1, <3>1, StepTransfers
    <3>3. QED
      BY <1>3, <1>9, <2>1, <3>2
  <2>2. CASE \E w \in Worker : Credit(w) /\ request[w].tx = t /\ c = request[w].client
    <3>1. PICK w \in Worker : Credit(w) /\ request[w].tx = t /\ c = request[w].client
      BY <2>2
    <3>2. request[w].pc = "credit" /\ onchain'[t] = onchain[t]
      BY <3>1 DEF Credit
    <3>3. QED
      BY <1>3, <1>9, <3>1, <3>2 DEF ForPayee
  <2>3. QED
    BY <1>1, <2>1, <2>2, StepBeneficiaries
<1>10. QED
  BY <1>4, <1>5, <1>6, <1>7, <1>8, <1>9

\* Until PENDING_CLEANUP_DAYS, less the tolerance on time stamps, after its invoice
\* was over, a transfer is credited only to clients it was meant for: an address
\* that a restart gives to another client after a cleanup cannot make that client
\* its beneficiary (db.py:188-197, 226-231, verification.py:77-89).
THEOREM CreditedToPayeeHolds == Spec => []CreditedToPayee
<1>1. Init => Traced /\ Rightful
  <2> SUFFICES ASSUME Init PROVE Traced /\ Rightful
    OBVIOUS
  <2>1. Seen = {} /\ shown = {}
    BY DEF Init, Seen, Listed, NoRequest
  <2>2. Rightful
    BY <2>1 DEF Init, Rightful, Unsent, NoRequest, Beneficiaries, ForPayee
  <2>3. QED
    BY <2>2, InitTraced
<1>2. Traced /\ Rightful /\ [Next]_vars => Traced' /\ Rightful'
  BY StepTraced, StepRightful
<1>3. Traced /\ Rightful => CreditedToPayee
  BY DEF Rightful, CreditedToPayee
<1>4. QED
  BY <1>1, <1>2, <1>3, PTL DEF Spec
=============================================================================
