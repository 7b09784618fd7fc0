---------------------------- MODULE LedgerProofs ----------------------------
(***************************************************************************)
(* The counter of derivation indices stays ahead of every row and of every *)
(* request in flight, for all clients, workers, transactions and settings. *)
(* CounterAhead is inductive relative to TypeOK, and NeverCollides follows *)
(* from it in every state.                                                 *)
(***************************************************************************)
EXTENDS Ledger, TLAPS

USE DEF Invoice, Payment, tables, bounds, vars

\* A row keeps its type and its index when its status is rewritten
\* (db.py:393-401, 605-612).
LEMMA StatusType ==
    ASSUME NEW rows, rows \subseteq Invoice,
           NEW s \in {"pending", "paid", "expired"}
    PROVE  /\ WithStatus(rows, s) \subseteq Invoice
           /\ \A q \in WithStatus(rows, s) : \E p \in rows : q.idx = p.idx
           /\ \A q \in WithStatus(rows, s) : q.status = s
<1>1. ASSUME NEW p \in rows
      PROVE  LET q == [p EXCEPT !.status = s]
             IN  q \in Invoice /\ q.idx = p.idx /\ q.status = s
  <2>1. p \in Invoice
    OBVIOUS
  <2> QED BY <2>1
<1> QED BY <1>1 DEF WithStatus

\* A worker that goes idle, or on to a well-typed request, leaves the others.
LEMMA BecomeType ==
    ASSUME NEW w \in Worker, NEW r \in Requests,
           request \in [Worker -> Requests], Become(w, r)
    PROVE  /\ request' \in [Worker -> Requests]
           /\ request'[w] = r
           /\ \A v \in Worker : v # w => request'[v] = request[v]
BY DEF Become

\* The idle request is a request, and is neither verifying nor crediting.
LEMMA IdleRequest ==
    NoRequest \in Requests /\ NoRequest.pc # "verify" /\ NoRequest.pc # "credit"
BY DEF NoRequest, Requests

\* What a worker in each phase of /api/check-payment holds (app.py:512-542).
LEMMA RequestPhases ==
    ASSUME NEW r \in Requests
    PROVE  /\ r.pc # "idle" => r.client \in Client /\ r.chain \in Chain /\ r.since \in Nat
           /\ r.pc = "verify" => r.todo \subseteq Invoice
           /\ r.pc = "credit" => r.idx \in Nat /\ r.tx \in Tx
           /\ r.pc = "verify" =>
                r = [pc |-> "verify", client |-> r.client, chain |-> r.chain,
                     since |-> r.since, todo |-> r.todo]
<1>1. CASE r = NoRequest
  BY <1>1 DEF NoRequest
<1>2. CASE r \in [pc : {"list"}, client : Client, chain : Chain, since : Nat]
  BY <1>2
<1>3. CASE r \in [pc : {"verify"}, client : Client, chain : Chain, since : Nat,
                  todo : SUBSET Invoice]
  <2>1. r.pc = "verify" /\ r.todo \subseteq Invoice
    BY <1>3
  <2> QED BY <1>3, <2>1
<1>4. CASE r \in [pc : {"credit"}, client : Client, chain : Chain, since : Nat,
                  idx : Nat, tx : Tx]
  BY <1>4
<1> QED BY <1>1, <1>2, <1>3, <1>4 DEF Requests

\* A verifying request that drops an invoice stays one (app.py:527-542).
LEMMA DropType ==
    ASSUME NEW r \in Requests, r.pc = "verify", NEW p
    PROVE  LET d == [r EXCEPT !.todo = @ \ {p}]
           IN  d \in Requests /\ d.pc = "verify" /\ d.todo \subseteq r.todo
<1> DEFINE d == [r EXCEPT !.todo = @ \ {p}]
<1>1. /\ r = [pc |-> "verify", client |-> r.client, chain |-> r.chain,
              since |-> r.since, todo |-> r.todo]
      /\ r.client \in Client /\ r.chain \in Chain /\ r.since \in Nat
      /\ r.todo \subseteq Invoice
  BY RequestPhases
<1>2. d = [pc |-> "verify", client |-> r.client, chain |-> r.chain,
           since |-> r.since, todo |-> r.todo \ {p}]
  BY <1>1
<1>3. r.todo \ {p} \in SUBSET Invoice
  BY <1>1
<1>4. QED
  BY <1>1, <1>2, <1>3 DEF Requests

\* What the sweep before an INSERT leaves: rows of the old table or their
\* expired versions (db.py:393-401).
LEMMA SweptRows ==
    ASSUME pending \subseteq Invoice, NEW c, NEW ch, NEW ti
    PROVE  /\ Swept(c, ch, ti) \subseteq Invoice
           /\ \A q \in Swept(c, ch, ti) : \E p \in pending : q.idx = p.idx
<1>1. Stale(c, ch, ti) \subseteq pending
  BY DEF Stale, Of
<1>2. QED
  BY <1>1, StatusType DEF Swept

\* The new row of an INSERT (db.py:419-429).
LEMMA NewInvoiceType ==
    ASSUME TypeOK, NEW c \in Client, NEW ch \in Chain, NEW ti \in Tier
    PROVE  NewInvoice(c, ch, ti) \in Invoice /\ NewInvoice(c, ch, ti).idx = nextIndex
<1>1. now + PendingDuration \in Nat
  BY LedgerAssumption DEF TypeOK
<1>2. QED
  BY <1>1 DEF NewInvoice, TypeOK
-----------------------------------------------------------------------------
\* The tables are empty at the start (db.py:112-235).
LEMMA InitTypeOK == Init => TypeOK
<1> SUFFICES ASSUME Init PROVE TypeOK
  OBVIOUS
<1>1. onchain \in [Tx -> [to : SUBSET Nat, at : Nat, payees : SUBSET Client,
                          timely : BOOLEAN]]
  BY DEF Init, Unsent
<1>2. request \in [Worker -> Requests]
  BY IdleRequest DEF Init
<1>3. QED
  BY <1>1, <1>2 DEF Init, TypeOK

\* Every action keeps the types.
LEMMA StepTypeOK == TypeOK /\ [Next]_vars => TypeOK'
<1> SUFFICES ASSUME TypeOK, [Next]_vars PROVE TypeOK'
  OBVIOUS
<1> USE LedgerAssumption
<1>1. ASSUME NEW c \in Client, NEW ch \in Chain, NEW ti \in Tier, CreateInvoice(c, ch, ti)
      PROVE  TypeOK'
  <2>1. pending' \subseteq Invoice /\ shown' \subseteq Invoice
    BY <1>1, SweptRows, NewInvoiceType DEF CreateInvoice, TypeOK
  <2>2. QED
    BY <1>1, <2>1 DEF CreateInvoice, TypeOK
<1>2. ASSUME NEW w \in Worker, NEW c \in Client, NEW ch \in Chain, CheckBegin(w, c, ch)
      PROVE  TypeOK'
  <2>1. [pc |-> "list", client |-> c, chain |-> ch, since |-> now] \in Requests
    BY DEF TypeOK, Requests
  <2>2. QED
    BY <1>2, <2>1, BecomeType DEF CheckBegin, TypeOK
<1>3. ASSUME NEW c \in Client, GainAccess(c) \/ LoseAccess(c) \/ Revoke(c)
      PROVE  TypeOK'
  BY <1>3 DEF GainAccess, LoseAccess, Revoke, TypeOK
<1>4. ASSUME NEW t \in Tx, Send(t)
      PROVE  TypeOK'
  <2>1. PICK to \in SUBSET shown : onchain' = [onchain EXCEPT ![t] = Transfer(to)]
    BY <1>4 DEF Send
  <2>2. Transfer(to) \in [to : SUBSET Nat, at : Nat, payees : SUBSET Client, timely : BOOLEAN]
    <3>1. \A p \in to : p.idx \in Nat /\ p.client \in Client
      BY DEF TypeOK
    <3>2. {p.idx : p \in to} \in SUBSET Nat /\ {p.client : p \in to} \in SUBSET Client
      BY <3>1
    <3>3. (\A p \in to : Timely(p)) \in BOOLEAN /\ now \in Nat
      BY DEF TypeOK
    <3> HIDE DEF TypeOK
    <3>4. QED
      BY <3>2, <3>3 DEF Transfer
  <2>3. onchain' \in [Tx -> [to : SUBSET Nat, at : Nat, payees : SUBSET Client,
                          timely : BOOLEAN]]
    BY <2>1, <2>2 DEF TypeOK
  <2>4. QED
    BY <1>4, <2>3 DEF Send, TypeOK
<1>5. ASSUME NEW w \in Worker, ListInvoices(w)
      PROVE  TypeOK'
  <2> DEFINE r == request[w]
             todo == LiveInvoices(r.client, r.chain)
             v == [pc |-> "verify", client |-> r.client, chain |-> r.chain,
                   since |-> r.since, todo |-> todo]
  <2>1. r \in Requests /\ r.pc = "list"
    BY <1>5 DEF ListInvoices, TypeOK
  <2>2. r.client \in Client /\ r.chain \in Chain /\ r.since \in Nat
    BY <2>1, RequestPhases
  <2>3. todo \in SUBSET Invoice
    BY DEF LiveInvoices, TypeOK
  <2>4. v \in Requests
    BY <2>2, <2>3 DEF Requests
  <2>5. request' \in [Worker -> Requests]
    BY <1>5, <2>4, IdleRequest, BecomeType DEF ListInvoices, TypeOK
  <2>6. QED
    BY <1>5, <2>5 DEF ListInvoices, TypeOK
<1>6. ASSUME NEW w \in Worker, VerifyOk(w)
      PROVE  TypeOK'
  <2> DEFINE r == request[w]
  <2>1. r \in Requests /\ r.pc = "verify"
    BY <1>6 DEF VerifyOk, TypeOK
  <2>2. r.client \in Client /\ r.chain \in Chain /\ r.since \in Nat /\ r.todo \subseteq Invoice
    BY <2>1, RequestPhases
  <2>3. PICK p \in r.todo, t \in Tx :
            Become(w, [pc |-> "credit", client |-> r.client, chain |-> r.chain,
                       since |-> r.since, idx |-> p.idx, tx |-> t])
    BY <1>6 DEF VerifyOk
  <2>4. p.idx \in Nat
    BY <2>2
  <2>5. [pc |-> "credit", client |-> r.client, chain |-> r.chain,
         since |-> r.since, idx |-> p.idx, tx |-> t] \in Requests
    BY <2>2, <2>4 DEF Requests
  <2>6. request' \in [Worker -> Requests]
    BY <2>3, <2>5, BecomeType DEF TypeOK
  <2>7. QED
    BY <1>6, <2>6 DEF VerifyOk, TypeOK
<1>7. ASSUME NEW w \in Worker, VerifyNone(w)
      PROVE  TypeOK'
  <2>1. request[w] \in Requests /\ request[w].pc = "verify"
    BY <1>7 DEF VerifyNone, TypeOK
  <2>2. PICK p \in request[w].todo :
            Become(w, IF request[w].todo = {p} THEN NoRequest
                      ELSE [request[w] EXCEPT !.todo = @ \ {p}])
    BY <1>7 DEF VerifyNone
  <2>3. [request[w] EXCEPT !.todo = @ \ {p}] \in Requests
    BY <2>1, DropType
  <2>4. request' \in [Worker -> Requests]
    BY <2>2, <2>3, IdleRequest, BecomeType DEF TypeOK
  <2>5. QED
    BY <1>7, <2>4 DEF VerifyNone, TypeOK
<1>8. ASSUME NEW w \in Worker, Credit(w)
      PROVE  TypeOK'
  <2> DEFINE r == request[w]
             mine == {p \in pending : /\ p.client = r.client /\ p.chain = r.chain
                                      /\ p.idx = r.idx /\ p.status = "pending"}
             m == [tx |-> r.tx, client |-> r.client, idx |-> r.idx,
                   expires |-> now + AccessDuration]
  <2>1. r \in Requests /\ r.pc = "credit"
    BY <1>8 DEF Credit, TypeOK
  <2>2. r.client \in Client /\ r.idx \in Nat /\ r.tx \in Tx
    BY <2>1, RequestPhases
  <2>3. now + AccessDuration \in Nat
    BY DEF TypeOK
  <2>4. payments' \subseteq Payment
    <3>1. m \in Payment
      BY <2>2, <2>3
    <3>2. payments' = payments \cup {m}
      BY <1>8 DEF Credit
    <3>3. QED
      BY <3>1, <3>2 DEF TypeOK
  <2>5. pending' \subseteq Invoice
    <3>1. mine \subseteq Invoice
      BY DEF TypeOK
    <3>2. WithStatus(mine, "paid") \subseteq Invoice
      BY <3>1, StatusType
    <3>3. pending' = (pending \ mine) \cup WithStatus(mine, "paid")
      BY <1>8 DEF Credit
    <3>4. QED
      BY <3>2, <3>3 DEF TypeOK
  <2>6. credited' \in [Tx -> Seq(Client)] /\ active' \subseteq Client
    BY <1>8, <2>2 DEF Credit, TypeOK
  <2>7. request' \in [Worker -> Requests]
    BY <1>8, IdleRequest, BecomeType DEF Credit, TypeOK
  <2>8. QED
    BY <1>8, <2>4, <2>5, <2>6, <2>7 DEF Credit, TypeOK
<1>9. ASSUME NEW w \in Worker, CreditAgain(w) \/ WorkerCrash(w)
      PROVE  TypeOK'
  <2>1. request' \in [Worker -> Requests]
    BY <1>9, IdleRequest, BecomeType DEF CreditAgain, WorkerCrash, TypeOK
  <2>2. QED
    BY <1>9, <2>1 DEF CreditAgain, WorkerCrash, TypeOK
<1>10. CASE Restart
  <2>1. request' \in [Worker -> Requests]
    BY <1>10, IdleRequest DEF Restart
  <2>2. pending' \subseteq pending /\ payments' \subseteq payments
    BY <1>10 DEF Restart, KeptPending, KeptPayments
  <2>3. nextIndex' \in Nat /\ restarts' \in Nat
    BY <1>10 DEF Restart, TypeOK
  <2>4. QED
    BY <1>10, <2>1, <2>2, <2>3 DEF Restart, TypeOK
<1>11. CASE Cleanup
  BY <1>11 DEF Cleanup, KeptPending, KeptPayments, TypeOK
<1>12. CASE Tick
  BY <1>12 DEF Tick, TypeOK
<1>13. CASE UNCHANGED vars
  BY <1>13 DEF TypeOK
<1>14. QED
  BY <1>1, <1>2, <1>3, <1>4, <1>5, <1>6, <1>7, <1>8, <1>9, <1>10, <1>11, <1>12, <1>13
  DEF Next

\* Every variable keeps its type, for every set of clients, workers and
\* transactions (db.py:112-243).
THEOREM TypeCorrect == Spec => []TypeOK
BY InitTypeOK, StepTypeOK, PTL DEF Spec
-----------------------------------------------------------------------------
\* What CounterAhead says of one request.
RequestBehind(r) ==
    /\ r.pc = "verify" => \A p \in r.todo : p.idx < nextIndex
    /\ r.pc = "credit" => r.idx < nextIndex

\* A worker that goes idle, or on to a request behind the counter, keeps every
\* request behind it as long as the counter does not move (app.py:512-542).
LEMMA RequestsBehind ==
    ASSUME TypeOK, CounterAhead, NEW w \in Worker, NEW r \in Requests,
           Become(w, r), RequestBehind(r), nextIndex' = nextIndex
    PROVE  \A v \in Worker : RequestBehind(request[v])'
<1>1. \A v \in Worker : RequestBehind(request[v])
  BY DEF CounterAhead, RequestBehind
<1>2. \A v \in Worker : request'[v] = r \/ request'[v] = request[v]
  BY BecomeType DEF TypeOK
<1>3. QED
  BY <1>1, <1>2 DEF RequestBehind

\* The counter starts at the first index.
LEMMA InitAhead == Init => CounterAhead
BY IdleRequest DEF Init, CounterAhead

\* Every action keeps the counter ahead: the INSERT moves it past the new row,
\* a restart recomputes it from every row, a request takes its indices from
\* rows that are behind it (db.py:188-197, 238-249; app.py:521-542).
LEMMA StepAhead == TypeOK /\ CounterAhead /\ [Next]_vars => CounterAhead'
<1> SUFFICES ASSUME TypeOK, CounterAhead, [Next]_vars PROVE CounterAhead'
  OBVIOUS
<1> DEFINE RowsAhead == \A p \in pending \cup payments : p.idx < nextIndex
<1>a. CounterAhead <=> RowsAhead /\ \A w \in Worker : RequestBehind(request[w])
  BY DEF CounterAhead, RequestBehind
<1>b. CounterAhead' <=> RowsAhead' /\ \A w \in Worker : RequestBehind(request[w])'
  BY DEF CounterAhead, RequestBehind
<1>c. ASSUME UNCHANGED <<nextIndex, request>>, pending' \subseteq pending, payments' \subseteq payments
      PROVE  CounterAhead'
  BY <1>a, <1>b, <1>c DEF RequestBehind
<1>d. ASSUME NEW w \in Worker, NEW r \in Requests, Become(w, r), RequestBehind(r),
             UNCHANGED tables
      PROVE  CounterAhead'
  BY <1>a, <1>b, <1>d, RequestsBehind
<1>e. RequestBehind(NoRequest)
  BY IdleRequest DEF RequestBehind
<1>1. ASSUME NEW c \in Client, NEW ch \in Chain, NEW ti \in Tier, CreateInvoice(c, ch, ti)
      PROVE  CounterAhead'
  <2>1. pending' = Swept(c, ch, ti) \cup {NewInvoice(c, ch, ti)}
        /\ nextIndex' = nextIndex + 1 /\ UNCHANGED <<payments, request>>
    BY <1>1 DEF CreateInvoice
  <2>2. \A q \in Swept(c, ch, ti) : q.idx < nextIndex
    BY <1>a, SweptRows DEF TypeOK
  <2>3. NewInvoice(c, ch, ti).idx = nextIndex
    BY NewInvoiceType
  <2>4. Swept(c, ch, ti) \subseteq Invoice /\ payments \subseteq Payment /\ nextIndex \in Nat
    BY SweptRows DEF TypeOK
  <2>5. \A q \in Swept(c, ch, ti) \cup payments : q.idx < nextIndex + 1
    BY <1>a, <2>2, <2>4
  <2>6. RowsAhead'
    BY <2>1, <2>3, <2>4, <2>5
  <2>7. ASSUME NEW v \in Worker
        PROVE  RequestBehind(request[v])'
    <3>1. request[v] \in Requests /\ request'[v] = request[v]
      BY <2>1 DEF TypeOK
    <3>2. /\ request[v].pc = "verify" => request[v].todo \subseteq Invoice
          /\ request[v].pc = "credit" => request[v].idx \in Nat
      BY <3>1, RequestPhases
    <3>3. RequestBehind(request[v])
      BY <1>a
    <3>4. QED
      BY <2>1, <2>4, <3>1, <3>2, <3>3 DEF RequestBehind
  <2>8. QED
    BY <1>b, <2>6, <2>7
<1>2. ASSUME NEW w \in Worker, NEW c \in Client, NEW ch \in Chain, CheckBegin(w, c, ch)
      PROVE  CounterAhead'
  <2> DEFINE r == [pc |-> "list", client |-> c, chain |-> ch, since |-> now]
  <2>1. r \in Requests /\ RequestBehind(r)
    BY DEF TypeOK, Requests, RequestBehind
  <2>2. Become(w, r) /\ UNCHANGED tables
    BY <1>2 DEF CheckBegin
  <2>3. QED
    BY <1>d, <2>1, <2>2
<1>3. ASSUME NEW c \in Client, GainAccess(c) \/ LoseAccess(c) \/ Revoke(c)
      PROVE  CounterAhead'
  BY <1>c, <1>3 DEF GainAccess, LoseAccess, Revoke
<1>4. ASSUME NEW t \in Tx, Send(t)
      PROVE  CounterAhead'
  BY <1>c, <1>4 DEF Send
<1>5. ASSUME NEW w \in Worker, ListInvoices(w)
      PROVE  CounterAhead'
  <2> DEFINE r == request[w]
             todo == LiveInvoices(r.client, r.chain)
             v == [pc |-> "verify", client |-> r.client, chain |-> r.chain,
                   since |-> r.since, todo |-> todo]
  <2>1. r \in Requests /\ r.pc = "list"
    BY <1>5 DEF ListInvoices, TypeOK
  <2>2. r.client \in Client /\ r.chain \in Chain /\ r.since \in Nat
    BY <2>1, RequestPhases
  <2>3. todo \in SUBSET Invoice /\ \A p \in todo : p.idx < nextIndex
    BY <1>a DEF LiveInvoices, TypeOK
  <2>4. v \in Requests
    BY <2>2, <2>3 DEF Requests
  <2>5. RequestBehind(v)
    BY <2>3 DEF RequestBehind
  <2>6. (Become(w, v) \/ Become(w, NoRequest)) /\ UNCHANGED tables
    BY <1>5 DEF ListInvoices
  <2>7. QED
    BY <1>d, <1>e, <2>4, <2>5, <2>6, IdleRequest
<1>6. ASSUME NEW w \in Worker, VerifyOk(w)
      PROVE  CounterAhead'
  <2> DEFINE r == request[w]
  <2>1. r \in Requests /\ r.pc = "verify"
    BY <1>6 DEF VerifyOk, TypeOK
  <2>2. r.client \in Client /\ r.chain \in Chain /\ r.since \in Nat /\ r.todo \subseteq Invoice
    BY <2>1, RequestPhases
  <2>3. PICK p \in r.todo, t \in Tx :
            Become(w, [pc |-> "credit", client |-> r.client, chain |-> r.chain,
                       since |-> r.since, idx |-> p.idx, tx |-> t])
    BY <1>6 DEF VerifyOk
  <2> DEFINE k == [pc |-> "credit", client |-> r.client, chain |-> r.chain,
                   since |-> r.since, idx |-> p.idx, tx |-> t]
  <2>4. p.idx \in Nat /\ p.idx < nextIndex
    BY <1>a, <2>1, <2>2 DEF RequestBehind
  <2>5. k \in Requests
    BY <2>2, <2>4 DEF Requests
  <2>6. RequestBehind(k)
    BY <2>4 DEF RequestBehind
  <2>7. Become(w, k) /\ UNCHANGED tables
    BY <1>6, <2>3 DEF VerifyOk
  <2>8. QED
    BY <1>d, <2>5, <2>6, <2>7
<1>7. ASSUME NEW w \in Worker, VerifyNone(w)
      PROVE  CounterAhead'
  <2>1. request[w] \in Requests /\ request[w].pc = "verify"
    BY <1>7 DEF VerifyNone, TypeOK
  <2>2. PICK p \in request[w].todo :
            Become(w, IF request[w].todo = {p} THEN NoRequest
                      ELSE [request[w] EXCEPT !.todo = @ \ {p}])
    BY <1>7 DEF VerifyNone
  <2> DEFINE d == [request[w] EXCEPT !.todo = @ \ {p}]
  <2>3. d \in Requests /\ d.pc = "verify" /\ d.todo \subseteq request[w].todo
    BY <2>1, DropType
  <2>4. RequestBehind(d)
    BY <1>a, <2>1, <2>3 DEF RequestBehind
  <2>5. (Become(w, d) \/ Become(w, NoRequest)) /\ UNCHANGED tables
    BY <1>7, <2>2 DEF VerifyNone
  <2>6. QED
    BY <1>d, <1>e, <2>3, <2>4, <2>5, IdleRequest
<1>8. ASSUME NEW w \in Worker, Credit(w)
      PROVE  CounterAhead'
  <2> DEFINE r == request[w]
             mine == {p \in pending : /\ p.client = r.client /\ p.chain = r.chain
                                      /\ p.idx = r.idx /\ p.status = "pending"}
             m == [tx |-> r.tx, client |-> r.client, idx |-> r.idx,
                   expires |-> now + AccessDuration]
  <2>1. /\ r.pc = "credit"
        /\ payments' = payments \cup {m}
        /\ pending' = (pending \ mine) \cup WithStatus(mine, "paid")
        /\ Become(w, NoRequest) /\ nextIndex' = nextIndex
    BY <1>8 DEF Credit
  <2>2. r.idx < nextIndex
    BY <1>a, <2>1 DEF RequestBehind
  <2>3. mine \subseteq Invoice /\ mine \subseteq pending
    BY DEF TypeOK
  <2>4. \A q \in WithStatus(mine, "paid") : q.idx < nextIndex
    BY <1>a, <2>3, StatusType
  <2>5. RowsAhead'
    BY <1>a, <2>1, <2>2, <2>4
  <2>6. \A v \in Worker : RequestBehind(request[v])'
    BY <1>e, <2>1, IdleRequest, RequestsBehind
  <2>7. QED
    BY <1>b, <2>5, <2>6
<1>9. ASSUME NEW w \in Worker, CreditAgain(w) \/ WorkerCrash(w)
      PROVE  CounterAhead'
  <2>1. Become(w, NoRequest) /\ UNCHANGED tables
    BY <1>9 DEF CreditAgain, WorkerCrash
  <2>2. QED
    BY <1>d, <1>e, <2>1, IdleRequest
<1>10. CASE Restart
  <2>1. PICK n \in 0..(IndexLimit + 1) : FirstFree(n) /\ nextIndex' = n
    BY <1>10 DEF Restart
  <2>2. pending' \subseteq pending /\ payments' \subseteq payments
    BY <1>10 DEF Restart, KeptPending, KeptPayments
  <2>3. RowsAhead'
    BY <2>1, <2>2 DEF FirstFree
  <2>4. \A v \in Worker : RequestBehind(request[v])'
    <3>1. \A v \in Worker : request'[v] = NoRequest
      BY <1>10 DEF Restart
    <3>2. QED
      BY <3>1, IdleRequest DEF RequestBehind
  <2>5. QED
    BY <1>b, <2>3, <2>4
<1>11. CASE Cleanup
  BY <1>c, <1>11 DEF Cleanup, KeptPending, KeptPayments
<1>12. CASE Tick
  BY <1>c, <1>12 DEF Tick
<1>13. CASE UNCHANGED vars
  BY <1>c, <1>13
<1>14. QED
  BY <1>1, <1>2, <1>3, <1>4, <1>5, <1>6, <1>7, <1>8, <1>9, <1>10, <1>11, <1>12, <1>13
  DEF Next

\* No row and no request in flight refers to the next index or to a later one,
\* whatever was deleted and recomputed before (db.py:188-197, 238-249).
THEOREM CounterAheadHolds == Spec => []CounterAhead
<1>1. Init => TypeOK /\ CounterAhead
  BY InitTypeOK, InitAhead
<1>2. TypeOK /\ CounterAhead /\ [Next]_vars => (TypeOK /\ CounterAhead)'
  BY StepTypeOK, StepAhead
<1>3. QED
  BY <1>1, <1>2, PTL DEF Spec

\* Where the counter is ahead, the swept table has no row that a new invoice
\* could collide with (db.py:161, 181-187, 393-429).
LEMMA AheadNeverCollides == TypeOK /\ CounterAhead => NeverCollides
<1> SUFFICES ASSUME TypeOK, CounterAhead, NEW c \in Client, NEW ch \in Chain, NEW ti \in Tier,
                    ~\E p \in Of(c, ch, ti) : Live(p)
             PROVE  ~Conflict(Swept(c, ch, ti), NewInvoice(c, ch, ti))
  BY DEF NeverCollides
<1> DEFINE new == NewInvoice(c, ch, ti)
<1>a. new.client = c /\ new.chain = ch /\ new.tier = ti
  BY DEF NewInvoice
<1> SUFFICES ASSUME NEW q \in Swept(c, ch, ti),
                    \/ q.idx = new.idx
                    \/ /\ q.status = "pending"
                       /\ q.client = c /\ q.chain = ch /\ q.tier = ti
             PROVE  FALSE
  BY <1>a DEF Conflict
<1>1. q.idx < nextIndex /\ q.idx \in Nat
  BY SweptRows DEF TypeOK, CounterAhead
<1>2. q.idx # new.idx
  BY <1>1, NewInvoiceType DEF TypeOK
<1>3. q.status = "pending" /\ q.client = c /\ q.chain = ch /\ q.tier = ti
  BY <1>2
<1>4. Stale(c, ch, ti) \subseteq pending /\ pending \subseteq Invoice
  BY DEF Stale, Of, TypeOK
<1>5. q \in pending \ Stale(c, ch, ti)
  BY <1>3, <1>4, StatusType DEF Swept
<1>6. q.expires \in Nat /\ now \in Nat
  BY <1>4, <1>5 DEF TypeOK
<1>7. q \in Of(c, ch, ti) /\ Live(q)
  BY <1>3, <1>5, <1>6 DEF Stale, Of, Live
<1>8. QED
  BY <1>7

\* The UNIQUE constraints of pending_payments never stop a page from getting an
\* invoice: the IntegrityError branch is dead (db.py:448-457).
THEOREM NeverCollidesHolds == Spec => []NeverCollides
BY TypeCorrect, CounterAheadHolds, AheadNeverCollides, PTL

\* Where nobody is revoked, an open invoice whose time is not over is neither
\* expired, replaced nor deleted by any page, request, cleanup or restart; it
\* can only become paid (db.py:226-235, 393-401; sync-auth.sh:175-179).
THEOREM OpenInvoiceKeptHolds ==
    ASSUME MaxRevokes = 0
    PROVE  Spec => OpenInvoiceKept
<1> DEFINE Kept == \A p \in pending : p.status = "pending" /\ p.expires > now' =>
                      p \in pending' \/ [p EXCEPT !.status = "paid"] \in pending'
<1>1. TypeOK /\ (revokes = 0) /\ [Next]_vars => Kept
  <2> SUFFICES ASSUME TypeOK, [Next]_vars, NEW p \in pending,
                      p.status = "pending", p.expires > now', revokes = 0
               PROVE  p \in pending' \/ [p EXCEPT !.status = "paid"] \in pending'
    OBVIOUS
  <2>a. p \in Invoice /\ p.expires \in Nat /\ now \in Nat
    BY DEF TypeOK
  <2>1. ASSUME NEW c \in Client, NEW ch \in Chain, NEW ti \in Tier, CreateInvoice(c, ch, ti)
        PROVE  p \in pending'
    BY <2>a, <2>1 DEF CreateInvoice, Swept, Stale
  <2>2. ASSUME NEW w \in Worker, Credit(w)
        PROVE  p \in pending' \/ [p EXCEPT !.status = "paid"] \in pending'
    BY <2>2 DEF Credit, WithStatus
  <2>3. CASE Restart \/ Cleanup
    <3>1. pending' = KeptPending /\ now' = now
      BY <2>3 DEF Restart, Cleanup
    <3>2. p.expires >= now - PendingKeep
      BY <2>a, <3>1, LedgerAssumption
    <3>3. QED
      BY <3>1, <3>2 DEF KeptPending
  <2>4. ASSUME NEW c \in Client, Revoke(c)
        PROVE  FALSE
    BY <2>4 DEF Revoke
  <2>5. CASE UNCHANGED pending
    BY <2>5
  <2>6. QED
    BY <2>1, <2>2, <2>3, <2>4, <2>5
    DEF Next, CheckBegin, GainAccess, LoseAccess, Send, ListInvoices, VerifyOk,
        VerifyNone, CreditAgain, WorkerCrash, Tick
<1>2. Init => revokes = 0
  BY DEF Init
<1>3. (revokes = 0) /\ [Next]_vars => (revokes = 0)'
  <2>1. ASSUME NEW c \in Client, Revoke(c)
        PROVE  revokes # 0
    BY <2>1 DEF Revoke
  <2>2. QED
    BY <2>1
    DEF Next, CreateInvoice, Credit, Restart, Cleanup, CheckBegin, GainAccess, LoseAccess,
        Send, ListInvoices, VerifyOk, VerifyNone, CreditAgain, WorkerCrash, Tick
<1>4. Kept => [Kept]_vars
  OBVIOUS
<1>5. QED
  BY <1>1, <1>2, <1>3, InitTypeOK, StepTypeOK, PTL DEF Spec, OpenInvoiceKept
=============================================================================
