# Captive portal: TLA+ models, checks and proofs

The repository is a Wi-Fi captive portal that sells network access for
cryptocurrency. A Flask application shows a payment page and records payments
in SQLite; a shell daemon copies the table of clients into the firewall's two
ipsets and the ipsets' byte counters back into the table; scripts set up the
access point. These modules model the parts that decide who has access, for how
long and for how many bytes, what a client has to pay, which transfers are found,
and who is credited for them.

## 1. The system

| Part | State it keeps | Operations | Talks to |
|---|---|---|---|
| clients table (`db.py`) | one row per address: status, `grace_until`, `paid_until`, quota, used bytes, last counter, grace count and time, reset request | `is_paid`, `activate_grace`, `mark_paid`, `revoke` | written by the portal, the page and the daemon |
| firewall daemon (`scripts/sync-auth.sh`) | the ipsets `paid_ips`, `grace_ips` and their byte counters; a snapshot of the table during a cycle | resets, charges, admissions, removals, cleanup of old rows | table, ipsets; restarted by systemd |
| welcome page (`app.py: index`) | a row read earlier in the request | expires a lapsed row, opens an invoice | table, invoices |
| ledger (`db.py`) | `pending_payments`, `payments`, `derivation_counter` | `get_or_create_pending_payment`, `get_active_pending_payments`, `mark_paid`, `init_db` | wallet (index to address) |
| check-payment (`app.py`) | per request: the list of invoices, the result found | verify each invoice, record the first match | ledger, verification |
| verification (`verification.py`) | a cache per worker | three explorer endpoints, up to three pages each, a matcher | explorer, prices |
| price service (`price_service.py`) | a cache per worker, times of failed fetches | `get_prices`, conversion | two price sources |
| payment page (`static/js/main.js`) | timer, delay, request in flight, redirect | polling with backoff, manual check, grace button, status poll, wallet dialogue | check-payment, `activate_grace` |
| chain registry (`chains.py`) | the chains file, read once | validation, fallback, lookup | page, verification |
| rate limiter (`app.py`) | one fixed window per address and worker | admit or refuse | - |
| access point (`scripts/*.sh`, `start-ap.sh`, `iptables.sh`) | chains, default policy, ipsets | start, stop | the daemon, the kernel |
| settings, wallet, pages, QR codes, probes, installation, backup | constants, or nothing | - | - |

What is hard here:

* **Nothing is locked across statements.** The page reads a row and overwrites
  its status in another transaction; the daemon works for a whole cycle from a
  snapshot and a clock value taken at its beginning; check-payment reads
  `is_paid`, then the invoices, then asks the explorer, and records the payment
  in a transaction of its own, in two workers at once.
* **Anything may stop.** The daemon runs under `set -e` and is restarted, the
  access point is restarted and loses its ipsets, gunicorn kills a worker that
  takes too long (30 s by default), the portal restarts and recomputes the index counter.
* **Counters go backwards.** An ipset counter starts at zero whenever a client
  is removed and added again, or the sets are recreated.
* **State is deleted.** Old invoices and payments, and revoked clients.
* **Sources are slow and fail.** Prices come from two services behind a cache with
  a back-off; transfers from three lists of a block explorer, page by page, within
  15 seconds for all of them; errors are cached like answers.
* **Several clocks run at once.** An invoice runs out, a session ends, an answer
  of the explorer goes stale, the browser's poll slows down; each is harmless
  alone, and a payment is lost when they line up.

The properties each part needs: a client is not granted more grace than the
limit in any window; stacking is bounded by the caps and never takes anything
away; bytes are charged at most once; a cycle leaves the ipsets as the table asks;
access ends; a session that is running is not ended; an invoice once shown stays
good; indices are fresh; a transfer is credited once, to the client whose
invoice it paid; an answer from a cache is not older than promised, and an outage
is forgotten; a good payment is found, for the quota of the tier that was paid
for; a payment in good time is credited, and its client is told.

## 2. Modules

| Module | Models | Depends on |
|---|---|---|
| `ClientTable` | the clients table, what every writer may do to a row | - |
| `SyncAuth` | portal, page, daemon, firewall, crashes | `Table == INSTANCE ClientTable` |
| `Ledger` | invoices, payments, index counter, check-payment | - |
| `FreshCache` | what a cache in front of a slow source promises | - |
| `PriceService` | prices: cache, back-off, fallback, eviction | `Fresh == INSTANCE FreshCache` |
| `Catalog` | chains file, tiers, tokens, conversion of amounts (operators only) | - |
| `Verification` | one worker's verification of payments, and its cache | `Catalog`, `Fresh == INSTANCE FreshCache` |
| `Checkout` | payment page, workers, grace and invoices that run out | - |
| `MC...` | small instances of the module named | that module |
| `ClientTableProofs`, `SyncAuthProofs`, `LedgerProofs`, `LedgerCreditProofs`, `PriceServiceProofs`, `CatalogProofs`, `CheckoutProofs`, `VerificationProofs` | theorems | the module named, `TLAPS` |

Two modules are abstract specifications. `ClientTable` is what all writers of the
table promise each other, and `SyncAuth` implements it. `FreshCache` is what the
callers of both caches rely on, and `PriceService` and `Verification` implement it.

**ClientTable.** A row is a record with the columns of the table; `reset` stands
for `reset_ipset_at > 0`, which is all the code looks at.
`GrantGrace`/`RefuseGrace` are the two outcomes of `activate_grace` (with the lapse
it notices committed on the way, and the row it creates), `MarkPaid` is the
`UPDATE` of `mark_paid` with its three caps, `Expire`, `Charge` and `AckReset` say
what the page and the daemon may do to a row, `Revoke` deletes it. `grants` is a
history variable: the times of grants.

**SyncAuth** refines it. `sync` holds the daemon's local variables: the phase,
`now` of the cycle (`at`), the snapshot (`rows`), the clients still to be
visited (`todo`), the one in hand (`cur`) and the counters read (`read`). One
cycle is `SyncBegin`, for each requested reset `ResetOut`, `ResetAdd`,
`ResetCommit`, then `Collect`, `ChargeOne` per member, `SyncSelect`, and `Admit`,
`Drop` per row. `SyncCrash` forgets the local variables anywhere in between;
`ApRestart` empties the ipsets. `IndexRead` and `IndexExpire` are the two
transactions of the welcome page. `Traffic` is a packet of a member, counted by the
rule that forwards it and, if it opens a connection, again by the rules for addresses,
which look at the same sets (`start-ap.sh:120-128`); `counted` is the sum of it all, so
that charging a packet twice because two rules count it is not what the properties forbid. `last` is the column
`last_ipset_bytes`. The property `TableSpec` is `Table!Spec`: every step of all
three parties is a step of `ClientTable` or leaves the table alone.

**Ledger** has one row per invoice; an address is identified with its index, as
derivation is injective. `CreateInvoice` is the transaction of
`get_or_create_pending_payment` (sweep of the lapsed row, UNIQUE constraints,
index, `INSERT`); loads that reuse a row change nothing. `request[w]` is what
worker `w` is doing: `CheckBegin`, `ListInvoices`, `VerifyOk`/`VerifyNone` for the
oldest invoice left, `Credit`/`CreditAgain`. A transaction on the chain pays a set
of addresses, on any chain, any that were ever `shown`: nothing stops a client from paying an
invoice late or twice. The explorer may show it late or never (`VerifyNone` is always
possible). `Restart` is `init_db` - once in the master, since gunicorn runs with
`--preload` - and kills the requests. `Cleanup` is the daemon's deletion of old rows.

**FreshCache** keeps, per key, an answer with its age. It may forget anything at any
time; it may ask the source for one key at a time; it answers with what the source
has just said (at most `MaxFetch` old) or with what it keeps (younger than
`MaxAge`); after storing, at most `MaxSize` live answers are kept.

**PriceService** keeps times as ages, so that the clock needs no bound: `entry` is
`_cache` with the age of each stamp, `order` the insertion order of the dictionary,
`backoff` what is left of `_empty_cache_expiry`, `fetch` the call under way. A hit is
`GetCached`, a miss `StartFetch` (which ends a back-off), then `AskCoinGecko`,
`FallBack`, `AskCoinMarketCap`; the end of `get_prices` is `Store`, whose `Victim` is
the key that both eviction rules choose. The refinement maps an entry past its time to live to
"nothing", and the age of an answer includes `lag`, how long its fetch had taken.

**Catalog** has operators only: the validation of the chains file and its fallback
(`LoadChains`), the lookup of a chain, tier and token, what the page asks for
(`PageQuote`) and what the verifier accepts (`Offer`, `Accepting`, `QuotaFor`). Both
use `ConvertUsd`; they differ in the decimals of a token that does not state them.

**Verification** is one worker, which handles one request at a time. `cache` and `order` are the
ordered dictionary of `_VerifyCache`: what is stored under each key, and the order in
which the keys were last used. `Look` is its `get`, which drops an entry that is too
old and makes a hit the newest; `Store` is its `set`, which evicts the `Oldest` when
the cache is full. `request` holds the local variables of
`verify_payment_on_chain`: endpoint, page, cursor, the time it has taken. `Check`
reads the prices and the cache, `ReadPage` looks at one page and ends with a match,
the next page, the next endpoint or "waiting"; `SkipEndpoint` is an endpoint for which less
than a second is left, `FailPage` an error, which ends the whole verification. A
client pays exactly what the page asks for at some prices that occur. One step of time is one block.

**Checkout** composes the browser's script with the workers, grace and one invoice per
chain. `page`, `timer`, `delay`, `flight` and `leaving` (the redirect that is set) are the
script's state, `work[w]` a request that a worker handles, possibly one whose answer is no
longer awaited. `Poll` is the timer, `Click` the button, `PayWithWallet` the wallet dialogue,
which starts the polling anew, `NotPaid`, `CheckFailed`, `Paid` what the script does with an
answer, `Leave` the redirect, `PollStatus` and `StatusFails` the success page, `Hide`/`Show`
the visibility handler, `Visit` another chain or another load. `Grace` is
`activate_grace`, for a client that is new or expired and whose cooldown is over; the page
polls on until it is reloaded, or learns of no grace at all. Check-payment takes
a step per transaction: `IsPaid`, `List`, the verification, of which `List` notes what the
invoice `had` when it began and `Verified` gives the answer, and `Record`. Between
them the session, the invoice and the transfer may change, and `Fail`, `ExplorerFails` (which
the page is told as "not paid") or the time limit may end the request. From `Verification` it
is taken that a transfer which had settled before the verification began is found once older
answers have expired, and so is a failure that was cached (`blind`). A client may pay any address it was
shown, from any page.

## 3. What TLC checks

| Run | Checks | Shows |
|---|---|---|
| `table` | `TypeOK`, `GraceWindow`, `CooldownRespected`, `StackingBounded`, `PaymentNeverTakesAway` | limits on grace hold in every window although only one counter and one time are kept; caps hold; payments take nothing away |
| `sync` | `TypeOK`, `NeverOvercharged`, `CycleSettles`, `TableSpec`, `CutOff` | with page, portal, traffic, a crash or restart in every order; access without entitlement ends |
| `sync_two` | `CycleSettles`, `UsedWasCounted`, `TableSpec` | two clients in one cycle, and revocations |
| `ledger` | `TypeOK`, `CounterAhead`, `NeverCollides`, `PaidByTransfer`, `OpenInvoiceKept`, `CreditedOnce` | two workers, two tiers, a transaction for one or both, in time or late, crashes, cleanup, restart |
| `ledger_two` | `CounterAhead`, `NeverCollides`, `CreditedToPayee` | two clients, reuse of an index, late transfers, revocation under a request |
| `prices` | `TypeOK`, `FreshSpec`, `RefreshSpaced`, `Recovery` | outages, fallback, back-off and eviction: answers are fresh, sources are spared, and an outage is forgotten |
| `verification` | `TypeOK`, `NotMissed`, `PaidAsCredited`, `FreshSpec`, `Detected` | transfers of two tokens by three routes while prices move and the explorer fails or is slow |
| `checkout` | `TypeOK`, `LostOnlyLate`, `Told` | graces, errors, slow, stale and lost answers, hidden pages, a change of chain: a payment is lost only if late or if nobody was looking, and a credited client is told |

Runs that TLC must find violated, each a disagreement with what the repository says:

| Run | Property | What happens |
|---|---|---|
| `page_overwrite` | `IndexExpiresOnlyLapsed` | the page reads a lapsed row, a payment is recorded, the page writes `expired` over it (`app.py:163-167`) |
| `paid_cap` | `PaymentAuthorizes` | quota is cumulative and capped, usage is not reset: at the cap a payment extends the time and adds no byte (`db.py:619-623`) |
| `unconfirmed` | `AcceptedConfirmed` | token transfers and internal transactions are accepted without any confirmation (`verification.py:247`, against `README.md:43`) |
| `price_lock` | `LockHonoured` | amounts are converted at the prices of the moment, the documented price lock is never read (`verification.py:187`, against `README.md:122-123`) |

Observations without a run:

* With `GRACE_MAX_PER_24H = 0` a client is still granted grace once a day, as the
  limit is only looked at when the counter is positive (`db.py:527`).
* A client whose row `revoke` deleted stays in its ipset, as the daemon visits rows
  only (`sync-auth.sh:117`).
* The daemon's `UPDATE` to `expired` compares only the status, and an extended
  session has the same one (`sync-auth.sh:158`, `14-18`).
* A session that starts between the reading of the counters and the charge pays for
  earlier bytes (`sync-auth.sh:106`).
* Cleanup and then a restart bring the index counter back, and addresses are handed
  out again (`db.py:188-197`). `CreditedToPayee` shows that transfers sent until
  `PENDING_CLEANUP_DAYS` (less the tolerance on time stamps) after their invoice ran out do
  not reach the new owner. Later ones do: the page still shows the old address
  (`app.py:181`), and the matcher has no upper bound on the time of a
  transfer (`verification.py:79-89`).
* One transaction that pays two invoices credits the first only (`db.py:592-603`);
  `MaxBatch` is 2 in the run `ledger`, so `CreditAgain` is also reached this way.
* A token that is not native and states no decimals is counted in 18 of them by the page
  and in 6 by the verifier (`app.py:200`, `verification.py:192`); the built-in chains
  state them.
* One chain whose `blockscout_api` is no text makes the whole chains file fall back to the
  built-in chains (`chains.py:141`, `165-167`), where any other fault skips that chain only.
* The native token of a chain is only found when it is called `ETH`
  (`verification.py:93`).
* The validation of the chains file does not look at `block_time`, `recommended` and
  `icon`, which the list of chains and the success page read (`chains.py:127`, `app.py:294`, `355`).
* The page that returns from `/success` is the one of the default chain
  (`main.js:316`), so a payment on another chain is not checked until the client
  chooses that chain again.
* A timer that fires while a manual check is in flight returns without setting the
  next one (`main.js:270`), and polling stops until the page is loaded or shown again.
* An answer is cached with the time its request began (`verification.py:261`): after
  a request that took `VERIFY_CACHE_SECONDS` it has expired when it is stored.
* `README.md:121` gives a price tolerance of 20 percent, `config.py:45` has 5.

### Bounds

* **ClientTable.** One client: no action relates two rows, and the theorems cover
  every set. A day is 6 units, cooldown 2, and the clock runs for 10, so that two
  grants fit in one window, a third must wait, and the window slides.
  `MaxGrants` bounds the history, `MaxOvershoot` the usage above the quota.
* **SyncAuth.** `MaxTraffic` 2 bytes reach the quota of a grace (1) and of a
  payment (2); one crash or restart anywhere; the clock advances twice, enough for
  a grace and a paid session to lapse and start again. Two clients are in
  `sync_two`, without the page and without time, as both concern a single row.
* **Ledger.** An invoice lives 2 units, is deleted after one more, payments after 3;
  the clock runs to 5, so that a restart can give an index away again. The ratios
  keep the order of the real settings: tolerance (5 min) below the invoice's
  life (1 h), below the deletion of invoices (7 d) and of payments (90 d).
  `IndexLimit` stands for 0x7FFFFFFF; reaching it fails the page. Revocation is
  absent from `ledger`, whose `OpenInvoiceKept` and `CreditedOnce` it breaks by
  intent, and present in `ledger_two`, where `CounterAhead` and `NeverCollides` hold
  in spite of it; `CreditedOnce` and `CreditedToPayee` speak of behaviours without one.
* **PriceService.** Three keys for a cache of two, so that every store may evict;
  time to live 3, back-off 2 and fetches of up to 1, so that a back-off ends
  before and after an entry; `MaxOutages` 2, so that both sources may be down at once or one twice.
  Time is not bounded.
* **Verification.** One address, two transfers, and pages of one item, of which two
  are read, so that a second page is needed. `Budget` 2 is enough for one endpoint to
  use up the others' time, `Ttl` 2 for an answer to outlive a block. Prices move
  by 4 percent, the tolerance is 5; with two tiers and an exact and an inexact
  token. `MaxTrouble` bounds errors and seconds of waiting. `MaxSize` 2 is not
  reached with one address, so the run does not exercise the eviction of the least
  recently used; the theorems about `Verification` cover it, for a cache and a set of
  addresses of any size. `unconfirmed` needs 3 confirmations as the code's default does; in
  `price_lock` the price moves by 10 percent.
* **Checkout.** Two chains, one worker (a request that is abandoned delays the
  next, which is the worse case; the theorem covers any number), a back-off of two steps, a
  check of up to 2 units, a grace of 1, which the daemon ends before time goes on (`Cycle` 0;
  the theorem covers any cycle), and one fault: an error, a slow or lost answer, a failure of the
  explorer, or a client that hides the page, reloads it or presses the button. An invoice lives 14 units and
  `Margin` is 13, so that a payment in good time exists, and the cooldown is 14; time is not
  bounded, so there are several graces and invoices.
  `Margin` is made of what can follow each other: the confirmations, an older cached answer, a check that
  began too early or the longest back-off (`CheckTime`), and one grace with the daemon's
  cycle, the status poll, the return and its first check (`DetourTime`). With the defaults it is
  about 6 and a half minutes and the confirmations, most of it the grace. With a cooldown of 0 TLC finds
  `LostOnlyLate` violated: graces in a row keep the page away for as long as they are
  granted.
* `NeverOvercharged` is checked without revocation: a row that is deleted and
  created again forgets the last counter, and its first charge may include
  bytes charged before. `UsedWasCounted`, checked with revocation, is what remains true: no
  row is charged more than was counted for its client.

Symmetry is declared on clients, or on workers and tiers, which `Ledger` tells apart by
their names only, and only in runs of safety properties.

### Fairness

* **SyncAuth:** weak fairness of the daemon's steps and of nothing else: no
  request, packet or tick has to happen. `sync-auth.sh` loops without a
  condition other than the stop signal, and the unit has `Restart=always`.
  Crashes are finitely many in the model: systemd gives up after
  5 starts in 60 s (`StartLimitBurst`), so a daemon that fails again and again does
  stop, and then access does not end. `CutOff` says that a client in an ipset without a running
  session leaves it or has a session again; it is not claimed for rows that
  `revoke` deleted. Packets of connections already established are accepted
  before the final drop (`start-ap.sh:108`) and are outside the model.
* **PriceService:** time passes, a source answers or times out (every request has a
  timeout), and whoever needs a key keeps asking, which is strong fairness of
  `GetPrices`, as a worker that is fetching for another key is not free. Sources need not
  recover: `Recovery` assumes in its statement that CoinGecko works for good.
* **Verification:** the same, with strong fairness of `Check`, since the payment page
  polls; `MaxTrouble` makes errors finitely many.
* **Checkout:** weak fairness of each step of the browser (timers, answers, redirects, the
  status poll), of the workers, of the daemon's expiry and of time; timers and gunicorn give
  these. Nothing is assumed of what the client does, nor of `Fail`, `ExplorerFails`,
  `LoseAnswer` and `StatusFails`, which `MaxFaults` makes finitely many. A hidden or stalled
  page polls nothing and is excepted in both properties.

## 4. What is proved

TLAPS checks these for every value of the constants that satisfies the assumption
of the module (`ConfigAssumption`, `SyncAssumption`, `LedgerAssumption`,
`PriceAssumption`, `VerificationAssumption`, `CheckoutAssumption`).

| Theorem | Statement | Assumes besides |
|---|---|---|
| `ClientTableProofs!TypeCorrect` | `Spec => []TypeOK` | |
| `GraceWindowHolds` | `Spec => []GraceWindow` | |
| `CooldownHolds` | `Spec => []CooldownRespected` | |
| `StackingHolds` | `Spec => []StackingBounded` | |
| `PaymentHolds` | `Spec => PaymentNeverTakesAway` | |
| `SyncAuthProofs!TypeCorrect` | `Spec => []TypeOK` | |
| `NeverOverchargedHolds` | `Spec => []NeverOvercharged` | `MaxRevokes = 0` |
| `CycleSettlesHolds` | `Spec => []CycleSettles` | `Worthwhile` |
| `UsedWasCountedHolds` | `Spec => []UsedWasCounted` | |
| `ImplementsTable` | `Spec => TableSpec` | the order of three bounds of the model |
| `LedgerProofs!TypeCorrect` | `Spec => []TypeOK` | |
| `CounterAheadHolds` | `Spec => []CounterAhead` | |
| `NeverCollidesHolds` | `Spec => []NeverCollides` | |
| `OpenInvoiceKeptHolds` | `Spec => OpenInvoiceKept` | `MaxRevokes = 0` |
| `LedgerCreditProofs!PaidByTransferHolds` | `Spec => []PaidByTransfer` | |
| `CreditedOnceHolds` | `Spec => []CreditedOnce` | `RemembersLongEnough` |
| `CreditedToPayeeHolds` | `Spec => []CreditedToPayee` | |
| `PriceServiceProofs!TypeCorrect` | `Spec => []TypeOK` | |
| `RefreshSpacedHolds` | `Spec => RefreshSpaced` | |
| `ImplementsFreshCache` | `Spec => FreshSpec` | |
| `CatalogProofs!PageHasTier` | a page always has a valid chain and one of its tiers | valid built-in chains |
| `QuotedAccepted`, `QuotedCredited` | the verifier takes what the page asks for, as the tier it was asked for | native token, or decimals stated (`CountedAlike`); tiers further apart than the tolerance (`Apart`, for `QuotedCredited`) |
| `VerificationProofs!TypeCorrect` | `Spec => []TypeOK` | |
| `NotMissedHolds` | `Spec => []NotMissed` | |
| `PaidAsCreditedHolds` | `Spec => []PaidAsCredited` | `SoldApart` |
| `ImplementsFreshCache` | `Spec => FreshSpec` | |
| `CheckoutProofs!TypeCorrect` | `Spec => []TypeOK` | |
| `LostOnlyLateHolds` | `Spec => LostOnlyLate` | `CooldownLong` |

The assumptions compare settings, and hold for the defaults:

* `Worthwhile`: nothing granted or sold is empty. `config.py` enforces minimums for
  `GRACE_QUOTA_BYTES`, `MAX_ACCESS_DURATION` and `MAX_QUOTA_BYTES`; that a tier sells
  at least a byte is not validated.
* `RemembersLongEnough`: `TxTolerance + PendingDuration + RequestTimeout <=
  AccessDuration + PaymentsKeep`, by default about an hour against 90 days; `config.py`
  does not enforce it.
* `SoldApart`: at any two prices that occur, the amount asked for one tier is not
  within the tolerance of a tier with another quota. It holds of the run's prices and
  fails when they move by more than the tiers are apart; prices are the market's, so
  no code can enforce it. The run `price_lock` shows the related case in which
  the amount is no longer that of any tier.
* `CooldownLong`: the cooldown between two graces is longer than `Margin`, by default an hour
  against some 7 minutes. `config.py:30-31` admits any cooldown, and then the theorem says
  nothing and the property is false.
* `PollMax >= PollInterval` is part of `CheckoutAssumption`, by default 30 s against 3 s;
  `app.py:231` only gives each a minimum of its own.
* In `ImplementsTable`, `MaxTraffic <= MaxCharge` and `MaxTraffic <= MaxOvershoot` only
  say that the two models' bounds fit each other.

**Grace.** `GraceWindow` speaks of the whole history, the row remembers a count and
one time. The inductive invariant `IInv` ties them for each row: the count `k` is
at most the number `n` of grants and at most the limit, the last time is the last
grant, the grants are ordered and a cooldown apart, and the grant before the `k`
counted ones is at least a day earlier than the first of them. A new grant either
restarts the count, and then a day lies between it and its predecessor, or
increments it below the limit; in both cases the window moves by one
(`CountStep`, `WindowStep`). The other actions leave the history's part of the row
alone (`SameHistory`).

**Charges.** `charged <= counted` is not inductive: it depends on what the counter, the
last counter read and the daemon's local variables will lead to. `Charging` says that
what a client has been charged, together with what its counter has still to be
charged for, does not exceed what was counted (`Covered`) - except while a requested reset
is waiting, when the counter will be thrown away before it is read. A client that is
in both sets needs care, as the daemon reads `paid_ips` only: a counter hidden
in `grace_ips` would come back when the client leaves `paid_ips`, and `Marked` says
that a reset is then always requested. With revocation, `Billed` stands for what the row
the client now has was charged, in place of all the client ever was. A row that
was deleted and created again while the daemon was about to enforce the old one may leave
a client with the hidden counter, and then nothing has been charged to the new row yet
(`Unbilled`). One lemma per action (`RevokeSafe`, `TrafficSafe`, `ResetOutSafe`, ...,
`ApRestartSafe`) preserves the four conjuncts of `Safe`.

**Cycles.** The daemon compares a row read at one time with a clock read at another.
`Settling` follows a row that keeps asking for the same set: it does so at the present
clock, at the cycle's clock and in the snapshot (`Followed`), because no write makes a
row ask for the same set now and for another one at an earlier time (`RowFollows`).
`Watch` is what makes `steady` forget every other row.

**Refinement of the table.** Each action of the portal is the table's own; each
statement of the daemon that writes is `Charge`, `AckReset` or `Expire`, where the
bound on a charge follows from `Charging` (`ChargeImplements`).

**Ledger.** `CounterAhead` is inductive relative to `TypeOK`; it includes the indices
that requests in flight hold, which `Credit` will write into `payments`. A restart
computes the counter before it deletes rows and with no request left, so the new
counter is ahead of what stays. `NeverCollides` follows in each state: a row of
the swept table is behind the counter, and one that is still pending under the
same key would be live. `OpenInvoiceKept` is a case split over the actions.

**Credits.** `Traced` follows a transfer from the chain through a request into the
table: invoices that are in the table or in some request's list agree on the owner of
an address, and a request about to record was begun before its invoice ran out.
`Once` adds that a transaction which has been credited is either still in `payments`
or too old for any invoice it could pay to be open. `Rightful` is about the addresses
clients were ever shown: the row of such an invoice is still in the table or has been over
for longer than it is kept (`StillThere`), so an invoice that has the same index and
another client is younger than that (`Apart`), and a timely transfer is too old to match it
(`PaidFor`). This needs no assumption on the settings, since what is timely is counted
with them: by default until 7 days less 5 minutes after the invoice ran out.

**Prices.** `Inv` says that the four dictionaries agree on what is cached (`Agree`) and
that a key being fetched is in no back-off (`FetchOK`). `Victim` always names a listed
key, so one eviction restores the size. Each step then maps to `Work`, `Serve`,
`Obtain` or `Age` of `FreshCache`.

**Sales.** That a transfer is lost only late needs an invariant about time. As long as
nothing keeps the page from checking, `Wait` bounds the time until the next check
that tells of a settled transfer: what is left of the timer and one check, or of the redirect, the grace, the
daemon's cycle, the status poll, the return and one check; while the answer to a check that began too early
is awaited (`Unsure`), the next check as well. `Need` adds a detour (`DetourTime`) if a grace may
begin before that, which it may only if the cooldown could be over by then. `Timely` says that this time is still left,
counted from the moment the page began to watch or from the one at which the transfer was
sent, whichever was later. With a long cooldown `Need` is at most `CheckTime +
DetourTime` (`Room`), so there is room at the start and after each interruption; the answers of
the workers (`HandledWait`) and a grace (`GraceNeed`) leave `Need` as it was or smaller,
except for a check that began less than `Confirming + Ttl` after the transfer was
sent, when there is room as at the start; and time that passes is subtracted on both sides
(`TickWait`). `SessionPlaced`, `PagePlaced` and `WatchPlaced` tie the session, the
page with its requests, and the count to their causes. When an invoice runs out, some of the wait
was still left (`NotYet`), so the transfer or the watching was younger than `Margin`.

**Verification.** What an answer says is about the chain at the time its request began,
and the chain goes on. `Right` states of every answer, kept or just given, what stays
true of it: "verified" names a transfer to that address, with the quota of the tier it
was paid for; "waiting", if every endpoint was read, that the verifier refuses every
transfer that was ready by then. For a request under way the same is said of what it can
still find (`RequestOK`): a transfer that could be the answer is still `Ahead`, and the
pages read were full, so counting the transfers `Seen` shows that what is on none of
the pages is out of reach (`NoMore`). `RightKept` and `RequestKept` carry
this through a payment and a unit of time. In the cache `order` is a total order of
the keys, so a full cache has a least recently used key (`OldestListed`), and
a use moves a key to the end (`LinearMoved`). With the invariant each step maps to `Work`,
`Serve`, `Obtain` or `Age` of `FreshCache`.

Only model-checked is liveness: `CutOff`, `Recovery`, `Detected` and `Told` need
ENABLED, which is out of the prover's reach.

## 5. Abstractions

* The clock does not go backwards. Each transaction reads it once; the code
  reads it just before `BEGIN IMMEDIATE`, so up to the busy timeout (5 s) earlier.
* The listing of an ipset is one step, and so are the two deletions of a reset, and the
  `SELECT` and `UPDATE` of one charge: only `revoke` also writes the column they share.
* The daemon's `SELECT`s succeed; a failed one gives an empty list, which is a
  cycle that does nothing.
* In `Ledger` access (`active`) may come and go at any time, which covers
  everything `ClientTable` does with it. Amounts are in `Catalog` and `Verification`.
* `CreditedToPayee` relies on the time of a transfer, which the explorer gives;
  the matcher accepts a transfer without one.
* In `PriceService` a fetch gives all prices or none; a partial answer is stored like a
  full one. What a price is only matters in `Verification`.
* In `Verification` all transfers are in one list; the explorer shows the newest first
  and answers with a consistent page. The time stamp of a transfer is compared in
  `Ledger`, and a transfer that has reached the confirmations keeps them (no reorganisation of the chain).
* In `Checkout` browser timers are exact, and what is due at once happens before time
  passes. There are one client, one transfer and one tier per chain; prices stay within the
  tolerance; a page is loaded in one step (its overwrite of a newer row is in `SyncAuth`), and
  the answers to `activate_grace` and the status poll come within a unit of time. Of the limits on
  grace only the cooldown is kept (the daily count, which refuses more, is in `ClientTable`). What
  is left of a paid session is either something or nothing: it may end at any time,
  and a payment at the cap of the quota may start none that runs (`Record`).
* `grants`, `counted`, `charged`, `steady`, `shown`, `credited`, `payees`, `timely`, `fresh`, `lag`, `whole` and
  `watched` are history variables: no guard of the system reads them, except
  `MaxGrants` and `MaxTraffic`, which are bounds.
* Operators commented `Mutant:` are broken variants of the definition that
  follows them; no specification uses them. Each property is shown to fail when
  its mutant replaces the definition.

## 6. Not modelled

* **Wallet**: a pure injective function from an index to an address, computed by a
  library. `Ledger` identifies an address with its index.
* **Rate limiter**: a counter per address and worker; that at most five requests pass
  in a window holds by the counter alone. `Checkout` admits a refusal at any time.
* **Probes, QR codes and other pages**: no state; the QR code converts like `PageQuote`. Of
  the wallet dialogue the payment and the polling it starts are in `Checkout`.
* **Access point scripts**: `start-ap.sh` and `iptables.sh` are run once by an
  administrator; only the loss of the ipsets and the counting of traffic matter to
  the rest, and are in `SyncAuth`. That a second start overwrites the saved default
  policy (`start-ap.sh:62`) is listed as a hazard.
* **Parsing of settings**: the lower bounds that `config.py` enforces are the
  assumptions on the constants; text and parsing are left out.
* **Installation, backup, service files**: one-shot administration; what `run.sh`
  decides about processes is in `Ledger`.
* **Schema migration**: runs once, in one transaction, before any other process starts.
* **Development helper**: `simulate-payment` exists in DEV mode only and calls
  `mark_paid` as check-payment does.
