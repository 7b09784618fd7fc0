----------------------------- MODULE ClientTable -----------------------------
(***************************************************************************)
(* The clients table of the portal, one row per client address, and the    *)
(* transactions that write it: activate_grace, mark_paid and revoke of     *)
(* db.py, and the coarse steps by which everybody else (the index page,    *)
(* the firewall daemon) may change a row.  Every transaction runs under    *)
(* BEGIN IMMEDIATE, so it is one atomic action here.  The other modules    *)
(* instantiate this one and are shown to implement it.                     *)
(***************************************************************************)
EXTENDS Integers, Sequences

CONSTANTS
    Client,         \* client addresses
    Quota,          \* quota_bytes of the tiers on sale
    GraceDuration,  \* GRACE_DURATION_SECONDS
    GraceQuota,     \* GRACE_QUOTA_BYTES
    GraceMax,       \* GRACE_MAX_PER_24H
    GraceCooldown,  \* GRACE_COOLDOWN_SECONDS
    Day,            \* 86400
    AccessDuration, \* ACCESS_DURATION
    MaxAccess,      \* MAX_ACCESS_DURATION
    MaxQuota,       \* MAX_QUOTA_BYTES
    StartTime,      \* the wall clock when the table is created
    \* Bounds of the model, not of the code.
    MaxTime,        \* the clock stops here
    MaxCharge,      \* most bytes one sync cycle charges
    MaxOvershoot,   \* how far used_bytes may pass quota_bytes
    MaxGrants       \* grants per row that the history keeps

(***************************************************************************)
(* _env_int in config.py clamps each setting to its minimum.  The clock is *)
(* far past the epoch.  That the grace quota fits under the cap is not     *)
(* enforced by config.py, it is how the portal is meant to be configured.  *)
(***************************************************************************)
ASSUME ConfigAssumption ==
    /\ Quota \subseteq Nat
    /\ GraceDuration \in Nat \ {0}
    /\ GraceQuota \in Nat
    /\ GraceMax \in Nat
    /\ GraceCooldown \in Nat
    /\ Day \in Nat \ {0}
    /\ AccessDuration \in Nat \ {0}
    /\ MaxAccess \in Nat
    /\ MaxQuota \in Nat
    /\ GraceQuota <= MaxQuota
    /\ StartTime \in Nat
    /\ StartTime >= Day
    /\ MaxTime \in Nat /\ MaxCharge \in Nat
    /\ MaxOvershoot \in Nat /\ MaxGrants \in Nat

VARIABLES
    now,     \* int(time.time())
    clients, \* the clients table
    grants   \* history: when each present row was granted grace

vars == <<now, clients, grants>>

Status == {"absent", "new", "grace", "paid", "expired"}

\* reset is reset_ipset_at > 0: the code never looks at the instant itself.
Row == [status : Status, grace_until : Nat, paid_until : Nat,
        quota_bytes : Nat, used_bytes : Nat,
        grace_activated_count : Nat, last_grace_activated_at : Nat,
        reset : BOOLEAN]

NoRow == [status |-> "absent", grace_until |-> 0, paid_until |-> 0,
          quota_bytes |-> 0, used_bytes |-> 0,
          grace_activated_count |-> 0, last_grace_activated_at |-> 0,
          reset |-> FALSE]

Minimum(a, b) == IF a <= b THEN a ELSE b
Maximum(a, b) == IF a >= b THEN a ELSE b
-----------------------------------------------------------------------------
(***************************************************************************)
(* What the readers of a row decide.                                       *)
(***************************************************************************)
IsPaid(r, t) ==
    /\ r.used_bytes < r.quota_bytes
    /\ \/ r.status = "paid" /\ r.paid_until > t
       \/ r.status = "grace" /\ r.grace_until > t

\* The lapses that activate_grace sees: a grace whose time is over, a paid
\* session whose time or bytes are over.
Lapsed(r, t) ==
    \/ r.status = "grace" /\ r.grace_until <= t
    \/ r.status = "paid" /\ (r.paid_until <= t \/ r.used_bytes >= r.quota_bytes)

EnsuredRow(r) == IF r.status = "absent" THEN [r EXCEPT !.status = "new"] ELSE r

Expired(r) == [r EXCEPT !.status = "expired"]

SettledRow(r, t) == IF Lapsed(r, t) THEN Expired(r) ELSE r

CoolingDown(r, t) == t - r.last_grace_activated_at < GraceCooldown

\* Mutant: the limit is compared one grant too late.
LimitReachedLate(r, t) ==
    /\ r.grace_activated_count > GraceMax
    /\ t - r.last_grace_activated_at < Day

LimitReached(r, t) ==
    /\ r.grace_activated_count >= GraceMax
    /\ t - r.last_grace_activated_at < Day

MayActivate(r, t) ==
    /\ r.status \in {"new", "expired"}
    /\ r.grace_activated_count > 0 => ~CoolingDown(r, t) /\ ~LimitReached(r, t)

NextGraceCount(r, t) ==
    IF t - r.last_grace_activated_at >= Day THEN 1 ELSE r.grace_activated_count + 1

CountedRow(r, t) ==
    [r EXCEPT !.grace_activated_count = NextGraceCount(r, t),
              !.last_grace_activated_at = t]

GrantRow(r, t) ==
    [CountedRow(r, t) EXCEPT
              !.status = "grace", !.grace_until = t + GraceDuration,
              !.quota_bytes = GraceQuota, !.used_bytes = 0, !.reset = TRUE]

\* Mutant: the extension is not capped.
ExtendedUntilUncapped(r, t) == Maximum(r.paid_until, t) + AccessDuration

ExtendedUntil(r, t) ==
    Minimum(Maximum(r.paid_until, t) + AccessDuration, t + MaxAccess)

\* Mutant: the quota is replaced instead of stacked.
StackedQuotaReplaced(r, q) == Minimum(q, MaxQuota)

StackedQuota(r, q) ==
    Minimum(IF r.status = "grace" THEN q ELSE r.quota_bytes + q, MaxQuota)

\* Mutant: the bought bytes are taken off used_bytes instead of stacked.
CreditRowRefund(r, q, t) ==
    [r EXCEPT !.status = "paid", !.paid_until = ExtendedUntil(r, t),
              !.used_bytes = r.used_bytes - q, !.reset = TRUE]

\* Mutant: a payment starts a new grace history.
CreditRowForgetful(r, q, t) ==
    [r EXCEPT !.status = "paid", !.paid_until = ExtendedUntil(r, t),
              !.quota_bytes = StackedQuota(r, q),
              !.used_bytes = IF r.status = "grace" THEN 0 ELSE r.used_bytes,
              !.grace_activated_count = 0, !.reset = TRUE]

CreditRow(r, q, t) ==
    [r EXCEPT !.status = "paid", !.paid_until = ExtendedUntil(r, t),
              !.quota_bytes = StackedQuota(r, q),
              !.used_bytes = IF r.status = "grace" THEN 0 ELSE r.used_bytes,
              !.reset = TRUE]
-----------------------------------------------------------------------------
Init ==
    /\ now = StartTime
    /\ clients = [c \in Client |-> NoRow]
    /\ grants = [c \in Client |-> <<>>]

SetRow(c, r) == clients' = [clients EXCEPT ![c] = r]

\* activate_grace succeeds.
GrantGrace(c) ==
    LET r == SettledRow(EnsuredRow(clients[c]), now) IN
    /\ MayActivate(r, now)
    /\ Len(grants[c]) < MaxGrants                                   \* bound
    /\ SetRow(c, GrantRow(r, now))
    /\ grants' = [grants EXCEPT ![c] = Append(@, now)]
    /\ UNCHANGED now

\* activate_grace refuses; the lapse it noticed on the way is committed.
RefuseGrace(c) ==
    LET r == SettledRow(EnsuredRow(clients[c]), now) IN
    /\ ~MayActivate(r, now)
    /\ SetRow(c, r)
    /\ UNCHANGED <<now, grants>>

\* mark_paid records a payment that is not yet in the payments table.
MarkPaid(c, q) ==
    /\ SetRow(c, CreditRow(EnsuredRow(clients[c]), q, now))
    /\ UNCHANGED <<now, grants>>

\* index() and the daemon overwrite the status of a row they found lapsed.
\* The row may have changed since, so no guard on it is promised.
Expire(c) ==
    /\ clients[c].status # "absent"
    /\ SetRow(c, Expired(clients[c]))
    /\ UNCHANGED <<now, grants>>

\* The daemon adds the traffic it measured.
Charge(c, d) ==
    /\ clients[c].status # "absent"
    /\ clients[c].used_bytes + d <= clients[c].quota_bytes + MaxOvershoot \* bound
    /\ SetRow(c, [clients[c] EXCEPT !.used_bytes = @ + d])
    /\ UNCHANGED <<now, grants>>

\* The daemon acknowledges a counter reset.
AckReset(c) ==
    /\ SetRow(c, [clients[c] EXCEPT !.reset = FALSE])
    /\ UNCHANGED <<now, grants>>

\* revoke deletes the row, and with it the memory of past grants.
Revoke(c) ==
    /\ SetRow(c, NoRow)
    /\ grants' = [grants EXCEPT ![c] = <<>>]
    /\ UNCHANGED now

Tick ==
    /\ now < MaxTime                                                \* bound
    /\ now' = now + 1
    /\ UNCHANGED <<clients, grants>>

Next ==
    \/ \E c \in Client :
        \/ GrantGrace(c)
        \/ RefuseGrace(c)
        \/ \E q \in Quota : MarkPaid(c, q)
        \/ Expire(c)
        \/ \E d \in 1..MaxCharge : Charge(c, d)
        \/ AckReset(c)
        \/ Revoke(c)
    \/ Tick

Spec == Init /\ [][Next]_vars
-----------------------------------------------------------------------------
(***************************************************************************)
(* Properties.                                                             *)
(***************************************************************************)
\* Every variable keeps its type.
TypeOK ==
    /\ now \in Nat
    /\ clients \in [Client -> Row]
    /\ grants \in [Client -> Seq(Nat)]

\* A limit of zero limits like one: the first grant is not compared with it.
GraceLimit == Maximum(1, GraceMax)

\* No client is granted grace more than GRACE_MAX_PER_24H times in any window
\* of a day, although activate_grace remembers only one counter and the time
\* of the last grant (README.md:54; db.py:526-539).
GraceWindow ==
    \A c \in Client : \A i \in 1..Len(grants[c]) :
        i + GraceLimit <= Len(grants[c]) =>
            grants[c][i + GraceLimit] - grants[c][i] >= Day

\* Whatever else happens to the row between two grants (payments, expiry),
\* they are at least GRACE_COOLDOWN_SECONDS apart (README.md:55; db.py:528).
CooldownRespected ==
    \A c \in Client : \A i, j \in 1..Len(grants[c]) :
        i < j => grants[c][j] - grants[c][i] >= GraceCooldown

\* The caps of mark_paid bound what a client can accumulate by stacking
\* payments and grants in any order (db.py:618-622).
StackingBounded ==
    \A c \in Client :
        /\ clients[c].paid_until <= now + MaxAccess
        /\ clients[c].quota_bytes <= MaxQuota

\* What is left of a session's bytes.
Remaining(r) == Maximum(0, r.quota_bytes - r.used_bytes)

\* A payment never shortens the paid time a client already has, and, unless it
\* replaces a grace session, never takes bytes away from it: the caps of
\* mark_paid must not cut into what was already granted (db.py:614-628).
PaymentNeverTakesAway ==
    [][\A c \in Client : \A q \in Quota : MarkPaid(c, q) =>
        /\ clients'[c].paid_until >= clients[c].paid_until
        /\ clients[c].status # "grace" =>
               Remaining(clients'[c]) >= Remaining(clients[c])]_vars

\* A recorded payment leaves the client authorized: "Record payment and
\* authorize the client, stacking quotas on repeat payments" (db.py:568).
PaymentAuthorizes ==
    [][\A c \in Client : \A q \in Quota :
        MarkPaid(c, q) => IsPaid(clients'[c], now)]_vars
=============================================================================
