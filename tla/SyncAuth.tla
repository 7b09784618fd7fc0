------------------------------ MODULE SyncAuth ------------------------------
(***************************************************************************)
(* The clients table shared by three parties that take no common lock:     *)
(* the portal's transactions (db.py), the welcome page that reads a row    *)
(* and later overwrites its status (app.py), and the daemon of             *)
(* sync-auth.sh, which copies the table into the firewall's two ipsets and *)
(* the ipsets' byte counters back into the table.  The SQL statements and  *)
(* ipset commands of the daemon that another party can come between are    *)
(* steps of their own (the two deletions of a reset are one: no client is  *)
(* in both sets for long); a crash may fall between any two steps.         *)
(***************************************************************************)
EXTENDS Integers, Sequences, FiniteSets

CONSTANTS
    \* of ClientTable
    Client, Quota, GraceDuration, GraceQuota, GraceMax, GraceCooldown, Day,
    AccessDuration, MaxAccess, MaxQuota, StartTime,
    MaxTime, MaxCharge, MaxOvershoot, MaxGrants,
    Worker,      \* threads of the web server that render the welcome page
    \* Bounds of the model.
    MaxTraffic,  \* bytes counted for a client
    MaxRestarts, \* crashes of the daemon and restarts of the access point
    MaxRevokes   \* calls of revoke

VARIABLES
    now, clients, grants,
    last,     \* last_ipset_bytes of each row
    members,  \* the clients in each ipset
    bytes,    \* the byte counter of each member
    sync,     \* the daemon: program counter and local variables
    page,     \* per worker: the client whose row index() found lapsed
    restarts, \* bound: how many restarts so far
    revokes,  \* bound: how many rows an administrator has deleted
    counted,  \* history: bytes the rules have counted for each client
    charged,  \* history: bytes ever added to used_bytes
    steady    \* history: what a row has asked for since the cycle began

Table == INSTANCE ClientTable

db == <<clients, grants, last>>
firewall == <<members, bytes>>
history == <<counted, charged>>
bounds == <<restarts, revokes>>
vars == <<now, db, firewall, sync, page, bounds, history, steady>>

Ipset == {"paid_ips", "grace_ips"}
NoClient == "no client"
None == "none"
Changed == "changed"

ASSUME SyncAssumption ==
    /\ Table!ConfigAssumption
    /\ {MaxTraffic, MaxRestarts, MaxRevokes} \subseteq Nat
    /\ NoClient \notin Client

Present(c) == clients[c].status # "absent"

\* The ipset a row asks for at time t.
Target(r, t) ==
    IF ~Table!IsPaid(r, t) THEN None
    ELSE IF r.status = "paid" THEN "paid_ips" ELSE "grace_ips"

Idle == [pc |-> "idle", at |-> 0, rows |-> [c \in Client |-> Table!NoRow],
         todo |-> {}, cur |-> NoClient, read |-> [c \in Client |-> 0]]

Init ==
    /\ Table!Init
    /\ last = [c \in Client |-> 0]
    /\ members = [s \in Ipset |-> {}]
    /\ bytes = [s \in Ipset |-> [c \in Client |-> 0]]
    /\ sync = Idle
    /\ page = [w \in Worker |-> NoClient]
    /\ restarts = 0
    /\ revokes = 0
    /\ counted = [c \in Client |-> 0]
    /\ charged = [c \in Client |-> 0]
    /\ steady = [c \in Client |-> Changed]
-----------------------------------------------------------------------------
(***************************************************************************)
(* The portal.                                                             *)
(***************************************************************************)
outside == <<last, members, bytes, sync, page, bounds, counted, charged>>

GrantGrace(c) ==
    /\ Table!GrantGrace(c)
    /\ UNCHANGED outside

RefuseGrace(c) ==
    /\ Table!RefuseGrace(c)
    /\ UNCHANGED outside

MarkPaid(c, q) ==
    /\ Table!MarkPaid(c, q)
    /\ UNCHANGED outside

Revoke(c) ==
    /\ revokes < MaxRevokes                                         \* bound
    /\ Present(c)
    /\ Table!Revoke(c)
    /\ revokes' = revokes + 1
    /\ last' = [last EXCEPT ![c] = 0]
    /\ UNCHANGED <<firewall, sync, page, restarts, counted, charged>>

\* index() reads the row in one transaction and finds its session lapsed...
IndexRead(w, c) ==
    /\ page[w] = NoClient
    /\ Table!Lapsed(clients[c], now)
    /\ page' = [page EXCEPT ![w] = c]
    /\ UNCHANGED <<now, db, firewall, sync, bounds, history>>

\* Mutant: the page also clears the usage of the session it expires.
IndexExpireClearing(w) ==
    LET c == page[w] IN
    /\ c # NoClient
    /\ page' = [page EXCEPT ![w] = NoClient]
    /\ clients' = IF Present(c)
                  THEN [clients EXCEPT ![c].status = "expired", ![c].used_bytes = 0]
                  ELSE clients
    /\ UNCHANGED <<now, grants, last, firewall, sync, bounds, history>>

\* ...and overwrites its status in another, whatever it is by then.
IndexExpire(w) ==
    LET c == page[w] IN
    /\ c # NoClient
    /\ page' = [page EXCEPT ![w] = NoClient]
    /\ clients' = IF Present(c)
                  THEN [clients EXCEPT ![c] = Table!Expired(@)] ELSE clients
    /\ UNCHANGED <<now, grants, last, firewall, sync, bounds, history>>

(***************************************************************************)
(* A member's packet is counted by every rule that finds it in a set: by   *)
(* the one that forwards it, and, if it opens a connection, by rules for   *)
(* addresses.  All of them look at paid_ips first.                         *)
(***************************************************************************)
Member(c) == \E s \in Ipset : c \in members[s]

Traffic(c) ==
    LET s == IF c \in members["paid_ips"] THEN "paid_ips" ELSE "grace_ips" IN
    /\ Member(c)
    /\ \E n \in 1..MaxTraffic :
        /\ counted[c] + n <= MaxTraffic                              \* bound
        /\ bytes' = [bytes EXCEPT ![s][c] = @ + n]
        /\ counted' = [counted EXCEPT ![c] = @ + n]
    /\ UNCHANGED <<now, db, members, sync, page, bounds, charged>>

Tick ==
    /\ Table!Tick
    /\ UNCHANGED outside
-----------------------------------------------------------------------------
(***************************************************************************)
(* The daemon, one sync_once after another.                                *)
(***************************************************************************)
\* The clock and the rows of step 0.
SyncBegin ==
    /\ sync.pc = "idle"
    /\ sync' = [sync EXCEPT !.pc = "reset", !.at = now, !.rows = clients,
                            !.todo = {c \in Client : clients[c].reset}]
    /\ steady' = [c \in Client |-> Target(clients[c], now)]
    /\ UNCHANGED <<now, db, firewall, page, bounds, history>>

\* Step 0: a requested reset takes the client out of both sets...
ResetOut(c) ==
    /\ sync.pc = "reset"
    /\ c \in sync.todo
    /\ members' = [s \in Ipset |-> members[s] \ {c}]
    /\ bytes' = [s \in Ipset |-> [bytes[s] EXCEPT ![c] = 0]]
    /\ sync' = [sync EXCEPT !.pc = "readd", !.cur = c]
    /\ UNCHANGED <<now, db, page, bounds, history>>

\* ...and puts it, with a zero counter, into the one its row asked for.
ResetAdd ==
    LET c == sync.cur
        target == Target(sync.rows[c], sync.at)
    IN
    /\ sync.pc = "readd"
    /\ members' = [s \in Ipset |-> IF s = target THEN members[s] \cup {c} ELSE members[s]]
    /\ sync' = [sync EXCEPT !.pc = "ack"]
    /\ UNCHANGED <<now, db, bytes, page, bounds, history>>

\* Mutant: the acknowledgement clears the usage as well.
ResetCommitClearing ==
    LET c == sync.cur IN
    /\ sync.pc = "ack"
    /\ clients' = [clients EXCEPT ![c].reset = FALSE, ![c].used_bytes = 0]
    /\ last' = [last EXCEPT ![c] = 0]
    /\ sync' = [sync EXCEPT !.pc = "reset", !.cur = NoClient, !.todo = @ \ {c}]
    /\ UNCHANGED <<now, grants, firewall, page, bounds, history>>

\* The acknowledgement: an UPDATE of its own.
ResetCommit ==
    LET c == sync.cur IN
    /\ sync.pc = "ack"
    /\ clients' = [clients EXCEPT ![c].reset = FALSE]
    /\ last' = [last EXCEPT ![c] = 0]
    /\ sync' = [sync EXCEPT !.pc = "reset", !.cur = NoClient, !.todo = @ \ {c}]
    /\ UNCHANGED <<now, grants, firewall, page, bounds, history>>

\* Step 1: read the counters; a client in both sets counts in paid_ips only.
Counter(c) ==
    IF c \in members["paid_ips"] THEN bytes["paid_ips"][c] ELSE bytes["grace_ips"][c]

Collect ==
    /\ sync.pc = "reset"
    /\ sync.todo = {}
    /\ sync' = [sync EXCEPT !.pc = "charge", !.rows = Idle.rows,
                            !.todo = {c \in Client : Member(c)},
                            !.read = [c \in Client |-> IF Member(c) THEN Counter(c) ELSE 0]]
    /\ UNCHANGED <<now, db, firewall, page, bounds, history>>

\* Mutant: an unchanged counter is taken for a reset one.
DeltaRepeated(cur, prev) == IF cur <= prev THEN cur ELSE cur - prev

\* Mutant: a reset counter is not noticed.
DeltaSigned(cur, prev) == cur - prev

\* A counter below the last one read has been reset since.
Delta(cur, prev) == IF cur < prev THEN cur ELSE cur - prev

ChargeOne(c) ==
    LET delta == Delta(sync.read[c], last[c]) IN
    /\ sync.pc = "charge"
    /\ c \in sync.todo
    /\ IF Present(c)
       THEN /\ clients' = [clients EXCEPT ![c].used_bytes = @ + delta]
            /\ last' = [last EXCEPT ![c] = sync.read[c]]
            /\ charged' = [charged EXCEPT ![c] = @ + delta]
       ELSE UNCHANGED <<clients, last, charged>>
    /\ sync' = [sync EXCEPT !.todo = @ \ {c}, !.read[c] = 0]
    /\ UNCHANGED <<now, grants, firewall, page, bounds, counted>>

\* Mutant: step 2 reads only the rows of running sessions.
SyncSelectRunning ==
    /\ sync.pc = "charge"
    /\ sync.todo = {}
    /\ sync' = [sync EXCEPT !.pc = "enforce", !.rows = clients,
                            !.todo = {c \in Client : clients[c].status \in {"paid", "grace"}}]
    /\ UNCHANGED <<now, db, firewall, page, bounds, history>>

\* Step 2: the rows again.
SyncSelect ==
    /\ sync.pc = "charge"
    /\ sync.todo = {}
    /\ sync' = [sync EXCEPT !.pc = "enforce", !.rows = clients,
                            !.todo = {c \in Client : Present(c)}]
    /\ UNCHANGED <<now, db, firewall, page, bounds, history>>

\* Add the client to the set its row asked for.
Admit(c) ==
    LET target == Target(sync.rows[c], sync.at)
        new == {s \in Ipset : s = target /\ c \notin members[s]} IN
    /\ sync.pc = "enforce"
    /\ c \in sync.todo
    /\ members' = [s \in Ipset |-> IF s \in new THEN members[s] \cup {c} ELSE members[s]]
    /\ bytes' = [s \in Ipset |-> IF s \in new THEN [bytes[s] EXCEPT ![c] = 0] ELSE bytes[s]]
    /\ sync' = [sync EXCEPT !.pc = "drop", !.cur = c]
    /\ UNCHANGED <<now, db, page, bounds, history>>

\* _expire_client_status: an UPDATE conditional on the status in the snapshot.
ExpireIfStill(r, status) == IF r.status = status THEN Table!Expired(r) ELSE r

\* Mutant: a client moved to another set is not taken out of the old one.
DropOnlyRefused ==
    LET c == sync.cur
        r == sync.rows[c]
        target == Target(r, sync.at)
    IN
    /\ sync.pc = "drop"
    /\ members' = [s \in Ipset |-> IF target = None THEN members[s] \ {c} ELSE members[s]]
    /\ bytes' = [s \in Ipset |-> IF target = None THEN [bytes[s] EXCEPT ![c] = 0] ELSE bytes[s]]
    /\ \/ /\ target = None
          /\ r.status \in {"paid", "grace"}
          /\ clients' = [clients EXCEPT ![c] = ExpireIfStill(@, r.status)]
       \/ UNCHANGED clients
    /\ sync' = [sync EXCEPT !.pc = "enforce", !.cur = NoClient, !.todo = @ \ {c},
                            !.rows[c] = Table!NoRow]
    /\ UNCHANGED <<now, grants, last, page, bounds, history>>

\* Take it out of the others, and mark a row that asked for none as expired;
\* the script ignores a failure of that UPDATE.
Drop ==
    LET c == sync.cur
        r == sync.rows[c]
        target == Target(r, sync.at)
    IN
    /\ sync.pc = "drop"
    /\ members' = [s \in Ipset |-> IF s = target THEN members[s] ELSE members[s] \ {c}]
    /\ bytes' = [s \in Ipset |-> IF s = target THEN bytes[s] ELSE [bytes[s] EXCEPT ![c] = 0]]
    /\ \/ /\ target = None
          /\ r.status \in {"paid", "grace"}
          /\ clients' = [clients EXCEPT ![c] = ExpireIfStill(@, r.status)]
       \/ UNCHANGED clients
    /\ sync' = [sync EXCEPT !.pc = "enforce", !.cur = NoClient, !.todo = @ \ {c},
                            !.rows[c] = Table!NoRow]
    /\ UNCHANGED <<now, grants, last, page, bounds, history>>

SyncEnd ==
    /\ sync.pc = "enforce"
    /\ sync.todo = {}
    /\ sync' = Idle
    /\ UNCHANGED <<now, db, firewall, page, bounds, history>>

\* A failed UPDATE of step 0 or 1 (set -e), a signal: systemd starts the
\* daemon again.  The ipsets stay.
SyncCrash ==
    /\ restarts < MaxRestarts                                       \* bound
    /\ sync.pc # "idle"
    /\ restarts' = restarts + 1
    /\ sync' = Idle
    /\ UNCHANGED <<now, db, firewall, page, history, revokes>>

\* start-ap.sh stops the daemon and creates the ipsets anew.
ApRestart ==
    /\ restarts < MaxRestarts                                       \* bound
    /\ restarts' = restarts + 1
    /\ members' = [s \in Ipset |-> {}]
    /\ bytes' = [s \in Ipset |-> [c \in Client |-> 0]]
    /\ sync' = Idle
    /\ UNCHANGED <<now, db, page, history, revokes>>
-----------------------------------------------------------------------------
\* A row is steady as long as it keeps asking for the same set.
Watch ==
    steady' = [c \in Client |->
                  IF Target(clients'[c], now') = steady[c] THEN steady[c] ELSE Changed]

Forget == steady' = [c \in Client |-> Changed]

SyncStep ==
    \/ SyncBegin
    \/ /\ \/ \E c \in Client : ResetOut(c) \/ ChargeOne(c) \/ Admit(c)
          \/ ResetAdd \/ ResetCommit \/ Collect \/ SyncSelect \/ Drop \/ SyncEnd
       /\ Watch

Portal ==
    \/ \E c \in Client :
        \/ GrantGrace(c)
        \/ RefuseGrace(c)
        \/ \E q \in Quota : MarkPaid(c, q)
        \/ Revoke(c)
        \/ \E w \in Worker : IndexRead(w, c)
    \/ \E w \in Worker : IndexExpire(w)

Restart == SyncCrash \/ ApRestart

Next ==
    \/ SyncStep
    \/ (Portal \/ Tick \/ \E c \in Client : Traffic(c)) /\ Watch
    \/ Restart /\ Forget

Spec == Init /\ [][Next]_vars

\* The daemon's loop never stops for good: systemd restarts it.
FairSpec == Spec /\ WF_vars(SyncStep)
-----------------------------------------------------------------------------
(***************************************************************************)
(* Properties.                                                             *)
(***************************************************************************)
Counts == [Client -> Nat]

Daemon == [pc : {"idle", "reset", "readd", "ack", "charge", "enforce", "drop"},
           at : Nat, rows : [Client -> Table!Row], todo : SUBSET Client,
           cur : Client \cup {NoClient}, read : Counts]

\* Every variable keeps its type; the daemon acts on a client only in the
\* steps that have one.
TypeOK ==
    /\ Table!TypeOK
    /\ {last, counted, charged} \subseteq Counts
    /\ members \in [Ipset -> SUBSET Client]
    /\ bytes \in [Ipset -> Counts]
    /\ sync \in Daemon
    /\ sync.pc \in {"readd", "ack", "drop"} <=> sync.cur \in Client
    /\ page \in [Worker -> Client \cup {NoClient}]
    /\ restarts \in 0..MaxRestarts /\ revokes \in 0..MaxRevokes
    /\ steady \in [Client -> Ipset \cup {None, Changed}]

\* Across resets, moves between the sets, crashes and restarts no byte is ever
\* charged twice: what used_bytes has been increased by never exceeds what the
\* rules have counted for the client, where a packet that two rules find in a set
\* counts in both (sync-auth.sh:90-107, start-ap.sh:99-128).
NeverOvercharged == \A c \in Client : charged[c] <= counted[c]

\* revoke deletes a row while the daemon charges for it or its counter is left
\* in the ipset (db.py:636-641, sync-auth.sh:106).  The row that is created
\* next may be charged for what the old one was, but not for more than was counted.
UsedWasCounted == \A c \in Client : clients[c].used_bytes <= counted[c]

\* A cycle settles the firewall: when it ends, a client whose row has asked for
\* the same thing ever since it began is in that ipset and in no other
\* (sync-auth.sh:109-162), whoever wrote to the table meanwhile and wherever an
\* earlier cycle crashed.
CycleSettles ==
    sync.pc = "idle" =>
        \A c \in Client : Present(c) /\ steady[c] # Changed =>
            \A s \in Ipset : c \in members[s] <=> s = steady[c]

\* A client that is not entitled to access does not keep it: "sync-auth.sh
\* will update ipset on its next cycle to revoke access" (app.py:150).
CutOff ==
    \A c \in Client :
        Member(c) /\ ~Table!IsPaid(clients[c], now)
            ~> ~Member(c) \/ Table!IsPaid(clients[c], now)

\* The same step by step promise the table makes to everyone (ClientTable).
TableSpec == Table!Spec

\* "Grace/paid expired is shown as expired" (app.py:149): the page never
\* expires a session that is running.
IndexExpiresOnlyLapsed ==
    [][\A w \in Worker, c \in Client :
        IndexExpire(w) /\ clients'[c] # clients[c] => ~Table!IsPaid(clients[c], now)]_vars
=============================================================================
