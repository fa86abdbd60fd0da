---------------------------- MODULE LockSnapshots ----------------------------
(***************************************************************************)
(* The generations of account locks (api/src/services/                     *)
(* lockBreakdownService.ts, snapshotRepublish.ts) and the timer behind     *)
(* them (backgroundRefresh.ts).  A pass reads every lock of the chain from *)
(* a node that goes on, in pages of keys and chunks of values; what it     *)
(* read becomes a partition of a table, a pointer is moved to it, and the  *)
(* partitions nobody points at are dropped.  Requests look the pointer up  *)
(* and scan, each of their queries on its own.                             *)
(*                                                                         *)
(* A chunk of values and a batch of rows hold one account here.            *)
(***************************************************************************)
EXTENDS Integers, FiniteSets

CONSTANTS
    Accounts,
    MaxLock,        \* bound on the amount of a lock
    MIN_ROWS,       \* fewer rows are taken for a failed read (1000)
    FLOOR,          \* REPUBLISH_FLOOR_MS, in base ticks
    Queries,        \* the queries of one request
    LastTick,       \* bound on the base ticks and starts of the process
    MaxChanges,     \* bound on the changes of locks on the chain
    MaxSlips        \* bound on failed calls and deaths

ASSUME SnapshotAssumption ==
    /\ IsFiniteSet(Accounts)
    /\ {MaxLock, MIN_ROWS, FLOOR} \subseteq Nat \ {0}
    /\ {LastTick, MaxChanges, MaxSlips} \subseteq Nat

None == [id |-> 0, at |-> 0, rows |-> {}]
LockRow == [account : Accounts, amount : 1 .. MaxLock]

VARIABLES
    locks,      \* Balances.Locks at the head of the node
    changes,
    now,        \* base ticks and starts; later passes have later ones
    pass,       \* the pass under way: [step, ...]
    parts,      \* rows of account_lock_snapshots, by partition
    pointer,    \* the row of account_lock_snapshot_state with the latest computed_at
    request,    \* what each query of the request has found: a partition, then rows
    afloat,     \* statements whose client has gone
    moved,      \* accounts whose lock changed since the pass began
    failed,     \* accounts whose chunk of values did not come
    slips

snapVars == <<locks, changes, now, pass, parts, pointer, request, afloat, moved, failed, slips>>
store == <<parts, pointer, afloat>>
node == <<locks, changes, moved>>

Held(id) == {r.row : r \in {p \in parts : p.id = id}}

----------------------------------------------------------------------------
(* The chain and the timer. *)

Change(a, n) ==
    /\ changes < MaxChanges
    /\ locks[a] # n
    /\ locks' = [locks EXCEPT ![a] = n]
    /\ changes' = changes + 1
    /\ moved' = moved \cup {a}
    /\ UNCHANGED <<now, pass, store, request, failed, slips>>

Waiting == [step |-> "wait", keys |-> {}, read |-> {}, id |-> 0, left |-> {}, seen |-> None]
GoesTo(step) == pass' = [pass EXCEPT !.step = step]
InStep(step) == pass.step = step

\* runGuardedBatch: the proxy task runs first; its outcome is not looked at.
Begin ==
    /\ pass' = [Waiting EXCEPT !.step = "keys"]
    /\ moved' = {} /\ failed' = {}

BaseTick ==
    /\ ~InStep("boot") /\ now < LastTick
    /\ now' = now + 1
    /\ IF InStep("wait") THEN Begin ELSE UNCHANGED <<pass, moved, failed>>   \* tickInFlight
    /\ UNCHANGED <<locks, changes, store, request, slips>>

Boot ==
    /\ InStep("boot") /\ now < LastTick
    /\ now' = now + 1
    /\ Begin
    /\ UNCHANGED <<locks, changes, store, request, slips>>

----------------------------------------------------------------------------
(* The enumeration. *)

\* substrateAllKeys; a page that does not come ends the pass (PassFails).
ReadKeys ==
    /\ InStep("keys")
    /\ LET keys == {a \in Accounts : locks[a] > 0} IN
       pass' = [pass EXCEPT !.step = IF keys = {} THEN "wait" ELSE "values", !.keys = keys]
    /\ UNCHANGED <<node, now, store, request, failed, slips>>

\* substrateStorageBatch: a chunk reads the head as it is, or stays null.
ReadValue(a) ==
    /\ InStep("values") /\ a \in pass.keys
    /\ pass' = [pass EXCEPT !.keys = @ \ {a},
                   !.read = @ \cup {[account |-> a, amount |-> n] : n \in {locks[a]} \ {0}}]
    /\ UNCHANGED <<node, now, store, request, failed, slips>>

ValueLost(a) ==
    /\ InStep("values") /\ a \in pass.keys
    /\ slips < MaxSlips
    /\ slips' = slips + 1
    /\ failed' = failed \cup {a}
    /\ pass' = [pass EXCEPT !.keys = @ \ {a}]
    /\ UNCHANGED <<node, now, store, request>>

\* Nothing but nulls is an incomplete enumeration; some nulls are not.
Enumerated ==
    /\ InStep("values") /\ pass.keys = {}
    /\ IF Cardinality(pass.read) < MIN_ROWS
       THEN pass' = Waiting
       ELSE pass' = [pass EXCEPT !.step = "compare", !.id = now]
    /\ UNCHANGED <<node, now, store, request, failed, slips>>

----------------------------------------------------------------------------
(* persistLockSnapshot. *)

\* Mutant: as many rows are taken for the same rows.
SameCount(p, rows) == Cardinality(p.rows) = Cardinality(rows)
SameRows(p, rows) == p.rows = rows

\* loadPublishedGeneration.
Compare ==
    /\ InStep("compare")
    /\ IF pointer # None /\ SameRows(pointer, pass.read)
       THEN pass' = [pass EXCEPT !.step = "count", !.seen = pointer]
       ELSE pass' = [pass EXCEPT !.step = "insert", !.left = pass.read]
    /\ UNCHANGED <<node, now, store, request, failed, slips>>

\* activePartitionRows and skipDecision.
Skips == Cardinality(Held(pass.seen.id)) = Cardinality(pass.seen.rows)
            /\ pass.id - pass.seen.at < FLOOR
Count ==
    /\ InStep("count")
    /\ IF Skips THEN GoesTo("done")
       ELSE pass' = [pass EXCEPT !.step = "insert", !.left = pass.read]
    /\ UNCHANGED <<node, now, store, request, failed, slips>>

\* A statement of the pass: rows, the pointer or a partition to drop.
Put(r) == [kind |-> "row", id |-> pass.id, row |-> r]
Point == [kind |-> "pointer", to |-> [id |-> pass.id, at |-> pass.id, rows |-> pass.read]]
DropOf(id) == [kind |-> "drop", id |-> id]

\* What the server makes of it; of two pointers the later computed_at counts.
Applied(s) ==
    /\ parts' = CASE s.kind = "row" -> parts \cup {[id |-> s.id, row |-> s.row]}
                  [] s.kind = "drop" -> {p \in parts : p.id # s.id}
                  [] OTHER -> parts
    /\ pointer' = IF s.kind = "pointer" /\ s.to.at >= pointer.at THEN s.to ELSE pointer

\* The statement the pass waits for.
Statement ==
    CASE InStep("insert") -> {Put(r) : r \in pass.left}
      [] InStep("flip") -> {Point}
      [] InStep("drop") -> {DropOf(id) : id \in pass.left}
      [] OTHER -> {}

InsertRow ==
    /\ InStep("insert")
    /\ \E s \in Statement :
        /\ Applied(s)
        /\ pass' = [pass EXCEPT !.left = @ \ {s.row},
                       !.step = IF pass.left = {s.row} THEN "verify" ELSE "insert"]
    /\ UNCHANGED <<node, now, afloat, request, failed, slips>>

Verify ==
    /\ InStep("verify")
    /\ IF Cardinality(Held(pass.id)) = Cardinality(pass.read) THEN GoesTo("flip") ELSE pass' = Waiting
    /\ UNCHANGED <<node, now, store, request, failed, slips>>

Flip ==
    /\ InStep("flip")
    /\ Applied(Point)
    /\ GoesTo("list")
    /\ UNCHANGED <<node, now, afloat, request, failed, slips>>

Superseded == {p.id : p \in parts} \ {pass.id}
List ==
    /\ InStep("list")
    /\ pass' = [pass EXCEPT !.step = IF Superseded = {} THEN "done" ELSE "drop",
                             !.left = Superseded]
    /\ UNCHANGED <<node, now, store, request, failed, slips>>

Drop ==
    /\ InStep("drop")
    /\ \E s \in Statement :
        /\ Applied(s)
        /\ pass' = [pass EXCEPT !.left = @ \ {s.id},
                       !.step = IF pass.left = {s.id} THEN "done" ELSE "drop"]
    /\ UNCHANGED <<node, now, afloat, request, failed, slips>>

Finish ==
    /\ InStep("done")
    /\ pass' = Waiting
    /\ UNCHANGED <<node, now, store, request, failed, slips>>

\* A call that throws ends the pass, a death the process; the statement on its way is
\* carried out later or never.
Abandons(after) ==
    /\ ~InStep("wait") /\ ~InStep("boot")
    /\ slips < MaxSlips
    /\ slips' = slips + 1
    /\ pass' = [Waiting EXCEPT !.step = after]
    /\ afloat' \in {afloat} \cup {afloat \cup {s} : s \in Statement}
    /\ UNCHANGED <<node, now, parts, pointer, request, failed>>

PassFails == Abandons("wait")
ProcessDies == Abandons("boot")

Lands(s) ==
    /\ Applied(s)
    /\ afloat' = afloat \ {s}
    /\ UNCHANGED <<node, now, pass, request, failed, slips>>

----------------------------------------------------------------------------
(* queryLockBreakdowns: every query looks the pointer up and then scans. *)

LooksUp(q) ==
    /\ request[q].step = "none"
    /\ request' = [request EXCEPT ![q] = [step |-> "scan", of |-> pointer, rows |-> {}]]
    /\ UNCHANGED <<node, now, pass, store, failed, slips>>

Scans(q) ==
    /\ request[q].step = "scan"
    /\ request' = [request EXCEPT ![q].step = "answer", ![q].rows = Held(request[q].of.id)]
    /\ UNCHANGED <<node, now, pass, store, failed, slips>>

Nothing == [step |-> "none", of |-> None, rows |-> {}]
Answered ==
    /\ \A q \in Queries : request[q].step = "answer"
    /\ request' = [q \in Queries |-> Nothing]
    /\ UNCHANGED <<node, now, pass, store, failed, slips>>

----------------------------------------------------------------------------
SnapInit ==
    /\ locks \in [Accounts -> 0 .. MaxLock]
    /\ changes = 0 /\ now = 0
    /\ pass = [Waiting EXCEPT !.step = "boot"]
    /\ parts = {} /\ pointer = None /\ afloat = {}
    /\ request = [q \in Queries |-> Nothing]
    /\ moved = {} /\ failed = {} /\ slips = 0

SnapNext ==
    \/ \E a \in Accounts, n \in 0 .. MaxLock : Change(a, n)
    \/ BaseTick \/ Boot
    \/ ReadKeys
    \/ \E a \in Accounts : ReadValue(a) \/ ValueLost(a)
    \/ Enumerated \/ Compare \/ Count \/ InsertRow \/ Verify \/ Flip \/ List \/ Drop \/ Finish
    \/ PassFails \/ ProcessDies
    \/ \E s \in afloat : Lands(s)
    \/ \E q \in Queries : LooksUp(q) \/ Scans(q)
    \/ Answered

SnapSpec == SnapInit /\ [][SnapNext]_snapVars

----------------------------------------------------------------------------
(* Properties. *)

Generation == [id : 0 .. LastTick, at : 0 .. LastTick, rows : SUBSET LockRow]

SnapTypeOK ==
    /\ locks \in [Accounts -> 0 .. MaxLock] /\ changes \in 0 .. MaxChanges
    /\ now \in 0 .. LastTick /\ slips \in 0 .. MaxSlips
    /\ pass.step \in {"boot", "wait", "keys", "values", "compare", "count", "insert",
                      "verify", "flip", "list", "drop", "done"}
    /\ pass.read \subseteq LockRow /\ pass.seen \in Generation
    /\ parts \subseteq [id : 1 .. LastTick, row : LockRow]
    /\ pointer \in Generation
    /\ moved \cup failed \subseteq Accounts

\* The partition the pointer names is there with every row the pointer was moved for,
\* whatever failed, died or landed late around the insert, the flip and the drops.
PointerWhole == Held(pointer.id) = pointer.rows

\* A pointer an earlier pass had given up landed after this pass had made its comparison.
Overtaken == pointer.id # pass.id /\ pointer # pass.seen

\* At the end of a pass the pointer says of every account what the chain says, unless
\* its lock has changed since the pass began or its chunk did not come, whether the pass
\* published or found that it need not (skipDecision, persistLockSnapshot).
PublishedCurrent ==
    InStep("done") /\ ~Overtaken =>
        \A a \in Accounts \ (moved \cup failed) :
            {r.amount : r \in {x \in pointer.rows : x.account = a}} = {locks[a]} \ {0}

\* A query answers with a whole generation, or with nothing because the generation it
\* had looked up was superseded and dropped before it scanned.
AnswersWhole ==
    \A q \in Queries : request[q].step = "answer" =>
        \/ request[q].rows = request[q].of.rows
        \/ request[q].rows = {} /\ request[q].of.at < pointer.at

SnapshotsSound == SnapTypeOK /\ PointerWhole /\ PublishedCurrent /\ AnswersWhole
=============================================================================
