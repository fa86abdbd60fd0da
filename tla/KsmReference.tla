---------------------------- MODULE KsmReference ----------------------------
(***************************************************************************)
(* The KSM/USD reference (price/reference.ts, price/referenceService.ts):  *)
(* the table of daily closes and intraday rows, the index a price pipeline *)
(* keeps of it in memory, the reload of that index, and the live poll that *)
(* writes the row of the current day and settles the recent days.  A       *)
(* query, an insert and a request to CoinGecko take time, and what they    *)
(* are awaited between may happen in any order.                            *)
(*                                                                         *)
(* Time is counted in days.  A price is known by when it was quoted: two   *)
(* polls between which the market did not move bring the same one.         *)
(***************************************************************************)
EXTENDS Integers, FiniteSetsExt

CONSTANTS
    LAST_DAY,      \* bound: days 0 .. LAST_DAY
    LIVE_WINDOW,   \* liveWindowMs, in days
    MAX_STALE,     \* MAX_SETTLED_STALENESS_DAYS
    SETTLE_RECENT, \* SETTLE_RECENT_DAYS
    MaxQuotes,     \* bound: how often the market moves
    MaxFaults      \* bound: requests and inserts that fail

ASSUME KsmReferenceAssumption ==
    /\ {LAST_DAY, SETTLE_RECENT, MaxQuotes} \subseteq Nat \ {0}
    /\ {LIVE_WINDOW, MAX_STALE, MaxFaults} \subseteq Nat

VARIABLES
    today,      \* the UTC day
    quote,      \* the last price the market was polled at
    stored,     \* price_data.ksm_usd_reference
    index,      \* KsmReferenceIndex of the pipeline
    reload,     \* reload(): the rows its query answered
    poll,       \* poll(): the await it is at, its day, the days it settles
    throttled,  \* lastSettleAttemptMs is less than SETTLE_RETRY_MS ago
    faults

refVars == <<today, quote, stored, index, reload, poll, throttled, faults>>

Days == 0 .. LAST_DAY
Reference == [closes : SUBSET Days, lives : [Days -> 0 .. MaxQuotes]]  \* 0: no row
NoReload == [none |-> TRUE]
NotPolling == [pc |-> "idle", day |-> 0, days |-> {}]
NoAnchor == [grain |-> "none", day |-> 0, quote |-> 0]

----------------------------------------------------------------------------
(* The index. *)

PutLive(ref, day, q) == [ref EXCEPT !.lives[day] = q]
PutCloses(ref, days) == [ref EXCEPT !.closes = @ \cup days]

LatestSettledBefore(ref, day) == {Max(before) : before \in {{c \in ref.closes : c < day}} \ {{}}}

Settled(ref, day) ==
    {[grain |-> "close", day |-> c, quote |-> 0] :
        c \in {s \in LatestSettledBefore(ref, day) : day - s <= MAX_STALE}}

\* The anchor of a block of a day.
Lookup(ref, day, now) ==
    IF now - day <= LIVE_WINDOW /\ ref.lives[day] # 0
    THEN [grain |-> "live", day |-> day, quote |-> ref.lives[day]]
    ELSE IF Settled(ref, day) = {} THEN NoAnchor
         ELSE CHOOSE anchor \in Settled(ref, day) : TRUE

MissingSettledDays(ref, from, now) == {d \in Days : from <= d /\ d < now} \ ref.closes

----------------------------------------------------------------------------
(* reload(): the table answers, then the index is replaced. *)

ReloadAsked == reload' = stored

ReloadAnswered ==
    /\ index' = reload
    /\ reload' = NoReload
    /\ UNCHANGED <<today, quote, stored, poll, throttled, faults>>

\* The index that is loaded goes on serving.
ReloadFailed ==
    /\ faults < MaxFaults
    /\ faults' = faults + 1
    /\ reload' = NoReload
    /\ UNCHANGED <<today, quote, stored, index, poll, throttled>>

----------------------------------------------------------------------------
(* poll(), on its timer. *)

PollStart ==
    /\ poll.pc = "idle"
    /\ poll' = [pc |-> "ask", day |-> today, days |-> {}]
    /\ UNCHANGED <<today, quote, stored, index, reload, throttled, faults>>

\* simple/price answers and the row of the day is in the table.
PollInsert ==
    /\ poll.pc = "ask"
    /\ quote' \in {IF quote = 0 THEN 1 ELSE quote, IF quote < MaxQuotes THEN quote + 1 ELSE quote}
    /\ stored' = PutLive(stored, poll.day, quote')
    /\ poll' = [poll EXCEPT !.pc = "inserted"]
    /\ UNCHANGED <<today, index, reload, throttled, faults>>

\* The recent days that have no close are settled, at most once an hour.
PollPut ==
    /\ poll.pc = "inserted"
    /\ index' = PutLive(index, poll.day, quote)
    /\ LET wanted == MissingSettledDays(index, poll.day - SETTLE_RECENT, poll.day) IN
       IF wanted = {} \/ throttled
       THEN poll' = NotPolling /\ UNCHANGED throttled
       ELSE /\ poll' = [poll EXCEPT !.pc = "settle", !.days = wanted]
            /\ throttled' = TRUE
    /\ UNCHANGED <<today, quote, stored, reload, faults>>

\* market_chart answers; the last midnight may not be in it yet.
SettleInsert ==
    /\ poll.pc = "settle"
    /\ \/ poll' = [poll EXCEPT !.pc = "settled"] /\ UNCHANGED faults
       \/ /\ faults < MaxFaults
          /\ faults' = faults + 1
          /\ poll' = IF poll.days = {Max(poll.days)} THEN NotPolling
                     ELSE [poll EXCEPT !.pc = "settled", !.days = @ \ {Max(@)}]
    /\ stored' = IF poll'.pc = "settled" THEN PutCloses(stored, poll'.days) ELSE stored
    /\ UNCHANGED <<today, quote, index, reload, throttled>>

SettlePut ==
    /\ poll.pc = "settled"
    /\ index' = PutCloses(index, poll.days)
    /\ poll' = NotPolling
    /\ UNCHANGED <<today, quote, stored, reload, throttled, faults>>

\* Mutant: the flag is cleared on success only.
PollFailsStuck ==
    /\ poll.pc \in {"ask", "inserted", "settle", "settled"}
    /\ faults < MaxFaults
    /\ faults' = faults + 1
    /\ poll' = [poll EXCEPT !.pc = "stuck"]
    /\ UNCHANGED <<today, quote, stored, index, reload, throttled>>

\* A request or an insert fails; an insert that failed may be in the table.
PollFails ==
    /\ poll.pc \in {"ask", "inserted", "settle", "settled"}
    /\ faults < MaxFaults
    /\ faults' = faults + 1
    /\ poll' = NotPolling
    /\ UNCHANGED <<today, quote, stored, index, reload, throttled>>

\* SETTLE_RETRY_MS passes.
RetryDue ==
    /\ throttled
    /\ throttled' = FALSE
    /\ UNCHANGED <<today, quote, stored, index, reload, poll, faults>>

Poll == PollStart \/ PollInsert \/ PollPut \/ SettleInsert \/ SettlePut

----------------------------------------------------------------------------
(* Around it. *)

Midnight ==
    /\ today < LAST_DAY
    /\ today' = today + 1
    /\ UNCHANGED <<quote, stored, index, reload, poll, throttled, faults>>

\* backfill-ksm-reference: fills holes of days that have ended.
BackfillReference ==
    /\ \E days \in SUBSET MissingSettledDays(stored, 0, today) \ {{}} :
           stored' = PutCloses(stored, days)
    /\ UNCHANGED <<today, quote, index, reload, poll, throttled, faults>>

RefInit ==
    /\ today = 0
    /\ quote = 0
    /\ stored = [closes |-> {}, lives |-> [d \in Days |-> 0]]
    /\ index = stored
    /\ reload = NoReload
    /\ poll = NotPolling
    /\ throttled = FALSE
    /\ faults = 0

\* start() of a new process: the index is loaded before anything else.
ReferenceStart ==
    /\ index' = stored
    /\ reload' = NoReload
    /\ poll' = NotPolling
    /\ throttled' = FALSE
    /\ UNCHANGED <<today, quote, stored>>

ReferenceStep == Poll \/ PollFails \/ RetryDue \/ Midnight \/ BackfillReference

ReferenceTypeOK ==
    /\ today \in Days
    /\ quote \in 0 .. MaxQuotes
    /\ {stored, index} \subseteq Reference
    /\ reload \in Reference \cup {NoReload}
    /\ poll \in [pc : {"idle", "ask", "inserted", "settle", "settled"}, day : Days, days : SUBSET Days]
    /\ throttled \in BOOLEAN
    /\ faults \in 0 .. MaxFaults
=============================================================================
