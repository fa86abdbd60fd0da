----------------------------- MODULE ChainHead -----------------------------
(***************************************************************************)
(* The chain head the API reports: the sampler (chainHeadSampler.ts), the  *)
(* timer that drives it and the /indexer route that reads it (routes/      *)
(* indexer.ts).  An attempt to read the head may fail, answer late, or     *)
(* never settle.                                                           *)
(*                                                                         *)
(* A height is known by its age, the time since the node had it as its     *)
(* head; time is counted in intervals of the timer.  Timers that are due   *)
(* fire within the interval, in any order.                                 *)
(***************************************************************************)
EXTENDS Integers, FiniteSets

CONSTANTS
    HEAD_TIMEOUT,   \* CHAIN_HEAD_TIMEOUT_MS
    HEAD_STALE,     \* CHAIN_HEAD_STALE_MS
    STATUS_TTL,     \* TTL_MS
    STATUS_QUERY    \* longest the queries of /indexer take

ASSUME ChainHeadAssumption ==
    /\ HEAD_TIMEOUT \in Nat \ {0} /\ HEAD_STALE \in Nat
    /\ STATUS_TTL \in Nat \ {0} /\ STATUS_QUERY \in Nat

Oldest == HEAD_TIMEOUT + HEAD_STALE + STATUS_QUERY + STATUS_TTL + 1     \* ages are counted up to this
HeadAge == 0 .. Oldest
Never == -1

VARIABLES
    marker,     \* refreshStartedAt: age of the attempt in flight
    attempts,   \* ages of the attempts that have not settled
    sampleDue,  \* the timer has fired
    sampled,    \* sampledAt: age of the last successful sample
    height,     \* age of the height it brought
    load,       \* /indexer, inflight: age of its queries and of its height
    status      \* /indexer, cache: age of the entry and of its height

headVars == <<marker, attempts, sampleDue, sampled, height, load, status>>

Later(age) == IF age = Never \/ age = Oldest THEN age ELSE age + 1
NoStatus == [age |-> Never, height |-> Never]

----------------------------------------------------------------------------
(* The sampler. *)

\* Mutant: the marker is never looked at.
InFlightNever == FALSE
\* The marker is a deadline, not a boolean.
InFlight == marker # Never /\ marker < HEAD_TIMEOUT

Refresh ==
    /\ sampleDue
    /\ sampleDue' = FALSE
    /\ IF InFlight
       THEN UNCHANGED <<marker, attempts>>
       ELSE marker' = 0 /\ attempts' = attempts \cup {0}
    /\ UNCHANGED <<sampled, height, load, status>>

\* The finally of refresh, whoever set the marker.
Settled(a) ==
    /\ attempts' = attempts \ {a}
    /\ marker' = Never

\* Mutant: only the height is new.
TakenSince(answer) == height' = answer /\ sampled' = IF sampled = Never THEN 0 ELSE sampled
\* A height sampled now.
Taken(answer) == height' = answer /\ sampled' = 0

\* The node answered with its head of some time since the attempt began.
Answer(a) ==
    /\ \E answer \in 0 .. a : Taken(answer)
    /\ Settled(a)
    /\ UNCHANGED <<sampleDue, load, status>>

\* It failed, or settleWithin gave up.
NoAnswer(a) ==
    /\ Settled(a)
    /\ UNCHANGED <<sampleDue, sampled, height, load, status>>

\* Mutant: the age of a sample is not looked at.
CurrentAnyAge == IF sampled = Never THEN Never ELSE height
\* current.
Current == IF sampled = Never \/ sampled > HEAD_STALE THEN Never ELSE height

----------------------------------------------------------------------------
(* /indexer. *)

\* A request that finds neither a young status nor a load takes the sample and
\* begins its queries.
LoadStart ==
    /\ status.age = Never \/ status.age >= STATUS_TTL
    /\ load = NoStatus
    /\ load' = [age |-> 0, height |-> Current]
    /\ UNCHANGED <<marker, attempts, sampleDue, sampled, height, status>>

LoadEnd ==
    /\ load # NoStatus
    /\ load' = NoStatus
    /\ \/ status' = [age |-> 0, height |-> load.height]
       \/ status' = status      \* a query failed
    /\ UNCHANGED <<marker, attempts, sampleDue, sampled, height>>

----------------------------------------------------------------------------
\* settleWithin waits no longer.
Within(a) == a < HEAD_TIMEOUT

\* Attempts are given up, and queries end, in their time.
HeadTick ==
    /\ ~sampleDue
    /\ \A a \in attempts : Within(a)
    /\ load # NoStatus => load.age < STATUS_QUERY
    /\ sampleDue' = TRUE
    /\ marker' = Later(marker)
    /\ attempts' = {a + 1 : a \in attempts}
    /\ sampled' = Later(sampled) /\ height' = Later(height)
    /\ load' = [age |-> Later(load.age), height |-> Later(load.height)]
    /\ status' = [age |-> Later(status.age), height |-> Later(status.height)]

HeadInit ==
    /\ marker = Never /\ attempts = {} /\ sampleDue = TRUE
    /\ sampled = Never /\ height = Never
    /\ load = NoStatus /\ status = NoStatus

HeadNext ==
    \/ Refresh \/ LoadStart \/ LoadEnd \/ HeadTick
    \/ \E a \in attempts : Answer(a) \/ NoAnswer(a)

HeadSpec == HeadInit /\ [][HeadNext]_headVars

\* Timers fire, queries end, and the node does not leave every attempt unanswered.
HeadFairness ==
    /\ WF_headVars(Refresh) /\ WF_headVars(HeadTick) /\ WF_headVars(LoadEnd)
    /\ WF_headVars(\E a \in attempts : a = HEAD_TIMEOUT /\ NoAnswer(a))
    /\ SF_headVars(\E a \in attempts : Answer(a))

HeadFairSpec == HeadSpec /\ HeadFairness

----------------------------------------------------------------------------
(* Properties. *)

HeadTypeOK ==
    /\ marker \in HeadAge \cup {Never}
    /\ attempts \subseteq 0 .. HEAD_TIMEOUT
    /\ sampleDue \in BOOLEAN
    /\ sampled \in HeadAge \cup {Never} /\ height \in HeadAge \cup {Never}
    /\ load \in [age : HeadAge \cup {Never}, height : HeadAge \cup {Never}]
    /\ status \in [age : HeadAge \cup {Never}, height : HeadAge \cup {Never}]

\* An attempt that lapses clears the marker of the one that replaced it
\* (chainHeadSampler.ts:52); still no more than two are ever in flight.
TwoAtOnce == Cardinality(attempts) <= 2

\* A stale height never passes for a fresh one (chainHeadSampler.ts:33-34): what
\* /indexer answers as sampled was the node's head at most so long ago.
ReportedRecent ==
    (status.age # Never /\ status.age < STATUS_TTL /\ status.height # Never) =>
        status.height < HEAD_TIMEOUT + HEAD_STALE + STATUS_QUERY + STATUS_TTL

\* The marker keeps the attempts apart well enough, though it is not theirs alone, and
\* what is answered as sampled is.
HeadSound == HeadTypeOK /\ TwoAtOnce /\ ReportedRecent

\* Whatever fails or never settles, the sampler comes back to a fresh height
\* (chainHeadSampler.ts:31-32).
FreshAgain == []<>(Current # Never)

=============================================================================
