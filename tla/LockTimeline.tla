---------------------------- MODULE LockTimeline ----------------------------
(***************************************************************************)
(* When locked balance comes free (api/src/services/                       *)
(* lockBreakdownService.ts): every lock of an account is split into        *)
(* tranches, the locks together, which overlap, into the slices of one     *)
(* timeline, and the timelines and tranches of several accounts are merged *)
(* for a tag, with a bound on the dates that are kept apart.               *)
(*                                                                         *)
(* Instants are counted from now = 0 on the grid of the projections; a     *)
(* schedule may end or a prior lapse at or before now.                     *)
(***************************************************************************)
EXTENDS Integers, FiniteSetsExt

CONSTANTS
    Holders,        \* the accounts of a tag
    Tags,           \* what they may hold, each: [vesting, vote, static]
    Horizon,        \* no date is later
    MAX_TIMELINE_STEPS,
    MAX_SCHEDULED_TRANCHES

Instant == 0 .. Horizon
LockSources == {"vesting", "vote", "static"}

\* A vesting lock of which `claimable` has vested, a vote lock over its conviction
\* classes, and a lock without an end (delegation, elections, sufficiency).
Class == [active : Nat, prior : Nat, unlock : Instant]
AccountLocks == [vesting : [amount : Nat, claimable : Nat, end : Instant],
           vote : [amount : Nat, classes : SUBSET Class],
           static : Nat]

ASSUME TimelineAssumption ==
    /\ IsFiniteSet(Holders) /\ Horizon \in Nat
    /\ {MAX_TIMELINE_STEPS, MAX_SCHEDULED_TRANCHES} \subseteq Nat \ {0}
    /\ Tags \subseteq [Holders -> AccountLocks]
    /\ \A f \in Tags : \A a \in Holders :
        f[a].vesting.claimable <= f[a].vesting.amount /\ IsFiniteSet(f[a].vote.classes)

VARIABLES
    holders,    \* the locks of each account when the pass reads them
    stored,     \* account_lock_snapshots: what the pass makes of them
    view        \* what a request for the tag is told

lineVars == <<holders, stored, view>>

Lower(m, n) == IF m < n THEN m ELSE n
Highest(S) == Max(S \cup {0})
Total(S) == MapThenSumSet(LAMBDA s : s.amount, S)

----------------------------------------------------------------------------
(* The locks of an account (collectLockBreakdownRows). *)

OnChain(h) == [vesting |-> h.vesting.amount, vote |-> h.vote.amount, static |-> h.static]
HeldBy(h) == {s \in LockSources : OnChain(h)[s] > 0}
Frozen(h) == Highest({OnChain(h)[s] : s \in HeldBy(h)})

StillVesting(h) == h.vesting.amount - h.vesting.claimable
VestingEnv(h, t) ==
    IF t >= h.vesting.end THEN 0
    ELSE (StillVesting(h) * (h.vesting.end - t)) \div h.vesting.end
PriorEnv(h, t) == Highest({c.prior : c \in {d \in h.vote.classes : t < d.unlock}})

\* What a source needs at t if the owner acts now, never more than its lock.
Capped(h, s, t) ==
    Lower(OnChain(h)[s],
          CASE s = "vesting" -> VestingEnv(h, t)
            [] s = "vote" -> PriorEnv(h, t)
            [] s = "static" -> h.static)
Envelope(h, t) == Highest({Capped(h, s, t) : s \in HeldBy(h)})
Dated(h, t) == Highest({Capped(h, s, t) : s \in HeldBy(h) \ {"static"}})

\* The open floor of a source: of a vote it is soft, of a lock without end hard.
Open(h, s) ==
    CASE s = "vesting" -> 0
      [] s = "vote" -> Lower(h.vote.amount, Highest({c.active : c \in h.vote.classes}))
      [] s = "static" -> h.static
SoftFloor(h) == IF "vote" \in HeldBy(h) THEN Open(h, "vote") ELSE 0

Priors(h) == {c.unlock : c \in {d \in h.vote.classes : d.prior > 0 /\ d.unlock > 0}}
Steps(h) ==
    (IF "vesting" \in HeldBy(h) /\ StillVesting(h) > 0 THEN {h.vesting.end} \ {0} ELSE {})
        \cup (IF "vote" \in HeldBy(h) THEN Priors(h) ELSE {})

----------------------------------------------------------------------------
(* buildBindingTimeline. *)

Slice(state, cause, amount, until, linear) ==
    [state |-> state, cause |-> cause, amount |-> amount, until |-> until, linear |-> linear]

Earliest(n, S) == {t \in S : Cardinality({u \in S : u < t}) < n}

\* Mutant: too many dates and the latest are forgotten.
FirstSteps(h) == Earliest(MAX_TIMELINE_STEPS, Steps(h))
\* The tail is folded into the last date.
KeptSteps(h) ==
    IF Cardinality(Steps(h)) <= MAX_TIMELINE_STEPS THEN Steps(h)
    ELSE Earliest(MAX_TIMELINE_STEPS - 1, Steps(h)) \cup {Max(Steps(h))}

Before(h, t) == Highest({u \in KeptSteps(h) : u < t})
Binding(h, t) == {s \in HeldBy(h) : Capped(h, s, t) = Envelope(h, t)}

\* What the hard envelope leaves uncovered: the votes that are still cast, then the rest.
SoftShown(h) == Highest({SoftFloor(h) - Envelope(h, 0)})
Releasable(h) ==
    {Slice("releasable", {s \in HeldBy(h) : OnChain(h)[s] = Frozen(h)}, n, 0, FALSE) :
        n \in {Frozen(h) - Envelope(h, 0) - SoftShown(h)} \ {0}}
SoftOpen(h) == {Slice("active", {"vote"}, n, 0, FALSE) : n \in {SoftShown(h)} \ {0}}

\* A drop of the envelope is due to the locks that had bound it: they all drop.
Drops(h) == {t \in KeptSteps(h) : Envelope(h, t) < Envelope(h, Before(h, t))}
Scheduled(h) ==
    {Slice("scheduled", Binding(h, Before(h, t)), Envelope(h, Before(h, t)) - Envelope(h, t), t,
           "vesting" \in Binding(h, Before(h, t))) : t \in Drops(h)}

\* What stays in the end, with the date before which dated locks hold as much.
Rest(h) == Envelope(h, Highest(KeptSteps(h)))
NotBefore(h) == Highest({t \in KeptSteps(h) : Dated(h, Before(h, t)) >= Rest(h)})
Residual(h) ==
    {Slice("active", {s \in HeldBy(h) : Open(h, s) = n}, n, NotBefore(h), FALSE) :
        n \in {Rest(h)} \ {0}}

Timeline(h) == Releasable(h) \cup SoftOpen(h) \cup Scheduled(h) \cup Residual(h)

----------------------------------------------------------------------------
(* vestingTranches and voteLockTranches: one lock on its own, no causes. *)

Tranche(state, amount, until, linear) ==
    {Slice(state, {}, n, until, linear) : n \in {amount} \ {0}}

VestingTranches(h) ==
    Tranche("releasable", h.vesting.claimable, 0, FALSE)
        \cup Tranche("scheduled", StillVesting(h), h.vesting.end, TRUE)

VoteBound(h, t) == Lower(h.vote.amount, Highest({PriorEnv(h, t)} \cup {c.active : c \in h.vote.classes}))
LastPrior(h, t) == Highest({u \in Priors(h) : u < t})
VoteTranches(h) ==
    IF h.vote.amount = 0 THEN {}
    ELSE Tranche("releasable", h.vote.amount - VoteBound(h, 0), 0, FALSE)
            \cup (UNION {Tranche("scheduled", VoteBound(h, LastPrior(h, t)) - VoteBound(h, t), t, FALSE)
                            : t \in Priors(h)})
            \cup Tranche("active", VoteBound(h, Highest(Priors(h))), 0, FALSE)

----------------------------------------------------------------------------
(* mergeTimelines and mergeTranches: slices of several accounts, by date and cause. *)

Key(e) == [cause |-> e.cause, until |-> e.until]
Of(all, state) == {p \in all : p.slice.state = state}
SumOf(ps) == MapThenSumSet(LAMBDA p : p.slice.amount, ps)
IsLinear(ps) == \E p \in ps : p.slice.linear

Group(all, state) ==
    {Slice(state, k.cause, SumOf({p \in Of(all, state) : Key(p.slice) = k}), k.until,
           IsLinear({p \in Of(all, state) : Key(p.slice) = k})) :
        k \in {Key(p.slice) : p \in Of(all, state)}}

\* The dates that are kept apart; which of several on one day is a matter of spelling.
DatesKept(dates) ==
    {kept \in SUBSET dates :
        /\ Cardinality(kept) = Lower(Cardinality(dates), MAX_SCHEDULED_TRANCHES - 1)
        /\ \A k \in kept, d \in dates \ kept : k.until <= d.until}

FoldedTail(tail) ==
    IF tail = {} THEN {}
    ELSE {Slice("scheduled", UNION {d.cause : d \in tail}, Total(tail), Max({d.until : d \in tail}),
                \E d \in tail : d.linear)}

\* The answers for the slices `all`; a folded date may look like one that was kept.
Merges(all) ==
    {[now |-> Group(all, "releasable"), kept |-> kept,
      tail |-> FoldedTail(Group(all, "scheduled") \ kept), open |-> Group(all, "active")] :
        kept \in DatesKept(Group(all, "scheduled"))}

----------------------------------------------------------------------------
Empty == [now |-> {}, kept |-> {}, tail |-> {}, open |-> {}]
Kinds == {"timeline", "vesting", "vote"}

Detail(h) == [timeline |-> Timeline(h), vesting |-> VestingTranches(h), vote |-> VoteTranches(h)]
NoDetail == [timeline |-> {}, vesting |-> {}, vote |-> {}]

Collect ==
    /\ stored = [a \in Holders |-> NoDetail]
    /\ stored' = [a \in Holders |-> Detail(holders[a])]
    /\ UNCHANGED <<holders, view>>

Slices(kind) == UNION {{[of |-> a, slice |-> s] : s \in stored[a][kind]} : a \in Holders}

\* queryLockBreakdowns, over one generation.
AnswerTag ==
    /\ stored # [a \in Holders |-> NoDetail]
    /\ view = [k \in Kinds |-> Empty]
    /\ \E line \in Merges(Slices("timeline")), vesting \in Merges(Slices("vesting")),
          vote \in Merges(Slices("vote")) :
        view' = [timeline |-> line, vesting |-> vesting, vote |-> vote]
    /\ UNCHANGED <<holders, stored>>

LineInit ==
    /\ holders \in Tags
    /\ stored = [a \in Holders |-> NoDetail]
    /\ view = [k \in Kinds |-> Empty]

LineNext == Collect \/ AnswerTag

LineSpec == LineInit /\ [][LineNext]_lineVars

----------------------------------------------------------------------------
(* Properties. *)

ReleasedBy(slices, t) ==
    Total({s \in slices : s.state = "releasable" \/ (s.state = "scheduled" /\ s.until <= t)})

LineTypeOK ==
    /\ holders \in [Holders -> AccountLocks]
    /\ \A a \in Holders, k \in Kinds : \A s \in stored[a][k] :
        /\ s.amount \in Nat \ {0} /\ s.until \in Instant /\ s.cause \subseteq LockSources
    /\ DOMAIN view = Kinds

Collected == stored # [a \in Holders |-> NoDetail]

\* The slices of an account add up to what is frozen.  Nothing is shown free while a
\* lock still needs it, and at every date of the timeline no more is shown held than
\* its locks hold if the votes stay (TimelineSlice; buildBindingTimeline).
TimelineTrue ==
    Collected => \A a \in Holders :
        LET h == holders[a]
            line == stored[a].timeline
            held(t) == Frozen(h) - ReleasedBy(line, t) IN
        /\ Total(line) = Frozen(h)
        /\ \A t \in Instant : held(t) >= Envelope(h, t)
        /\ \A t \in KeptSteps(h) \cup {0, Horizon} : held(t) <= Highest({Envelope(h, t), SoftFloor(h)})

\* The date of an open slice is a known minimum: dated locks alone hold as much until
\* then.  Not with a schedule, which goes down between its dates, or with folded dates.
MinimumKnown ==
    Collected => \A a \in Holders :
        LET h == holders[a] IN
        (StillVesting(h) = 0 /\ KeptSteps(h) = Steps(h)) =>
            \A s \in stored[a].timeline : s.state = "active" =>
                \A t \in 0 .. s.until - 1 : Dated(h, t) >= s.amount

\* The tranches of a lock add up to it, and of a vote lock they hold at every instant
\* what its classes hold.
TranchesTrue ==
    Collected => \A a \in Holders :
        LET h == holders[a] IN
        /\ Total(stored[a].vesting) = h.vesting.amount
        /\ Total(stored[a].vote) = h.vote.amount
        /\ \A t \in Instant : h.vote.amount - ReleasedBy(stored[a].vote, t) = VoteBound(h, t)

\* A merge loses nothing, shows nothing free before an account does, and by the last
\* date everything that any of them does.
MergeTrue ==
    \A k \in Kinds : view[k] # Empty =>
        LET apart(t) == MapThenSumSet(LAMBDA a : ReleasedBy(stored[a][k], t), Holders)
            merged(t) == ReleasedBy(view[k].now \cup view[k].kept, t) + ReleasedBy(view[k].tail, t)
        IN  /\ Total(view[k].open) + merged(Horizon)
                    = MapThenSumSet(LAMBDA a : Total(stored[a][k]), Holders)
            /\ \A t \in Instant : merged(t) <= apart(t)
            /\ merged(Horizon) = apart(Horizon)

TimelineSound == LineTypeOK /\ TimelineTrue /\ MinimumKnown /\ TranchesTrue /\ MergeTrue
=============================================================================
