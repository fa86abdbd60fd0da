----------------------------- MODULE MCApiReads -----------------------------
(***************************************************************************)
(* ActivityWindow, SwapQueue, LockSnapshots, LockTimeline and              *)
(* ReferendumVotes for TLC.  The builder of a window, the drain of the     *)
(* queue, the pass over the locks, what it makes of the locks of an        *)
(* account, and the page of a referendum live in one process and share no  *)
(* state, so a behaviour is that of one of them.                           *)
(***************************************************************************)
EXTENDS ActivityWindow, SwapQueue, LockSnapshots, LockTimeline, ReferendumVotes

VARIABLE machine

all == <<windowVars, queueVars, snapVars, lineVars, votesVars, machine>>

Row(b, e, x, f, p, big, share, executed) ==
    [block |-> b, event |-> e, ext |-> x, family |-> f, parties |-> p,
     big |-> big, share |-> share, executed |-> executed]

\* A removal with its routed share trade, hook rows, a small and a large trade, and a
\* swap that pays for the send of its extrinsic.
Rows == {
    Row(1, 1, 1, "liquidity", {"a"}, FALSE, FALSE, FALSE),
    Row(1, 2, 1, "trade", {"a"}, TRUE, TRUE, FALSE),
    Row(1, 3, 1, "transfer", {"a", "b"}, TRUE, FALSE, FALSE),
    Row(2, 1, Hook, "xcm", {"a"}, FALSE, FALSE, FALSE),
    Row(2, 2, Hook, "xcm", {"b"}, TRUE, FALSE, FALSE),
    Row(2, 3, Hook, "transfer", {"a"}, TRUE, FALSE, FALSE),
    Row(2, 4, 1, "trade", {"b"}, TRUE, FALSE, FALSE),
    Row(2, 5, 1, "transfer", {"b"}, FALSE, FALSE, FALSE),
    Row(2, 6, 2, "trade", {"b"}, TRUE, FALSE, FALSE),
    Row(2, 7, 2, "xcm", {"b"}, FALSE, FALSE, TRUE)}

\* A block that comes in while the window is built.
NewBlock == {
    Row(4, 1, 1, "trade", {"a"}, TRUE, FALSE, FALSE),
    Row(4, 2, 1, "transfer", {"a"}, TRUE, FALSE, FALSE)}

\* One account of a tag may hold anything; what the other holds falls on the same dates.
Vestings ==
    {v \in [amount : {0, 1, 3}, claimable : 0 .. 1, end : {0, 2, 4}] :
        v.claimable <= v.amount /\ (v.amount = 0 => v.end = 0)}
Classes ==
    [active : {0, 2}, prior : {1, 3}, unlock : {0, 1, 3}]
        \cup [active : {1}, prior : {0}, unlock : {0}]
Votes ==
    [amount : {0}, classes : {{}}]
        \cup [amount : {2, 3}, classes : {S \in SUBSET Classes : Cardinality(S) \in 1 .. 2}]
Prior(amount, unlock) == [active |-> 0, prior |-> amount, unlock |-> unlock]
NoVesting == [amount |-> 0, claimable |-> 0, end |-> 0]
Seconds == {
    [vesting |-> [amount |-> 2, claimable |-> 1, end |-> 3],
     vote |-> [amount |-> 0, classes |-> {}], static |-> 0],
    [vesting |-> [amount |-> 1, claimable |-> 0, end |-> 4],
     vote |-> [amount |-> 2, classes |-> {Prior(2, 1)}], static |-> 0],
    [vesting |-> NoVesting,
     vote |-> [amount |-> 4, classes |-> {Prior(4, 1), Prior(3, 2), Prior(1, 3)}], static |-> 2]}
Pairs == {[a |-> x, b |-> y] : x \in [vesting : Vestings, vote : Votes, static : {0, 2}], y \in Seconds}

AnyRequest ==
    [want: {1, 3}, type: {"all", "trade", "transfer"}, floor: {"none", "low", "high"}]

\* Every pair of acts of an account in one extrinsic, however it is dispatched, and the
\* acts of two accounts in one wrapper.
AyeVote ==
    [kind |-> "Standard", side |-> "Aye", conviction |-> 2, aye |-> 15, nay |-> 0, abstain |-> 0]
SplitVote ==
    [kind |-> "Split", side |-> "Split", conviction |-> 0, aye |-> 12, nay |-> 25, abstain |-> 3]
TwoBallots == {AyeVote, SplitVote}
Act(who, poll, ballot) == [who |-> who, poll |-> poll, ballot |-> ballot]
Acts(who) == {Act(who, poll, ballot) : poll \in Polls, ballot \in {AyeVote, NoBallot}}
VoteExtrinsics ==
    LET ways == {"own", "wrapped", "permit"}
    IN  [kind : ways, items : {<<i>> : i \in Acts("a") \cup {Act("a", "this", SplitVote)}}]
          \cup [kind : ways, items : {<<i, j>> : i, j \in Acts("a")}]
          \cup [kind : {"wrapped"}, items : {<<i, j>> : i \in Acts("a"), j \in Acts("b")}]

NoWindow ==
    /\ chain = {} /\ known = {} /\ req = [want |-> 1, type |-> "all", floor |-> "none"]
    /\ depth = 1 /\ exact = FALSE /\ limit = [f \in Families |-> 1]
    /\ kept = {} /\ since = NoFloor /\ back = [f \in Families |-> NoFloor]
    /\ raw = [f \in Families |-> {}] /\ pc = "served" /\ window = {}

NoQueue == QueueInit /\ ingested = {}

NoSnapshots == SnapInit /\ locks = [a \in Accounts |-> 0]

Someone == CHOOSE f \in Tags : TRUE
NoLines ==
    /\ holders = Someone
    /\ stored = [a \in Holders |-> NoDetail]
    /\ view = [k \in Kinds |-> Empty]

NoVotes == VotesInit /\ rules = "opengov" /\ submitted = 1

AllInit ==
    \/ machine = "window" /\ WindowInit /\ NoQueue /\ NoSnapshots /\ NoLines /\ NoVotes
    \/ machine = "queue" /\ NoWindow /\ QueueInit /\ NoSnapshots /\ NoLines /\ NoVotes
    \/ machine = "locks" /\ NoWindow /\ NoQueue /\ SnapInit /\ NoLines /\ NoVotes
    \/ machine = "timeline" /\ NoWindow /\ NoQueue /\ NoSnapshots /\ LineInit /\ NoVotes
    \/ machine = "votes" /\ NoWindow /\ NoQueue /\ NoSnapshots /\ NoLines /\ VotesInit

Window == machine = "window" /\ UNCHANGED <<queueVars, snapVars, lineVars, votesVars, machine>>
Queue == machine = "queue" /\ UNCHANGED <<windowVars, snapVars, lineVars, votesVars, machine>>
Locks == machine = "locks" /\ UNCHANGED <<windowVars, queueVars, lineVars, votesVars, machine>>
Lines == machine = "timeline" /\ UNCHANGED <<windowVars, queueVars, snapVars, votesVars, machine>>
Ballot == machine = "votes" /\ UNCHANGED <<windowVars, queueVars, snapVars, lineVars, machine>>

AllNext ==
    \/ Window /\ Load
    \/ Window /\ Serve
    \/ Window /\ GoExact
    \/ Window /\ Widen
    \/ Window /\ Deepen
    \/ Window /\ TooBroad
    \/ Queue /\ Clock
    \/ \E s \in Swaps : Queue /\ FlushExtrinsics(s)
    \/ \E s \in Swaps : Queue /\ FlushEvents(s)
    \/ \E s \in Swaps : Queue /\ Named(s)
    \/ \E r \in running : Queue /\ Queued(r)
    \/ \E d \in Drainers : Queue /\ DrainStep(d)
    \/ \E d \in Drainers : Queue /\ Fails(d)
    \/ \E d \in Drainers : Queue /\ Dies(d)
    \/ \E c \in orphans : Queue /\ OrphanSaves(c)
    \/ \E a \in Accounts, n \in 0 .. MaxLock : Locks /\ Change(a, n)
    \/ Locks /\ BaseTick
    \/ Locks /\ Boot
    \/ Locks /\ ReadKeys
    \/ \E a \in Accounts : Locks /\ ReadValue(a)
    \/ \E a \in Accounts : Locks /\ ValueLost(a)
    \/ Locks /\ Enumerated
    \/ Locks /\ Compare
    \/ Locks /\ Count
    \/ Locks /\ InsertRow
    \/ Locks /\ Verify
    \/ Locks /\ Flip
    \/ Locks /\ List
    \/ Locks /\ Drop
    \/ Locks /\ Finish
    \/ Locks /\ PassFails
    \/ Locks /\ ProcessDies
    \/ \E s \in afloat : Locks /\ Lands(s)
    \/ \E q \in Queries : Locks /\ LooksUp(q)
    \/ \E q \in Queries : Locks /\ Scans(q)
    \/ Locks /\ Answered
    \/ Lines /\ Collect
    \/ Lines /\ AnswerTag
    \/ \E x \in Dispatched : Ballot /\ Dispatch(x)
    \/ \E ends \in SUBSET Polls : Ballot /\ NewVoteBlock(ends)

AllSpec == AllInit /\ [][AllNext]_all
=============================================================================
