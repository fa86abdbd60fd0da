--------------------------- MODULE ReferendumVotes ---------------------------
(***************************************************************************)
(* Who voted on a referendum, as its page has it (governanceService.ts,    *)
(* getReferendum).  The pallet keeps the standing votes in a storage that  *)
(* is not indexed; the page rebuilds them from calls and events.  An event *)
(* of a conviction vote does not say which referendum it is of, so the     *)
(* calls do: the call rows, or, where a wrapper hides the call, its        *)
(* decoded arguments or the bytes of its permit.                           *)
(*                                                                         *)
(* The position of an extrinsic is its index in the history, that of an    *)
(* event also the item it is of: an extrinsic votes, or removes votes, for *)
(* one account or more, in this referendum and in another.  All items      *)
(* succeed; delegated power, which has no event, is left out.              *)
(***************************************************************************)
EXTENDS Integers, SequencesExt

CONSTANTS
    Voters,
    Ballots,       \* what an account may vote with
    FirstVoted,    \* CONVICTION_VOTED_FIRST_BLOCK: before it no vote has an event
    MoreBlocks,    \* bound: blocks after that of the submission
    Dispatched,    \* bound: what an extrinsic may be
    MaxItems       \* bound: votes and removals in all

Polls == {"this", "other"}
NoBallot == [kind |-> "none", side |-> "none", conviction |-> 0, aye |-> 0, nay |-> 0, abstain |-> 0]

Items == [who : Voters, poll : Polls, ballot : Ballots \cup {NoBallot}]

ASSUME VotesAssumption ==
    /\ \A x \in Dispatched :
        /\ x.kind \in {"own", "wrapped", "permit"} /\ x.items \in Seq(Items)
        /\ x.kind # "wrapped" => \A i, j \in ToSet(x.items) : i.who = j.who
    /\ IsFiniteSet(Voters)
    /\ Ballots \subseteq [kind : {"Standard", "Split"}, side : {"Aye", "Nay", "Split"},
                          conviction : 0 .. 6, aye : Nat, nay : Nat, abstain : Nat]
    /\ FirstVoted \in Nat \ {0, 1} /\ MoreBlocks \in Nat /\ MaxItems \in Nat

VARIABLES
    rules,     \* the pallet: the referenda of opengov or of democracy
    submitted, \* block this referendum was submitted in
    tip,       \* last block
    shut,      \* per referendum the block it was concluded in, 0 while it runs
    books,     \* the pallet: per referendum and account the vote it keeps
    counted,   \* the pallet: the votes this referendum counts
    history    \* the extrinsics

votesVars == <<rules, submitted, tip, shut, books, counted, history>>

----------------------------------------------------------------------------
(* The chain. *)

IsVote(i) == i.ballot # NoBallot
KeptIn(extrinsics) == MapThenSumSet(LAMBDA n : Len(extrinsics[n].items), DOMAIN extrinsics)
Kept == KeptIn(history)
OpenAt(poll, block) == shut[poll] = 0 \/ block < shut[poll]

\* A vote needs an open poll, a removal a vote; of a closed one it only unlocks.
Accepted(b, i) ==
    IF IsVote(i) THEN shut[i.poll] = 0 ELSE b[i.poll][i.who] # NoBallot
Booked(b, i) == [b EXCEPT ![i.poll][i.who] = i.ballot]
BookedAll(items) == FoldLeft(Booked, books, items)
AllAccepted(items) ==
    \A n \in 1 .. Len(items) : Accepted(BookedAll(SubSeq(items, 1, n - 1)), items[n])

\* An extrinsic whose calls have rows of their own is of one account, as is a permit.
Dispatch(x) ==
    /\ Kept + Len(x.items) <= MaxItems
    /\ AllAccepted(x.items)
    /\ books' = BookedAll(x.items)
    /\ counted' = IF shut["this"] = 0 THEN BookedAll(x.items)["this"] ELSE counted
    /\ history' = Append(history, [block |-> tip, kind |-> x.kind, items |-> x.items])
    /\ UNCHANGED <<rules, submitted, tip, shut>>

\* Referenda are concluded before the extrinsics of a block.  No referendum runs across
\* the block of the first vote with an event.
NewVoteBlock(ends) ==
    /\ tip < submitted + MoreBlocks
    /\ \A p \in ends : shut[p] = 0
    /\ (rules = "opengov" /\ tip + 1 = FirstVoted) => shut["this"] # 0
    /\ tip' = tip + 1
    /\ shut' = [p \in Polls |-> IF p \in ends THEN tip + 1 ELSE shut[p]]
    /\ UNCHANGED <<rules, submitted, books, counted, history>>

----------------------------------------------------------------------------
(* The calls a reader finds, each by its place in the extrinsic. *)

VoteItems(x) == {n \in DOMAIN x.items : IsVote(x.items[n])}
RemovalItems(x) == DOMAIN x.items \ VoteItems(x)
VoteCalls(x) == IF x.kind = "own" THEN VoteItems(x) ELSE {}
RemovalCalls(x) == IF x.kind = "own" THEN RemovalItems(x) ELSE {}

\* voteFromPermitData: a lone vote with a conviction.  nestedVoteInfos: every vote.
DecodedVotes(x) ==
    CASE x.kind = "permit" ->
            {n \in DOMAIN x.items : Len(x.items) = 1 /\ x.items[n].ballot.kind = "Standard"}
      [] x.kind = "wrapped" -> VoteItems(x)
      [] OTHER -> {}

\* removalRefsFromPermitData: up to the first call that is no removal.
DecodedRemovals(x) ==
    CASE x.kind = "permit" -> {n \in RemovalItems(x) : 1 .. n \subseteq RemovalItems(x)}
      [] x.kind = "wrapped" -> RemovalItems(x)
      [] OTHER -> {}

\* unexplainedVoteKeys: more events than calls.
HidesVotes(x) == Cardinality(VoteItems(x)) > Cardinality(VoteCalls(x))
RemovalEvents(x) == {n \in RemovalItems(x) : OpenAt(x.items[n].poll, x.block)}
HidesRemovals(x) == Cardinality(RemovalEvents(x)) > Cardinality(RemovalCalls(x))

NamesThis(x, calls) == \E n \in calls : x.items[n].poll = "this"
Until == IF shut["this"] # 0 THEN shut["this"] ELSE tip
\* loadConvictionVotes: the window ends where votes have events.
HasEvents == rules = "democracy" \/ Until >= FirstVoted
Within(x, last) == x.block \in submitted .. last

\* convictionVoteExtrinsics.
VotedIn(x) ==
    /\ Within(x, Until)
    /\ NamesThis(x, VoteCalls(x)) \/ (HidesVotes(x) /\ NamesThis(x, DecodedVotes(x)))

----------------------------------------------------------------------------
(* The page. *)

\* A vote at its place.  That of a call has the place of its extrinsic only.
CastVotes ==
    UNION {{[at |-> n, event |-> m, item |-> history[n].items[m]] : m \in VoteItems(history[n])} :
           n \in DOMAIN history}
VoteRows ==
    IF rules = "democracy" THEN {r \in CastVotes : r.item.poll = "this"}
    ELSE IF HasEvents THEN {r \in CastVotes : VotedIn(history[r.at])}
    ELSE {[r EXCEPT !.event = 0] :
            r \in {q \in CastVotes : history[q.at].kind = "own" /\ q.item.poll = "this"
                                /\ Within(history[q.at], Until)}}

\* Mutant: the first vote of an account is the one that counts.
FirstVote(rows) ==
    CHOOSE r \in rows : \A s \in rows : s.at > r.at \/ (s.at = r.at /\ s.event >= r.event)
\* latestVotePerAccount, of the rows of one account.
LatestVote(rows) ==
    CHOOSE r \in rows : \A s \in rows : s.at < r.at \/ (s.at = r.at /\ s.event <= r.event)

\* loadWithdrawals: the extrinsics that removed a vote here before the conclusion.
\* Where removals have an event it says whose; otherwise the call does.
LastWithdrawal == IF shut["this"] # 0 THEN shut["this"] - 1 ELSE tip
RemovedIn(x) ==
    /\ Within(x, LastWithdrawal)
    /\ \/ NamesThis(x, RemovalCalls(x))
       \/ rules = "opengov" /\ HasEvents /\ HidesRemovals(x) /\ NamesThis(x, DecodedRemovals(x))
Withdrawers(x) ==
    IF rules = "opengov" /\ HasEvents
    THEN {x.items[n].who : n \in RemovalEvents(x)}
    ELSE {x.items[n].who : n \in {m \in RemovalCalls(x) : x.items[m].poll = "this"}}
Withdrawals(a) == {n \in DOMAIN history : RemovedIn(history[n]) /\ a \in Withdrawers(history[n])}

\* toVoter: a removal takes back the votes before it, not those of its own extrinsic.
TakenBack(r) == \E n \in Withdrawals(r.item.who) : n > r.at
VoteShown(a) ==
    LET rows == {r \in VoteRows : r.item.who = a}
    IN  IF rows = {} \/ TakenBack(LatestVote(rows)) THEN NoBallot ELSE LatestVote(rows).item.ballot

\* weightedVotePower, in tenths; the legs of a split vote have no conviction.
Tenths(conviction) == IF conviction = 0 THEN 1 ELSE 10 * conviction
Power(balance, conviction) == (balance * Tenths(conviction)) \div 10
Weight(b, leg) == Power(b[leg], IF b.kind = "Standard" THEN b.conviction ELSE 0)
\* tallyVoters.
Shown == [a \in Voters |-> VoteShown(a)]
Weighed(votes, leg) == MapThenSumSet(LAMBDA a : Weight(votes[a], leg), Voters)
Supporting(votes) == MapThenSumSet(LAMBDA a : votes[a].aye + votes[a].abstain, Voters)
DirectTally ==
    [ayes |-> Weighed(Shown, "aye"), nays |-> Weighed(Shown, "nay"), support |-> Supporting(Shown)]

\* getRecentVotes: the referendum a row of the feed names, of an own call by its address,
\* otherwise only where the extrinsic has a single one.
FeedNames(x, n) ==
    IF rules = "democracy" \/ x.kind = "own" THEN {x.items[n].poll}
    ELSE IF Cardinality(DecodedVotes(x)) = 1 THEN {x.items[d].poll : d \in DecodedVotes(x)}
    ELSE {}

----------------------------------------------------------------------------
VotesInit ==
    /\ rules \in {"opengov", "democracy"}
    /\ submitted \in IF rules = "opengov" THEN {1, FirstVoted} ELSE {1}
    /\ tip = submitted
    /\ shut = [p \in Polls |-> 0]
    /\ books = [p \in Polls |-> [a \in Voters |-> NoBallot]]
    /\ counted = [a \in Voters |-> NoBallot]
    /\ history = <<>>

VotesNext ==
    \/ \E x \in Dispatched : Dispatch(x)
    \/ \E ends \in SUBSET Polls : NewVoteBlock(ends)

VotesSpec == VotesInit /\ [][VotesNext]_votesVars

----------------------------------------------------------------------------
VotesTypeOK ==
    /\ rules \in {"opengov", "democracy"} /\ submitted \in {1, FirstVoted}
    /\ tip \in submitted .. submitted + MoreBlocks
    /\ \A p \in Polls : shut[p] = 0 \/ shut[p] \in submitted .. tip
    /\ \A a \in Voters : {books["this"][a], books["other"][a], counted[a]} \subseteq Ballots \cup {NoBallot}
    /\ Kept <= MaxItems

ActsOf(x, a, poll) == {n \in DOMAIN x.items : x.items[n].who = a /\ x.items[n].poll = poll}

\* An extrinsic acts in this referendum and, for the account, in the other: its events
\* in the other are taken for events in this one.
Entangled(a) ==
    /\ rules = "opengov" /\ HasEvents
    /\ \E x \in ToSet(history) : NamesThis(x, DOMAIN x.items) /\ ActsOf(x, a, "other") # {}
\* An extrinsic that acts for the account twice, with places that do not tell which is last.
Twice(a) == \E x \in ToSet(history) : \E m, n \in ActsOf(x, a, "this") : m # n
\* A call that no row and no decoder shows.
Unseen(a) ==
    \E x \in ToSet(history) : \E n \in ActsOf(x, a, "this") :
        /\ x.kind # "own"
        /\ \/ ~HasEvents
           \/ n \in VoteItems(x) /\ rules = "opengov" /\ ~NamesThis(x, DecodedVotes(x))
           \/ n \in RemovalItems(x) /\ (rules = "democracy" \/ ~NamesThis(x, DecodedRemovals(x)))

Clear(a) == ~Entangled(a) /\ ~Twice(a) /\ ~Unseen(a)

\* The page has the vote the pallet counts, whatever was changed, withdrawn, voted again
\* or unlocked after the conclusion, in whatever way it was dispatched.
ShownAsCounted == \A a \in Voters : Clear(a) => VoteShown(a) = counted[a]

\* Conviction::None counts a tenth, a lock as often as its class.
Counts(balance, conviction) == IF conviction = 0 THEN balance \div 10 ELSE balance * conviction
Counted(b, leg) == IF b.kind = "Standard" THEN Counts(b[leg], b.conviction) ELSE Counts(b[leg], 0)
CountedSum(leg) == MapThenSumSet(LAMBDA a : Counted(counted[a], leg), Voters)
\* The sum of the votes is the tally the pallet keeps of them.
TallyAsCounted ==
    (\A a \in Voters : Clear(a)) =>
        DirectTally = [ayes |-> CountedSum("aye"), nays |-> CountedSum("nay"), support |-> Supporting(counted)]

\* The feed names no referendum a vote was not cast in.
FeedNamesRight ==
    \A x \in ToSet(history) : \A n \in DOMAIN x.items :
        IsVote(x.items[n]) => FeedNames(x, n) \subseteq {x.items[n].poll}

\* The votes and the tally of a referendum page are those of the pallet.
VotesSound == VotesTypeOK /\ ShownAsCounted /\ TallyAsCounted /\ FeedNamesRight
=============================================================================
