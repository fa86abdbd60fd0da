---------------------------- MODULE MCApiCaches ----------------------------
(***************************************************************************)
(* AccountDirectory and ChainHead for TLC.  The cache with its directory   *)
(* and the sampler of the chain head live in one process and share no      *)
(* state, so a behaviour is that of one of them.                           *)
(***************************************************************************)
EXTENDS AccountDirectory, ChainHead

VARIABLE machine

all == <<vars, headVars, machine>>

OnePage == <<"value">>
OneReader == {"r1"}

\* The machine that is not the one of the behaviour rests in one state, in which the
\* other's promises hold: a page that is just computed, a height just sampled.
NoDirectory ==
    /\ store = [k \in Keys |-> Absent] /\ used = {}
    /\ inflight = [k \in Keys |-> None]
    /\ builds = {[key |-> k, slot |-> 1, step |-> "persist", age |-> 0] : k \in Pages}
    /\ persisted = [k \in Pages |-> NoRow]
    /\ reader = [r \in Readers |-> IdleReader]
    /\ pass = IdlePass /\ due = FALSE /\ crashes = 0
NoSampler ==
    /\ marker = Never /\ attempts = {} /\ sampleDue = FALSE
    /\ sampled = 0 /\ height = 0
    /\ load = NoStatus /\ status = NoStatus

AllInit ==
    \/ machine = "directory" /\ Init /\ NoSampler
    \/ machine = "sampler" /\ NoDirectory /\ HeadInit

Directory == machine = "directory" /\ UNCHANGED <<headVars, machine>>
Sampler == machine = "sampler" /\ UNCHANGED <<vars, machine>>

AllNext ==
    \/ \E r \in Readers, k \in Pages : Directory /\ Ask(r, k)
    \/ \E r \in Readers : Directory /\ ReadRow(r)
    \/ \E r \in Readers : Directory /\ Adopt(r)
    \/ \E r \in Readers : Directory /\ ReadPage(r)
    \/ \E k \in Others : Directory /\ ReadOther(k)
    \/ \E b \in builds : Directory /\ BuildAdopts(b)
    \/ \E b \in builds : Directory /\ BuildLooks(b)
    \/ \E b \in builds : Directory /\ BuildComputes(b)
    \/ \E b \in builds : Directory /\ BuildPersists(b)
    \/ \E b \in builds : Directory /\ BuildReturns(b)
    \/ \E b \in builds : Directory /\ BuildFails(b)
    \/ Directory /\ PassStart
    \/ Directory /\ PassRefresh
    \/ Directory /\ Tick
    \/ Directory /\ Crash
    \/ Sampler /\ Refresh
    \/ Sampler /\ LoadStart
    \/ Sampler /\ LoadEnd
    \/ Sampler /\ HeadTick
    \/ \E a \in attempts : Sampler /\ Answer(a)
    \/ \E a \in attempts : Sampler /\ NoAnswer(a)

AllFairSpec ==
    /\ AllInit /\ [][AllNext]_all
    /\ machine = "directory" => Fairness
    /\ machine = "sampler" => HeadFairness
=============================================================================
