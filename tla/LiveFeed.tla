------------------------------ MODULE LiveFeed ------------------------------
(***************************************************************************)
(* From the raw checkpoint to the screen.  The API polls the checkpoint    *)
(* while a stream is open and pushes a new head to every open tab          *)
(* (liveHeadService.ts); a tab that hears of one refetches its feeds with  *)
(* the head in the URL (explorer-ui/src/live.ts); nginx caches by URL; and *)
(* the API answers from a feed cache keyed by the head it believes in: a   *)
(* cached probe of the checkpoint, or the pushed head if that is higher    *)
(* (explorerService.ts).  Streams break, or are refused and never opened   *)
(* again, frames on their way are lost, tabs are hidden, the API restarts, *)
(* and a reorg rolls the checkpoint back.                                  *)
(*                                                                         *)
(* A page is the highest block it can show.  Entries of the caches expire  *)
(* at any time.  Frames of one stream that nobody has heard are one frame: *)
(* they only grow, and a tab acts on the last of them.                     *)
(***************************************************************************)
EXTENDS Integers

CONSTANTS
    Tabs,
    Top,            \* bound: blocks that arrive
    MaxFaults       \* bound: streams that break, restarts of the API and rollbacks
                    \* of the checkpoint, together

ASSUME FeedAssumption ==
    /\ Tabs # {}
    /\ Top \in Nat \ {0}
    /\ MaxFaults \in Nat

Height == 0 .. Top
Nothing == -1
Plain == 0          \* the URL without a head
URL == Height

VARIABLES
    landed,     \* highest block whose rows are in the tables
    seen,       \* max(last_block) of raw_ingestion_state
    lastHead,   \* liveHeadService: newest head broadcast
    pushed,     \* pushedRawHead
    probe,      \* explorer:raw-head of the cache
    feed,       \* explorer:blocks:h<tag> of the cache
    edge,       \* nginx: page per URL
    tabs,
    faults

server == <<lastHead, pushed>>
caches == <<probe, feed, edge>>
feedVars == <<landed, seen, lastHead, pushed, probe, feed, edge, tabs, faults>>

Tab == [open : BOOLEAN,             \* streamHealthy
        closed : BOOLEAN,           \* the EventSource has ended for good
        wire : Height,              \* frame on its way
        head : Height,              \* lastHead of the tab
        hidden : BOOLEAN,
        owed : Height,              \* pendingHiddenHead
        fetch : URL \cup {Nothing}, \* request in flight
        reply : Height \cup {Nothing},
        url : URL, screen : Height] \* what is shown, and the URL it came from

Max2(a, b) == IF a >= b THEN a ELSE b
Listening == {t \in Tabs : tabs[t].open}

----------------------------------------------------------------------------
(* The pipeline. *)

Ingest ==
    /\ seen < Top
    /\ seen' = seen + 1
    /\ landed' = Max2(landed, seen + 1)
    /\ UNCHANGED <<server, caches, tabs, faults>>

\* The reorg healer puts a lower checkpoint in place; rows are replaced, not removed.
Rollback ==
    /\ faults < MaxFaults /\ seen > 0
    /\ faults' = faults + 1
    /\ \E h \in 0 .. seen - 1 : seen' = h
    /\ UNCHANGED <<landed, server, caches, tabs>>

----------------------------------------------------------------------------
(* The API: heads. *)

\* pollOnce, called by a timer that runs while somebody listens.  One poll runs at a
\* time and only a newer head moves anything: a poll that takes its time is a later
\* one, and one that reads no new head, or fails, is none.
PollPushes ==
    /\ Listening # {}
    /\ seen > lastHead
    /\ lastHead' = seen
    /\ pushed' = Max2(pushed, seen)
    /\ tabs' = [t \in Tabs |-> IF t \in Listening THEN [tabs[t] EXCEPT !.wire = seen]
                               ELSE tabs[t]]
    /\ UNCHANGED <<landed, seen, caches, faults>>

\* Mutant: a stream that opens is told nothing.
ConnectSilent(t) ==
    /\ ~tabs[t].open /\ ~tabs[t].closed
    /\ tabs' = [tabs EXCEPT ![t].open = TRUE, ![t].wire = 0]
    /\ UNCHANGED <<landed, seen, server, caches, faults>>
\* The stream opens: addLiveHeadClient replays the last head.
Connect(t) ==
    /\ ~tabs[t].open /\ ~tabs[t].closed
    /\ tabs' = [tabs EXCEPT ![t].open = TRUE, ![t].wire = lastHead]
    /\ UNCHANGED <<landed, seen, server, caches, faults>>

\* The browser's request for the stream is answered with anything but a 200, as by
\* nginx while the API restarts: the EventSource ends, and as `source` still holds it
\* connectHead makes no other before the page is loaded anew.
Refused(t) ==
    /\ ~tabs[t].open /\ ~tabs[t].closed
    /\ tabs' = [tabs EXCEPT ![t].closed = TRUE]
    /\ UNCHANGED <<landed, seen, server, caches, faults>>

Drop(t) ==
    /\ faults < MaxFaults /\ tabs[t].open
    /\ faults' = faults + 1
    /\ tabs' = [tabs EXCEPT ![t].open = FALSE, ![t].wire = 0]
    /\ UNCHANGED <<landed, seen, server, caches>>

Restart ==
    /\ faults < MaxFaults
    /\ faults' = faults + 1
    /\ lastHead' = 0 /\ pushed' = 0
    /\ probe' = Nothing
    /\ feed' = [h \in Height |-> Nothing]
    /\ tabs' = [t \in Tabs |-> [tabs[t] EXCEPT !.open = FALSE, !.wire = 0]]
    /\ UNCHANGED <<landed, seen, edge>>

----------------------------------------------------------------------------
(* The API: pages. *)

Probed == IF probe = Nothing THEN seen ELSE probe

\* Mutant: only the probe is believed.
BelievedProbe == Probed
\* indexedRawHead, and with it the key of the page.
Believed == Max2(Probed, pushed)

Page == IF feed[Believed] = Nothing THEN landed ELSE feed[Believed]

Waiting(u) == {t \in Tabs : tabs[t].fetch = u /\ tabs[t].reply = Nothing}

\* A miss of nginx: one request upstream answers everyone who waits for the URL.
\* Visitors without a stream ask for the plain one at any time.
Serve(u) ==
    /\ u = Plain \/ Waiting(u) # {}
    /\ edge[u] = Nothing
    /\ probe' = Probed
    /\ feed' = [feed EXCEPT ![Believed] = Page]
    /\ edge' = [edge EXCEPT ![u] = Page]
    /\ tabs' = [t \in Tabs |-> IF t \in Waiting(u) THEN [tabs[t] EXCEPT !.reply = Page]
                               ELSE tabs[t]]
    /\ UNCHANGED <<landed, seen, server, faults>>

ProbeExpires ==
    /\ probe # Nothing
    /\ probe' = Nothing
    /\ UNCHANGED <<landed, seen, server, feed, edge, tabs, faults>>

FeedExpires(h) ==
    /\ feed[h] # Nothing
    /\ feed' = [feed EXCEPT ![h] = Nothing]
    /\ UNCHANGED <<landed, seen, server, probe, edge, tabs, faults>>

EdgeExpires(u) ==
    /\ edge[u] # Nothing
    /\ edge' = [edge EXCEPT ![u] = Nothing]
    /\ UNCHANGED <<landed, seen, server, probe, feed, tabs, faults>>

----------------------------------------------------------------------------
(* A tab. *)

\* liveHeadTag of the tab.
Url(tab) == IF tab.open THEN tab.head ELSE Plain

\* invalidateQueries: a request in flight is given up for the new one.
Refetch(tab) == [tab EXCEPT !.fetch = Url(tab), !.reply = Nothing]

\* dispatchHead.
Dispatch(tab) ==
    IF tab.hidden THEN [tab EXCEPT !.owed = tab.head] ELSE Refetch([tab EXCEPT !.owed = 0])

\* parseHeadEvent: a frame counts only when the head moves.
Hear(t) ==
    /\ tabs[t].wire # 0
    /\ LET heard == [tabs[t] EXCEPT !.wire = 0]
       IN  tabs' = [tabs EXCEPT ![t] =
                        IF tabs[t].wire <= tabs[t].head THEN heard
                        ELSE Dispatch([heard EXCEPT !.head = tabs[t].wire])]
    /\ UNCHANGED <<landed, seen, server, caches, faults>>

Hide(t) ==
    /\ ~tabs[t].hidden
    /\ tabs' = [tabs EXCEPT ![t].hidden = TRUE]
    /\ UNCHANGED <<landed, seen, server, caches, faults>>

Show(t) ==
    /\ tabs[t].hidden
    /\ LET shown == [tabs[t] EXCEPT !.hidden = FALSE, !.owed = 0]
       IN  tabs' = [tabs EXCEPT ![t] = IF tabs[t].owed = 0 THEN shown ELSE Refetch(shown)]
    /\ UNCHANGED <<landed, seen, server, caches, faults>>

\* Mutant: a tab polls only while the browser still tries to connect.
PollTrying(t) ==
    /\ ~tabs[t].open /\ ~tabs[t].closed /\ ~tabs[t].hidden
    /\ tabs[t].fetch = Nothing
    /\ tabs' = [tabs EXCEPT ![t] = Refetch(@)]
    /\ edge' = [edge EXCEPT ![Plain] = IF @ < tabs[t].head THEN Nothing ELSE @]
    /\ UNCHANGED <<landed, seen, server, probe, feed, faults>>
\* Interval polling, while there is no stream.  The interval (LIVE_MS) is three times
\* what an entry of nginx lives: when it has passed without a stream, the entries of
\* the time when the tab last heard are gone.
Poll(t) ==
    /\ ~tabs[t].open /\ ~tabs[t].hidden
    /\ tabs[t].fetch = Nothing
    /\ tabs' = [tabs EXCEPT ![t] = Refetch(@)]
    /\ edge' = [edge EXCEPT ![Plain] = IF @ < tabs[t].head THEN Nothing ELSE @]
    /\ UNCHANGED <<landed, seen, server, probe, feed, faults>>

\* nginx answers.
EdgeHit(t) ==
    /\ \E u \in URL : t \in Waiting(u) /\ edge[u] # Nothing
    /\ tabs' = [tabs EXCEPT ![t].reply = edge[tabs[t].fetch]]
    /\ UNCHANGED <<landed, seen, server, caches, faults>>

Receive(t) ==
    /\ tabs[t].reply # Nothing
    /\ tabs' = [tabs EXCEPT ![t].url = tabs[t].fetch, ![t].screen = tabs[t].reply,
                            ![t].fetch = Nothing, ![t].reply = Nothing]
    /\ UNCHANGED <<landed, seen, server, caches, faults>>

----------------------------------------------------------------------------
NewTab == [open |-> FALSE, closed |-> FALSE, wire |-> 0, head |-> 0, hidden |-> FALSE,
           owed |-> 0, fetch |-> Plain, reply |-> Nothing, url |-> Plain, screen |-> 0]

FeedInit ==
    /\ landed = 0 /\ seen = 0
    /\ lastHead = 0 /\ pushed = 0
    /\ probe = Nothing
    /\ feed = [h \in Height |-> Nothing]
    /\ edge = [u \in URL |-> Nothing]
    /\ tabs = [t \in Tabs |-> NewTab]
    /\ faults = 0

TabStep(t) ==
    \/ Connect(t) \/ Refused(t) \/ Drop(t) \/ Hear(t) \/ Hide(t) \/ Show(t)
    \/ Poll(t) \/ EdgeHit(t) \/ Receive(t)

FeedNext ==
    \/ Ingest \/ Rollback
    \/ PollPushes \/ Restart
    \/ ProbeExpires
    \/ \E u \in URL : Serve(u) \/ FeedExpires(u) \/ EdgeExpires(u)
    \/ \E t \in Tabs : TabStep(t)

FeedSpec == FeedInit /\ [][FeedNext]_feedVars

Answered(t) == EdgeHit(t) \/ \E u \in URL : t \in Waiting(u) /\ Serve(u)

\* A tab that has no stream and will have none.
Polling == \E t \in Tabs : tabs[t].closed

\* The follower goes on, the poll's timer fires and its query does not fail every
\* time, the browser reconnects unless it was refused, requests are answered.  Nobody
\* has to look at a tab and no stream has to break or be refused.  The caches have to
\* let go only where a tab is left to polling: the probe lives 1.5 seconds and an entry
\* of nginx two, and the interval is longer than both.
FeedFairness ==
    /\ WF_feedVars(Ingest) /\ WF_feedVars(PollPushes)
    /\ \A t \in Tabs :
        /\ WF_feedVars(Connect(t)) /\ WF_feedVars(Hear(t)) /\ WF_feedVars(Poll(t))
        /\ WF_feedVars(Answered(t)) /\ WF_feedVars(Receive(t))
    /\ WF_feedVars(Polling /\ ProbeExpires) /\ WF_feedVars(Polling /\ EdgeExpires(Plain))

FairFeedSpec == FeedSpec /\ FeedFairness

----------------------------------------------------------------------------
(* Properties. *)

FeedTypeOK ==
    /\ landed \in Height /\ seen \in Height /\ lastHead \in Height /\ pushed \in Height
    /\ probe \in Height \cup {Nothing}
    /\ feed \in [Height -> Height \cup {Nothing}]
    /\ edge \in [URL -> Height \cup {Nothing}]
    /\ tabs \in [Tabs -> Tab]
    /\ faults \in 0 .. MaxFaults

\* A refetch that races the push is never answered with a page from before the
\* pushed head: not by the probe's older value, not by nginx, not by a feed page
\* from before a restart or a rollback (explorerService.ts:959-961, live.ts:45-48).
PushServed == \A t \in Tabs : tabs[t].screen >= tabs[t].url

\* No tab shows less than it was told of, wherever the page came from.
FeedSound == FeedTypeOK /\ PushServed

\* A tab that is looked at again and again shows every block that arrives, though
\* streams break, frames are lost, the API forgets what it broadcast and the tab was
\* hidden when it heard (live.ts:38-43); and one whose stream was refused for good does
\* so by polling alone, if it stays in view for the ticks of its timer (live.ts:115-117).
\* The exception is a stream that breaks while the hidden tab still owes a refetch.
CatchesUp ==
    \A t \in Tabs, h \in 1 .. Top :
        /\ []<>(~tabs[t].hidden)
        /\ []~tabs[t].closed \/ <>[]~tabs[t].hidden
        /\ [](tabs[t].owed # 0 => tabs[t].open)
        => (landed >= h ~> tabs[t].screen >= h)

\* The same without the exception.  Looked at while the stream is down, the tab
\* refetches the plain URL and may be given nginx's page of the block before; the
\* stream that comes back replays a head the tab knows, which moves nothing.
CatchesUpWhateverHappens ==
    \A t \in Tabs, h \in 1 .. Top :
        /\ []<>(~tabs[t].hidden)
        /\ []~tabs[t].closed \/ <>[]~tabs[t].hidden
        => (landed >= h ~> tabs[t].screen >= h)

=============================================================================
