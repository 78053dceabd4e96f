--------------------------- MODULE DeriveDebounce ---------------------------
(***************************************************************************)
(* The timing of the derive worker: debounce window, lag bound, poll       *)
(* interval, page limit (pkg/derive/worker/worker.go, runPoll and          *)
(* processEntry; queries/derive_queue.sql, ListDeriveDirty).               *)
(*                                                                         *)
(* One worker.  A timestamp is kept as its age, so a session may stream    *)
(* forever in finitely many states: dirtied_at <= now - Debounce reads     *)
(* age >= Debounce, and a cutoff computed at the listing has drifted by    *)
(* the time its page has been worked on.  Ages saturate at Cap, above      *)
(* which no comparison tells them apart.  The lock, the crashes and the    *)
(* other workers are DeriveQueue's.                                        *)
(***************************************************************************)
EXTENDS Integers, Sequences, FiniteSets, SequencesExt

CONSTANTS
    Session,
    Poison,       \* sessions whose derive fails every time
    Debounce, MaxDeriveLag, PollInterval, ListSize,
    MaxPageTime   \* bound on the time one page takes

ASSUME SessionAssumption == Poison \subseteq Session /\ IsFiniteSet(Session)
ASSUME TimeAssumption ==
    /\ Debounce \in Nat \ {0} /\ MaxDeriveLag \in Nat \ {0}
    /\ PollInterval \in Nat \ {0} /\ MaxPageTime \in Nat /\ ListSize \in Nat \ {0}

\* Nothing is told apart beyond the longest wait BoundedLag allows.
Bound == MaxDeriveLag + PollInterval + 2 * MaxPageTime
Cap == Bound + Debounce + 1
NoAge == -1

VARIABLES
    dirtied,  \* age of derive_queue.dirtied_at, NoAge without a row
    first,    \* age of first_dirtied_at
    unread,   \* age of the oldest capture no derive has read
    page,     \* the rest of the listing
    drift,    \* time since the listing
    timer,    \* time since the last page ended
    deriving, \* the head of the page is being derived
    remarked  \* ... and was marked again meanwhile

debounceVars == <<dirtied, first, unread, page, drift, timer, deriving, remarked>>

DebounceInit ==
    /\ dirtied = [s \in Session |-> NoAge]
    /\ first = [s \in Session |-> NoAge]
    /\ unread = [s \in Session |-> NoAge]
    /\ page = <<>>
    /\ drift = 0
    /\ timer = 0
    /\ deriving = FALSE
    /\ remarked = FALSE

Older(a) == IF a = NoAge \/ a = Cap THEN a ELSE a + 1

\* A mutation of Mark: the upsert bumps first_dirtied_at too.
MarkBumpsFirst(s) ==
    /\ dirtied' = [dirtied EXCEPT ![s] = 0]
    /\ first' = [first EXCEPT ![s] = 0]
    /\ unread' = [unread EXCEPT ![s] = IF @ = NoAge THEN 0 ELSE @]
    /\ remarked' = (remarked \/ (deriving /\ Head(page) = s))
    /\ UNCHANGED <<page, drift, timer, deriving>>

\* MarkDeriveDirty: dirtied_at is bumped, first_dirtied_at survives.
Mark(s) ==
    /\ dirtied' = [dirtied EXCEPT ![s] = 0]
    /\ first' = [first EXCEPT ![s] = IF @ = NoAge THEN 0 ELSE @]
    /\ unread' = [unread EXCEPT ![s] = IF @ = NoAge THEN 0 ELSE @]
    /\ remarked' = (remarked \/ (deriving /\ Head(page) = s))
    /\ UNCHANGED <<page, drift, timer, deriving>>

\* Time passes; a page ends in MaxPageTime and the poll timer fires on time.
Tick ==
    /\ IF page = <<>> THEN timer < PollInterval ELSE drift < MaxPageTime
    /\ dirtied' = [s \in Session |-> Older(dirtied[s])]
    /\ first' = [s \in Session |-> Older(first[s])]
    /\ unread' = [s \in Session |-> Older(unread[s])]
    /\ IF page = <<>> THEN timer' = timer + 1 /\ UNCHANGED drift
                      ELSE drift' = drift + 1 /\ UNCHANGED timer
    /\ UNCHANGED <<page, deriving, remarked>>

\* The row has settled, or has waited past the lag bound, at cutoffs computed
\* `elapsed' ago: at the listing, and again at the re-read under the lock.
Settled(s, elapsed) == dirtied[s] # NoAge /\ dirtied[s] >= Debounce + elapsed
LagBounded(s, elapsed) == first[s] # NoAge /\ first[s] >= MaxDeriveLag + elapsed
Due(s, elapsed) == Settled(s, elapsed) \/ LagBounded(s, elapsed)

\* ListDeriveDirty: ORDER BY dirtied_at LIMIT page_size.
Listing ==
    LET due == {s \in Session : Due(s, 0)}
        size == IF Cardinality(due) < ListSize THEN Cardinality(due) ELSE ListSize
    IN  {p \in SetToAllKPermutations(due) :
            /\ Len(p) = size
            /\ \A i, j \in 1..size : i < j => dirtied[p[i]] >= dirtied[p[j]]
            /\ \A s \in due \ Range(p) : \A i \in 1..size : dirtied[p[i]] >= dirtied[s]}

\* The poll timer fires; an empty page ends at once.
PollDue ==
    /\ page = <<>>
    /\ timer = PollInterval
    /\ timer' = 0
    /\ drift' = 0
    /\ page' \in Listing
    /\ UNCHANGED <<dirtied, first, unread, deriving, remarked>>

\* The rest of the page comes next; the poll timer is reset after its end.
NextEntry == page' = Tail(page)

\* The re-read skips a row that is gone, or neither settled nor lag-bounded.
Skip ==
    /\ page # <<>> /\ ~deriving
    /\ ~Due(Head(page), drift)
    /\ NextEntry
    /\ UNCHANGED <<dirtied, first, unread, drift, timer, deriving, remarked>>

\* RederiveSession reads the raw layer ...
Derive ==
    /\ page # <<>> /\ ~deriving
    /\ Due(Head(page), drift)
    /\ Head(page) \notin Poison
    /\ unread' = [unread EXCEPT ![Head(page)] = NoAge]
    /\ deriving' = TRUE
    /\ remarked' = FALSE
    /\ UNCHANGED <<dirtied, first, page, drift, timer>>

\* A mutation of DeriveFails: a session's failure aborts the page.
DeriveFailsAborts ==
    /\ page # <<>> /\ ~deriving
    /\ Due(Head(page), drift)
    /\ Head(page) \in Poison
    /\ page' = <<>>
    /\ UNCHANGED <<dirtied, first, unread, drift, timer, deriving, remarked>>

\* ... or fails: logged, left queued, and the page goes on.
DeriveFails ==
    /\ page # <<>> /\ ~deriving
    /\ Due(Head(page), drift)
    /\ Head(page) \in Poison
    /\ NextEntry
    /\ UNCHANGED <<dirtied, first, unread, drift, timer, deriving, remarked>>

\* ClearDeriveDirty, unless the session was marked during the derive.
Clear ==
    /\ deriving
    /\ LET s == Head(page)
       IN  IF remarked THEN UNCHANGED <<dirtied, first>>
           ELSE /\ dirtied' = [dirtied EXCEPT ![s] = NoAge]
                /\ first' = [first EXCEPT ![s] = NoAge]
    /\ deriving' = FALSE
    /\ remarked' = FALSE
    /\ NextEntry
    /\ UNCHANGED <<unread, drift, timer>>

DebounceNext ==
    \/ \E s \in Session : Mark(s)
    \/ Tick \/ PollDue \/ Skip \/ Derive \/ DeriveFails \/ Clear

\* Time goes on and the worker's loop runs; nothing obliges a session to be
\* captured, and nothing stops one from streaming forever.
DebounceFairness == WF_debounceVars(Tick) /\ WF_debounceVars(PollDue) /\ WF_debounceVars(Skip) /\ WF_debounceVars(Derive)
            /\ WF_debounceVars(DeriveFails) /\ WF_debounceVars(Clear)

DebounceSpec == DebounceInit /\ [][DebounceNext]_debounceVars
DebounceFairSpec == DebounceSpec /\ DebounceFairness

----------------------------------------------------------------------------
\* However a session streams, no capture of it waits longer for a derive than
\* the lag bound, one poll interval and the two pages that may be in the way
\* (Config.MaxDeriveLag: "Live views see bounded lag instead of waiting for a
\* quiet gap"), as long as a page holds every session.
BoundedLag == \A s \in Session \ Poison : unread[s] <= Bound

\* Every capture of a session that can be derived is derived, whatever the
\* other sessions do: a derive failure "must not stall the rest of the queue"
\* (processEntry).
EveryCaptureIsDerived == \A s \in Session \ Poison : unread[s] # NoAge ~> unread[s] = NoAge

=============================================================================
