---------------------------- MODULE DeriveQueue ----------------------------
(***************************************************************************)
(* The derive pipeline of tapes: captured turns land in the immutable      *)
(* raw layer and mark their session dirty, derive workers turn a dirty     *)
(* session's raw turns into trace rows under a per-session advisory lock.  *)
(*                                                                         *)
(*   pkg/storage/postgres/raw_turns.go      PutRawTurn                     *)
(*   pkg/storage/postgres/session_ingest.go IngestTurn                     *)
(*   pkg/storage/postgres/derive_queue.go   derive_queue, advisory locks   *)
(*   pkg/storage/postgres/derive.go         RederiveSession, writeDerivedSet *)
(*   pkg/storage/postgres/spans.go          writeSpanSet                   *)
(*   pkg/derive/worker/worker.go            Run, runPoll, processEntry     *)
(*                                                                         *)
(* What is abstracted.                                                     *)
(*  - One org.  A harness triple is a member of Session.                   *)
(*  - A turn stands for its (org, request_id); its trace row is the        *)
(*    span_turns row it derives, the spans and links of the trace share    *)
(*    the trace row's session_id and its fate.                             *)
(*  - dirtied_at only matters through equality here (the conditional       *)
(*    clear), so it is a Stamp; a new mark takes a stamp no queue row and  *)
(*    no worker holds.  Two transactions of one session that start in the  *)
(*    same microsecond are therefore outside the model.  The debounce      *)
(*    window is a free choice at the re-read; DeriveDebounce has the       *)
(*    clock.                                                               *)
(*  - A transaction is one step, taken when it commits.                    *)
(***************************************************************************)
EXTENDS Naturals, FiniteSets

CONSTANTS
    Session,        \* harness session keys
    Turn,           \* captured turns, by request_id
    TranscriptTurn, \* the turns whose source is "transcript"
    Worker,         \* derive worker processes
    Rederiver,      \* callers of RederiveSessionLocked
    Stamp,          \* values of derive_queue.dirtied_at
    NoStamp,        \* no derive_queue row
    NoRow,          \* no raw_turns row, no span_turns row
    Keyless,        \* a raw_turns row without a harness_session_id
    Nobody,         \* advisory lock not held
    MaxFaults,      \* bound on crashes, infrastructure and derive errors
    MaxLockLosses   \* bound on lost advisory-lock connections

Deriver == Worker \cup Rederiver

ASSUME TurnAssumption == TranscriptTurn \subseteq Turn
ASSUME ProcessAssumption == Worker \cap Rederiver = {} /\ Nobody \notin Deriver
ASSUME NoneAssumption == /\ NoStamp \notin Stamp
                         /\ {NoRow, Keyless} \cap Session = {}
                         /\ NoRow # Keyless
ASSUME BoundAssumption == MaxFaults \in Nat /\ MaxLockLosses \in Nat

VARIABLES
    attribution, \* raw_turns: the session key of each turn's row
    sessions,    \* sessions: the identity rows that exist
    recent,      \* the turns whose received_at is inside the sweep window
    queue,       \* derive_queue: dirtied_at per session
    rows,        \* span_turns: session_id of each turn's trace row
    lock,        \* Postgres advisory locks
    pc,          \* where each deriver is
    todo,        \* the rest of a worker's page
    target,      \* the session a deriver is on
    cur,         \* the dirtied_at a worker re-read under the lock
    read,        \* the raw turns a pass read
    derived,     \* history: the raw turns the last pass on a session wrote
    faults, lockLosses

rawVars == <<attribution, sessions, recent>>
passVars == <<todo, target, cur, read>>
boundVars == <<faults, lockLosses>>
vars == <<rawVars, queue, rows, lock, pc, passVars, derived, boundVars>>

Held == {"locked", "derive", "write", "clear", "release"}
PC == {"down", "idle", "poll", "wait"} \cup Held

(***************************************************************************)
(* What the queries return.                                                *)
(***************************************************************************)

\* ListRawTurnIndexBySession: the raw turns of one session.
Raw(s) == {t \in Turn : attribution[t] = s}

\* The trace rows tagged with one session.
Traces(s) == {t \in Turn : rows[t] = s}

\* ListDeriveDirty: the sessions with a queue row.
Queued == {s \in Session : queue[s] # NoStamp}

\* CURRENT_TIMESTAMP of a new transaction differs from every dirtied_at in use.
FreshStamp == {st \in Stamp : /\ \A s \in Session : queue[s] # st
                              /\ \A d \in Deriver : cur[d] # st}

\* Mutation of Swept: the conflict clause is inverted, only queued sessions are
\* marked again.
SweptInverted(st) == [s \in Session |->
                        IF queue[s] # NoStamp /\ \E t \in recent : attribution[t] = s
                        THEN st ELSE queue[s]]

\* SweepDeriveDirty: every session with recent raw activity; a session already
\* queued keeps its dirtied_at (ON CONFLICT DO NOTHING).
Swept(st) == [s \in Session |->
                IF queue[s] = NoStamp /\ \E t \in recent : attribution[t] = s
                THEN st ELSE queue[s]]

\* Mutation of Projected: trace rows are written without an identity row.
ProjectedUncovered(s, turns) ==
    [t \in Turn |-> IF t \in turns /\ rows[t] = NoRow THEN s
                    ELSE IF t \notin turns /\ rows[t] = s THEN NoRow
                    ELSE rows[t]]

\* writeSpanSet on the trace rows of one session: upsert what the pass read
\* (session_id = COALESCE(existing, new)), then prune the session's other rows.
\* A session without an identity row is not covered: nothing is written.
Projected(s, turns) ==
    IF s \notin sessions THEN rows
    ELSE [t \in Turn |->
            IF t \in turns /\ rows[t] = NoRow THEN s
            ELSE IF t \notin turns /\ rows[t] = s THEN NoRow
            ELSE rows[t]]

----------------------------------------------------------------------------
Init ==
    /\ attribution = [t \in Turn |-> NoRow]
    /\ sessions = {}
    /\ recent = {}
    /\ queue = [s \in Session |-> NoStamp]
    /\ rows = [t \in Turn |-> NoRow]
    /\ lock = [s \in Session |-> Nobody]
    /\ pc = [d \in Deriver |-> IF d \in Worker THEN "down" ELSE "idle"]
    /\ todo = [d \in Deriver |-> {}]
    /\ target \in [Deriver -> Session]
    /\ cur = [d \in Deriver |-> NoStamp]
    /\ read = [d \in Deriver |-> {}]
    /\ derived = [s \in Session |-> {}]
    /\ faults = 0
    /\ lockLosses = 0

(***************************************************************************)
(* Ingest.                                                                 *)
(***************************************************************************)

\* Mutation of PutRawTurn: the guard on an empty harness_session_id is gone.
PutRawTurnUnguarded(t, s) ==
    /\ attribution' = [attribution EXCEPT ![t] = IF @ = NoRow THEN s ELSE @]
    /\ recent' = IF attribution[t] = NoRow THEN recent \cup {t} ELSE recent
    /\ sessions' = IF t \in TranscriptTurn THEN sessions \cup {s} ELSE sessions
    /\ \E st \in FreshStamp : queue' = [queue EXCEPT ![s] = st]
    /\ UNCHANGED <<rows, lock, pc, passVars, derived, boundVars>>

\* PutRawTurn: one transaction.  A known request_id inserts nothing but still
\* marks the session the caller named; a turn without a session key marks
\* nothing; a transcript upserts its sessions row in the same transaction.
PutRawTurn(t, s) ==
    /\ attribution' = [attribution EXCEPT ![t] = IF @ = NoRow THEN s ELSE @]
    /\ recent' = IF attribution[t] = NoRow THEN recent \cup {t} ELSE recent
    /\ sessions' = IF t \in TranscriptTurn /\ s # Keyless THEN sessions \cup {s} ELSE sessions
    /\ IF s = Keyless THEN queue' = queue
       ELSE \E st \in FreshStamp : queue' = [queue EXCEPT ![s] = st]
    /\ UNCHANGED <<rows, lock, pc, passVars, derived, boundVars>>

\* IngestTurn: the identity row, in a transaction of its own, with no mark.
\* A fork parent's placeholder row is the same insert under the parent's key.
IngestTurn(s) ==
    /\ sessions' = sessions \cup {s}
    /\ UNCHANGED <<attribution, recent, queue, rows, lock, pc, passVars, derived, boundVars>>

\* A raw turn's received_at leaves the sweep window.
AgeOut(t) ==
    /\ recent' = recent \ {t}
    /\ UNCHANGED <<attribution, sessions, queue, rows, lock, pc, passVars, derived, boundVars>>

(***************************************************************************)
(* The derive worker.                                                      *)
(***************************************************************************)

Goto(d, at) == pc' = [pc EXCEPT ![d] = at]

\* runSweep; the sweep never derives.
Sweep ==
    /\ \E st \in FreshStamp : queue' = Swept(st)
    /\ UNCHANGED <<rawVars, rows, lock, passVars, derived>>

\* Run sweeps once before its first poll, a failed sweep is only logged.
Start(w) ==
    /\ pc[w] = "down"
    /\ Goto(w, "idle")
    /\ \/ Sweep /\ UNCHANGED boundVars
       \/ /\ faults < MaxFaults
          /\ faults' = faults + 1
          /\ UNCHANGED <<rawVars, queue, rows, lock, passVars, derived, lockLosses>>

\* The sweep ticker of Run's select.
SweepTick(w) ==
    /\ pc[w] = "idle"
    /\ Sweep
    /\ UNCHANGED <<pc, boundVars>>

\* runPoll lists a page.
RunPoll(w) ==
    /\ pc[w] = "idle"
    /\ Queued # {}
    /\ Goto(w, "poll")
    /\ todo' = [todo EXCEPT ![w] = Queued]
    /\ UNCHANGED <<rawVars, queue, rows, lock, target, cur, read, derived, boundVars>>

\* Mutation of TryLock: the answer of pg_try_advisory_lock is ignored.
TryLockUnchecked(w, s) ==
    /\ pc[w] = "poll"
    /\ s \in todo[w]
    /\ todo' = [todo EXCEPT ![w] = @ \ {s}]
    /\ lock' = [lock EXCEPT ![s] = w]
    /\ target' = [target EXCEPT ![w] = s]
    /\ Goto(w, "locked")
    /\ UNCHANGED <<rawVars, queue, rows, cur, read, derived, boundVars>>

\* processEntry on the next entry: pg_try_advisory_lock, skipped when held.
TryLock(w, s) ==
    /\ pc[w] = "poll"
    /\ s \in todo[w]
    /\ todo' = [todo EXCEPT ![w] = @ \ {s}]
    /\ IF lock[s] = Nobody
       THEN /\ lock' = [lock EXCEPT ![s] = w]
            /\ target' = [target EXCEPT ![w] = s]
            /\ Goto(w, "locked")
       ELSE UNCHANGED <<lock, target, pc>>
    /\ UNCHANGED <<rawVars, queue, rows, cur, read, derived, boundVars>>

\* The page is done.
EndPoll(w) ==
    /\ pc[w] = "poll"
    /\ todo[w] = {}
    /\ Goto(w, "idle")
    /\ UNCHANGED <<rawVars, queue, rows, lock, passVars, derived, boundVars>>

\* The re-read under the lock finds a row that settled or is lag-bounded.
RereadDirty(w) ==
    /\ pc[w] = "locked"
    /\ queue[target[w]] # NoStamp
    /\ cur' = [cur EXCEPT ![w] = queue[target[w]]]
    /\ Goto(w, "derive")
    /\ UNCHANGED <<rawVars, queue, rows, lock, todo, target, read, derived, boundVars>>

\* The re-read finds no row, or one still inside the debounce window.
RereadSkip(w) ==
    /\ pc[w] = "locked"
    /\ Goto(w, "release")
    /\ UNCHANGED <<rawVars, queue, rows, lock, passVars, derived, boundVars>>

\* Mutation of Cleared: the DELETE lost its condition on dirtied_at.
ClearedAlways(w) == [queue EXCEPT ![target[w]] = NoStamp]

\* ClearDeriveDirty: only if dirtied_at is unchanged since the re-read.
Cleared(w) == [queue EXCEPT ![target[w]] = IF @ = cur[w] THEN NoStamp ELSE @]

ClearDeriveDirty(w) ==
    /\ pc[w] = "clear"
    /\ queue' = Cleared(w)
    /\ Goto(w, "release")
    /\ UNCHANGED <<rawVars, rows, lock, passVars, derived, boundVars>>

(***************************************************************************)
(* RederiveSession, run by a worker and by RederiveSessionLocked alike.    *)
(***************************************************************************)

\* The raw turns are read outside any transaction, before the write.
ReadRaw(d) ==
    /\ pc[d] = "derive"
    /\ read' = [read EXCEPT ![d] = Raw(target[d])]
    /\ Goto(d, "write")
    /\ UNCHANGED <<rawVars, queue, rows, lock, todo, target, cur, derived, boundVars>>

Write(d) ==
    /\ rows' = Projected(target[d], read[d])
    /\ derived' = [derived EXCEPT ![target[d]] = read[d]]

\* writeDerivedSet commits; a worker goes on to clear the mark.
WriteDerivedSet(d) ==
    /\ pc[d] = "write"
    /\ Write(d)
    /\ Goto(d, IF d \in Worker THEN "clear" ELSE "release")
    /\ UNCHANGED <<rawVars, queue, lock, passVars, boundVars>>

\* release(): the deferred unlock.
Release(d) ==
    /\ pc[d] = "release"
    /\ Goto(d, IF d \in Worker THEN "poll" ELSE "idle")
    /\ lock' = [s \in Session |-> IF s = target[d] /\ lock[s] = d THEN Nobody ELSE lock[s]]
    /\ cur' = [cur EXCEPT ![d] = NoStamp]
    /\ read' = [read EXCEPT ![d] = {}]
    /\ UNCHANGED <<rawVars, queue, rows, todo, target, derived, boundVars>>

\* RederiveSessionLocked names a session and waits for its lock.
CallRederive(r, s) ==
    /\ pc[r] = "idle"
    /\ target' = [target EXCEPT ![r] = s]
    /\ Goto(r, "wait")
    /\ UNCHANGED <<rawVars, queue, rows, lock, todo, cur, read, derived, boundVars>>

\* Mutation of AcquireLock: the re-derive does not wait for the worker.
AcquireLockUnserialized(r) ==
    /\ pc[r] = "wait"
    /\ Goto(r, "derive")
    /\ UNCHANGED <<rawVars, queue, rows, lock, passVars, derived, boundVars>>

\* AcquireDeriveSessionLock: pg_advisory_lock returns.
AcquireLock(r) ==
    /\ pc[r] = "wait"
    /\ lock[target[r]] = Nobody
    /\ lock' = [lock EXCEPT ![target[r]] = r]
    /\ Goto(r, "derive")
    /\ UNCHANGED <<rawVars, queue, rows, passVars, derived, boundVars>>

(***************************************************************************)
(* Faults.                                                                 *)
(***************************************************************************)

Fault == faults < MaxFaults /\ faults' = faults + 1

\* Mutation of DeriveError: a failed derive drops its queue entry.
DeriveErrorDequeues(d) ==
    /\ Fault
    /\ pc[d] \in {"derive", "write"}
    /\ queue' = [queue EXCEPT ![target[d]] = NoStamp]
    /\ Goto(d, "release")
    /\ UNCHANGED <<rawVars, rows, lock, passVars, derived, lockLosses>>

\* RederiveSession fails: the entry stays queued and the page goes on.  The
\* commit may have reached Postgres although the caller saw an error.
DeriveError(d) ==
    /\ Fault
    /\ pc[d] \in {"derive", "write"}
    /\ \/ UNCHANGED <<rows, derived>>
       \/ pc[d] = "write" /\ Write(d)
    /\ Goto(d, "release")
    /\ UNCHANGED <<rawVars, queue, lock, passVars, lockLosses>>

\* A lock, re-read or clear fails: the rest of the page is abandoned.  The
\* DELETE of a failed clear may have been executed.
InfraError(w) ==
    /\ Fault
    /\ \/ pc[w] = "poll" /\ Goto(w, "idle") /\ UNCHANGED queue
       \/ pc[w] = "locked" /\ Goto(w, "release") /\ UNCHANGED queue
       \/ pc[w] = "clear" /\ Goto(w, "release") /\ queue' \in {queue, Cleared(w)}
    /\ todo' = [todo EXCEPT ![w] = {}]
    /\ UNCHANGED <<rawVars, rows, lock, target, cur, read, derived, lockLosses>>

\* The process dies, the drain window ends, or a caller gives up waiting: its
\* connections and with them its advisory locks go, an open transaction rolls
\* back.
Crash(d) ==
    /\ Fault
    /\ pc[d] # "down"
    /\ Goto(d, IF d \in Worker THEN "down" ELSE "idle")
    /\ lock' = [s \in Session |-> IF lock[s] = d THEN Nobody ELSE lock[s]]
    /\ todo' = [todo EXCEPT ![d] = {}]
    /\ cur' = [cur EXCEPT ![d] = NoStamp]
    /\ read' = [read EXCEPT ![d] = {}]
    /\ UNCHANGED <<rawVars, queue, rows, target, derived, lockLosses>>

\* The connection pinned for the advisory lock is not the one the pass reads
\* and writes on: it can drop alone, and the pass goes on without the lock.
LoseLock(s) ==
    /\ lockLosses < MaxLockLosses
    /\ lock[s] # Nobody
    /\ lock' = [lock EXCEPT ![s] = Nobody]
    /\ lockLosses' = lockLosses + 1
    /\ UNCHANGED <<rawVars, queue, rows, pc, passVars, derived, faults>>

----------------------------------------------------------------------------
Ingest ==
    \/ \E t \in Turn, s \in Session \cup {Keyless} : PutRawTurn(t, s)
    \/ \E s \in Session : IngestTurn(s)
    \/ \E t \in Turn : AgeOut(t)

WorkerStep(w) ==
    \/ Start(w) \/ SweepTick(w) \/ RunPoll(w) \/ EndPoll(w)
    \/ \E s \in Session : TryLock(w, s)
    \/ RereadDirty(w) \/ RereadSkip(w) \/ ClearDeriveDirty(w)
    \/ InfraError(w)

RederiverStep(r) == (\E s \in Session : CallRederive(r, s)) \/ AcquireLock(r)

PassStep(d) == ReadRaw(d) \/ WriteDerivedSet(d) \/ Release(d) \/ DeriveError(d) \/ Crash(d)

Next ==
    \/ Ingest
    \/ \E w \in Worker : WorkerStep(w)
    \/ \E r \in Rederiver : RederiverStep(r)
    \/ \E d \in Deriver : PassStep(d)
    \/ \E s \in Session : LoseLock(s)

Spec == Init /\ [][Next]_vars

(***************************************************************************)
(* Fairness.  The worker's loop and a re-derive's code run on (weak        *)
(* fairness of their own steps).  TryLock and the settled re-read need     *)
(* strong fairness: an entry is listed poll after poll, its lock is free   *)
(* between passes, and DeriveDebounce shows the debounce cannot put the    *)
(* re-read off forever.  Nothing obliges a turn to arrive, a session row   *)
(* to land, a manual re-derive to be called or a fault to happen.          *)
(***************************************************************************)
Fairness ==
    /\ \A w \in Worker :
        /\ WF_vars(Start(w)) /\ SF_vars(SweepTick(w)) /\ WF_vars(EndPoll(w))
        /\ SF_vars(RunPoll(w)) /\ WF_vars(ClearDeriveDirty(w))
        /\ WF_vars(RereadSkip(w)) /\ SF_vars(RereadDirty(w))
        /\ \A s \in Session : SF_vars(TryLock(w, s) /\ lock[s] = Nobody)
    /\ \A d \in Deriver : WF_vars(ReadRaw(d)) /\ WF_vars(WriteDerivedSet(d)) /\ WF_vars(Release(d))

FairSpec == Spec /\ Fairness

----------------------------------------------------------------------------
\* Every table column and process variable stays in its range; in particular no
\* queue row and no identity row is ever filed under an empty session key
\* (PutRawTurn's guard on harness_session_id).
TypeOK ==
    /\ attribution \in [Turn -> Session \cup {NoRow, Keyless}]
    /\ sessions \in SUBSET Session
    /\ recent \in SUBSET Turn
    /\ queue \in [Session -> Stamp \cup {NoStamp}]
    /\ rows \in [Turn -> Session \cup {NoRow}]
    /\ lock \in [Session -> Deriver \cup {Nobody}]
    /\ pc \in [Deriver -> PC]
    /\ todo \in [Deriver -> SUBSET Session]
    /\ target \in [Deriver -> Session]
    /\ cur \in [Deriver -> Stamp \cup {NoStamp}]
    /\ read \in [Deriver -> SUBSET Turn]
    /\ derived \in [Session -> SUBSET Turn]
    /\ faults \in 0..MaxFaults
    /\ lockLosses \in 0..MaxLockLosses

(***************************************************************************)
(* Safety.  All of it is stated for MaxLockLosses = 0; what a lost lock    *)
(* connection does to it is the subject of its own run.                    *)
(***************************************************************************)

\* A read-derive-write pass owns its session's advisory lock from the lock to
\* the release (processEntry's defer release, RederiveSessionLocked), so no two
\* passes on one session overlap.
PassHoldsLock == \A d \in Deriver : pc[d] \in Held => lock[target[d]] = d

\* A session with no queue row has nothing left to derive: the last pass that
\* wrote it read every raw turn it has (processEntry: "At-least-once, never
\* lost").  A turn that lands between a pass's read and its clear must survive
\* the clear, whatever crashes, retries, sweeps and manual re-derives happen.
NothingLost == \A s \in Session : queue[s] = NoStamp => derived[s] = Raw(s)

\* No pass prunes the trace of a turn that is in the raw layer under that
\* session: a pass that read before the turn landed never writes after a pass
\* that read it (RederiveSessionLocked: "cannot interleave ... and prune a turn
\* the worker just wrote").
NeverPruneLive ==
    [][\A t \in Turn : rows[t] \in Session /\ attribution'[t] = rows[t] => rows'[t] = rows[t]]_vars

\* The pipeline is an at-least-once projector: Projection says what its readers
\* may see.
Abstract == INSTANCE Projection WITH landed <- attribution, known <- sessions, projected <- rows
Refines == Abstract!Spec

(***************************************************************************)
(* Liveness.                                                               *)
(***************************************************************************)

\* A marked session with an identity row gets every turn of it projected, with
\* no help from the sweep (the worker's poll loop and its retries).  The mark
\* must not be one a pass that wrote before the identity row landed is about to
\* clear: that one only the sweep makes good.
MarkedIsProjected ==
    \A t \in Turn, s \in Session :
        (/\ attribution[t] = s
         /\ s \in sessions
         /\ queue[s] # NoStamp
         /\ \A w \in Worker : pc[w] = "clear" /\ target[w] = s => cur[w] # queue[s])
        ~> (rows[t] = s)

\* The sweep is the backstop: a turn whose identity row lands late, after a
\* pass found no row, wrote nothing and cleared the mark, is projected as long
\* as it stays inside the sweep window (runSweep, SweepDeriveDirty).
RecentIsProjected ==
    \A t \in Turn, s \in Session :
        (attribution[t] = s /\ s \in sessions /\ t \in recent) ~> (rows[t] = s \/ t \notin recent)

=============================================================================
