---------------------------- MODULE PipelineProofs ----------------------------
(***************************************************************************)
(* Before and after the derive queue: what the proxies capture, when the   *)
(* passes of a session come, and what a consumer sees of them.             *)
(*                                                                         *)
(* Close drains the capture pool and its bytes are accounted for, for any  *)
(* number of jobs and workers and any sizes of the queue and of the        *)
(* budget; and what the streaming proxy captures is what it relayed, but   *)
(* for two losses, and is captured once, for any requests, buffers and     *)
(* chunks and answers of any length.                                       *)
(*                                                                         *)
(* The wait of a capture is bounded (BoundedLag) for any window, lag bound, *)
(* poll interval and page time, any of the sessions poisoned, as long as a *)
(* page can list every session. The bound is not inductive: it holds because *)
(* a session that has waited past the lag bound is on the next page and    *)
(* cannot be skipped there. InStep says what a wait is at each moment of the *)
(* poll cycle.                                                             *)
(*                                                                         *)
(* The change feed is never overtaken, and with pages that can hold every  *)
(* row it loses nothing.                                                   *)
(***************************************************************************)
EXTENDS CapturePool, StreamingProxy, DeriveDebounce, ChangeFeed, FoldTheorems, FiniteSetTheorems, TLAPS

-----------------------------------------------------------------------------
(* The capture pool. *)

\* The types the argument needs.
Types ==
    /\ stage \in [Job -> Stage]
    /\ queue \in Seq(Job)
    /\ at \in [Worker -> Job \cup {NoJob}]
    /\ exited \in SUBSET Worker

\* ClosedIsDrained made inductive: an accepted job is in the channel or with a
\* worker, and a worker leaves its loop with nothing in hand and nothing left.
Drain ==
    /\ Types
    /\ \A j \in Job : stage[j] = "queued" => \E i \in 1..Len(queue) : queue[i] = j
    /\ \A j \in Job : stage[j] \in {"raw", "ident"} => \E w \in Worker : at[w] = j
    /\ \A w \in exited : at[w] = NoJob
    /\ exited # {} => ~open /\ queue = <<>>
    /\ ~serving => exited = Worker

\* A handler step: only Send touches the channel, and only while it is open.
LEMMA HandlerDrain ==
    ASSUME Drain, NEW j \in Job, HandlerStep(j)
    PROVE  Drain'
<1> USE DEF Drain, Types
<1>1. CASE Arrive(j)
    BY <1>1 DEF Arrive, Becomes, Stage, Holding, serverVars
<1>2. CASE Reserve(j)
    BY <1>2 DEF Reserve, Becomes, Stage, Holding, serverVars
<1>3. CASE Send(j)
    <2>1. CASE ~open
        BY <1>3, <2>1 DEF Send
    <2>2. CASE open /\ Len(queue) < QueueSize
        <3>1. queue' = Append(queue, j) /\ stage' = [stage EXCEPT ![j] = "queued"]
            BY <1>3, <2>2 DEF Send, Becomes
        <3>2. UNCHANGED <<at, exited, open, serving>> /\ exited = {}
            BY <1>3, <2>2 DEF Send
        <3>3. /\ queue' \in Seq(Job) /\ Len(queue') = Len(queue) + 1
              /\ queue'[Len(queue) + 1] = j
              /\ \A i \in 1..Len(queue) : queue'[i] = queue[i]
            BY <3>1
        <3>4. \A k \in Job : stage'[k] = "queued" => \E i \in 1..Len(queue') : queue'[i] = k
            <4> SUFFICES ASSUME NEW k \in Job, stage'[k] = "queued"
                         PROVE  \E i \in 1..Len(queue') : queue'[i] = k
                OBVIOUS
            <4>1. CASE k = j
                BY <3>3, <4>1
            <4>2. CASE k # j
                <5>1. PICK i \in 1..Len(queue) : queue[i] = k
                    BY <3>1, <4>2
                <5> QED
                    BY <3>3, <5>1
            <4> QED
                BY <4>1, <4>2
        <3> QED
            BY <3>1, <3>2, <3>3, <3>4 DEF Stage, Holding
    <2>3. CASE open /\ ~(Len(queue) < QueueSize)
        BY <1>3, <2>3 DEF Send, Becomes, Stage, Holding
    <2> QED
        BY <2>1, <2>2, <2>3
<1>4. CASE ReleaseFull(j)
    BY <1>4 DEF ReleaseFull, Becomes, Stage, Holding, serverVars
<1> QED
    BY <1>1, <1>2, <1>3, <1>4 DEF HandlerStep

\* A worker step: the head of the channel moves into the worker's hands, and
\* leaves them only when processJob is through.
LEMMA WorkerDrain ==
    ASSUME Drain, NEW w \in Worker, WorkerStep(w)
    PROVE  Drain'
<1> USE DEF Drain, Types
<1>1. CASE Take(w)
    <2> DEFINE h == Head(queue)
    <2>1. /\ queue # <<>> /\ queue' = Tail(queue) /\ at[w] = NoJob /\ w \notin exited
          /\ at' = [at EXCEPT ![w] = h] /\ stage' = [stage EXCEPT ![h] = "raw"]
          /\ UNCHANGED <<exited, open, serving>>
        BY <1>1 DEF Take, Becomes, serverVars
    <2>2. /\ h \in Job /\ queue' \in Seq(Job) /\ Len(queue') = Len(queue) - 1 /\ h = queue[1]
          /\ Len(queue) \in Nat /\ \A i \in 1..Len(queue') : queue'[i] = queue[i + 1]
        BY <2>1
    <2>3. \A k \in Job : stage'[k] = "queued" => \E i \in 1..Len(queue') : queue'[i] = k
        <3> SUFFICES ASSUME NEW k \in Job, stage'[k] = "queued"
                     PROVE  \E i \in 1..Len(queue') : queue'[i] = k
            OBVIOUS
        <3>1. k # h /\ stage[k] = "queued"
            BY <2>1, <2>2
        <3>2. PICK i \in 1..Len(queue) : queue[i] = k
            BY <3>1
        <3>3. i # 1
            <4>1. k # queue[1]
                BY <2>2, <3>1
            <4> QED
                BY <3>2, <4>1
        <3>4. i - 1 \in 1..Len(queue')
            <4> HIDE DEF Drain, Types, h
            <4> QED
                BY <2>2, <3>2, <3>3
        <3>5. queue'[i - 1] = k
            <4> HIDE DEF Drain, Types, h
            <4>1. queue'[i - 1] = queue[(i - 1) + 1]
                BY <2>2, <3>4
            <4>2. (i - 1) + 1 = i
                BY <2>2, <3>2
            <4> QED
                BY <3>2, <4>1, <4>2
        <3> QED
            BY <3>4, <3>5
    <2>4. \A k \in Job : stage'[k] \in {"raw", "ident"} => \E v \in Worker : at'[v] = k
        BY <2>1, <2>2, JobAssumption
    <2> QED
        BY <2>1, <2>2, <2>3, <2>4 DEF Stage, Holding
<1>2. CASE SkipJob(w)
    BY <1>2 DEF SkipJob, Becomes, Stage, Holding, serverVars
<1>3. CASE PersistRawTurn(w)
    BY <1>3 DEF PersistRawTurn, Becomes, Stage, Holding, serverVars
<1>4. CASE IngestSession(w)
    BY <1>4 DEF IngestSession, Becomes, Stage, Holding, serverVars
<1>5. CASE ReleaseJob(w)
    BY <1>5 DEF ReleaseJob, Becomes, Stage, Holding, serverVars
<1>6. CASE Exit(w)
    BY <1>6 DEF Exit, serverVars
<1> QED
    BY <1>1, <1>2, <1>3, <1>4, <1>5, <1>6 DEF WorkerStep

\* Drain is an invariant.
LEMMA DrainHolds == PoolSpec => []Drain
<1>1. PoolInit => Drain
    BY DEF PoolInit, Drain, Types, Stage
<1>2. Drain /\ [PoolNext]_poolVars => Drain'
    <2> SUFFICES ASSUME Drain, [PoolNext]_poolVars PROVE Drain'
        OBVIOUS
    <2>1. CASE ClosePool
        BY <2>1 DEF ClosePool, Drain, Types
    <2>2. CASE Shutdown
        BY <2>2 DEF Shutdown, Drain, Types
    <2>3. CASE UNCHANGED poolVars
        BY <2>3 DEF poolVars, Drain, Types
    <2> QED
        BY <2>1, <2>2, <2>3, HandlerDrain, WorkerDrain DEF PoolNext
<1> QED
    BY <1>1, <1>2, PTL DEF PoolSpec

\* When Close has returned, no accepted job is left behind (Pool.Close: "waits
\* for in-flight jobs to drain").
THEOREM CloseDrains == PoolSpec => []ClosedIsDrained
<1>1. Drain => ClosedIsDrained
    <2> SUFFICES ASSUME Drain, ~serving, NEW j \in Job, stage[j] \in Accepted
                 PROVE  FALSE
        BY DEF ClosedIsDrained
    <2>1. exited = Worker /\ queue = <<>> /\ \A w \in Worker : at[w] = NoJob
        BY WorkerAssumption DEF Drain
    <2> QED
        BY <2>1, JobAssumption DEF Drain, Accepted
<1> QED
    BY <1>1, DrainHolds, PTL

----------------------------------------------------------------------------
\* The bytes.

\* The jobs that hold a reservation.
Holders == {j \in Job : stage[j] \in Holding}

\* BytesAccounted made inductive: the channel holds queued jobs, each once, so
\* what a worker takes has a reservation that nobody has given back.
Account ==
    /\ Drain
    /\ \A i \in 1..Len(queue) : stage[queue[i]] = "queued"
    /\ \A i, k \in 1..Len(queue) : queue[i] = queue[k] => i = k
    /\ inFlight = SumFunctionOnSet(Weight, Holders)
    /\ inFlight <= ByteBudget

\* Finitely many jobs hold a reservation, each of a natural weight.
LEMMA HoldersAreFinite == IsFiniteSet(Holders) /\ \A j \in Holders : Weight[j] \in Nat
BY JobAssumption, FS_Subset DEF Holders

\* What one job's new stage does to the account.
LEMMA HoldersMove ==
    ASSUME Types, NEW j \in Job, NEW st \in Stage, Becomes(j, st)
    PROVE  Holders' = IF st \in Holding THEN Holders \cup {j} ELSE Holders \ {j}
BY DEF Holders, Types, Becomes

\* A reservation adds the weight of its job.
LEMMA JobReserves ==
    ASSUME Types, NEW j \in Job, stage[j] \notin Holding, NEW st \in Holding, Becomes(j, st)
    PROVE  SumFunctionOnSet(Weight, Holders') = SumFunctionOnSet(Weight, Holders) + Weight[j]
<1>1. Holders' = Holders \cup {j} /\ j \notin Holders /\ j \in Holders'
    BY HoldersMove DEF Stage, Holders
<1>2. IsFiniteSet(Holders') /\ \A k \in Holders' : Weight[k] \in Nat
    BY <1>1, HoldersAreFinite, FS_AddElement, JobAssumption
<1>3. Holders' \ {j} = Holders
    BY <1>1
<1>4. SumFunctionOnSet(Weight, Holders') = Weight[j] + SumFunctionOnSet(Weight, Holders)
    BY <1>1, <1>2, <1>3, SumRemove
<1>5. SumFunctionOnSet(Weight, Holders) \in Nat /\ Weight[j] \in Nat
    BY HoldersAreFinite, SumType, JobAssumption
<1> QED
    BY <1>4, <1>5

\* A release takes it away.
LEMMA JobReleases ==
    ASSUME Types, NEW j \in Job, stage[j] \in Holding, NEW st \in Stage \ Holding, Becomes(j, st)
    PROVE  /\ SumFunctionOnSet(Weight, Holders') = SumFunctionOnSet(Weight, Holders) - Weight[j]
           /\ Weight[j] \in Nat
<1>1. Holders' = Holders \ {j} /\ j \in Holders
    BY HoldersMove DEF Holders
<1>2. SumFunctionOnSet(Weight, Holders) = Weight[j] + SumFunctionOnSet(Weight, Holders')
    BY <1>1, HoldersAreFinite, SumRemove
<1>3. IsFiniteSet(Holders') /\ \A k \in Holders' : Weight[k] \in Nat
    BY <1>1, HoldersAreFinite, FS_RemoveElement
<1>4. SumFunctionOnSet(Weight, Holders') \in Nat /\ Weight[j] \in Nat
    BY <1>1, <1>3, HoldersAreFinite, SumType
<1> QED
    BY <1>2, <1>4

\* A job that goes on with its reservation, or without one, changes nothing.
LEMMA JobGoesOn ==
    ASSUME Types, NEW j \in Job, NEW st \in Stage, stage[j] \in Holding <=> st \in Holding,
           Becomes(j, st)
    PROVE  Holders' = Holders
BY HoldersMove DEF Holders

\* A step off the channel: its job was not in it, as it is not queued.
LEMMA OffTheChannel ==
    ASSUME Account, NEW j \in Job, stage[j] # "queued", NEW st \in Stage, Becomes(j, st),
           UNCHANGED queue
    PROVE  /\ \A i \in 1..Len(queue') : stage'[queue'[i]] = "queued"
           /\ \A i, k \in 1..Len(queue') : queue'[i] = queue'[k] => i = k
BY DEF Account, Drain, Types, Becomes

\* What a handler does in Admit keeps the account, the channel full or not.
LEMMA HandlerAccount ==
    ASSUME Account, NEW j \in Job, HandlerStep(j)
    PROVE  Account'
<1> USE DEF Stage, Holding
<1>1. Drain' /\ Types
    BY HandlerDrain DEF Account, Drain
<1>2. /\ inFlight = SumFunctionOnSet(Weight, Holders) /\ inFlight <= ByteBudget
      /\ inFlight \in Nat /\ Weight[j] \in Nat /\ ByteBudget \in Nat
    BY HoldersAreFinite, SumType, JobAssumption, SizeAssumption DEF Account
<1>3. CASE Arrive(j)
    <2>1. Becomes(j, "handling") /\ stage[j] = "out" /\ UNCHANGED <<queue, inFlight>>
        BY <1>3 DEF Arrive
    <2>2. Holders' = Holders
        BY <1>1, <2>1, JobGoesOn
    <2> QED
        BY <1>1, <1>2, <2>1, <2>2, OffTheChannel DEF Account
<1>4. CASE Reserve(j)
    <2>1. stage[j] = "handling" /\ UNCHANGED queue
        BY <1>4 DEF Reserve
    <2>2. CASE Weight[j] > 0 /\ inFlight + Weight[j] > ByteBudget
        <3>1. Becomes(j, "dropped") /\ UNCHANGED inFlight
            BY <1>4, <2>2 DEF Reserve
        <3>2. Holders' = Holders
            BY <1>1, <2>1, <3>1, JobGoesOn
        <3> QED
            BY <1>1, <1>2, <2>1, <3>1, <3>2, OffTheChannel DEF Account
    <2>3. CASE ~(Weight[j] > 0 /\ inFlight + Weight[j] > ByteBudget)
        <3>1. Becomes(j, "reserved") /\ inFlight' = inFlight + Weight[j]
            BY <1>4, <2>3 DEF Reserve
        <3>2. SumFunctionOnSet(Weight, Holders') = SumFunctionOnSet(Weight, Holders) + Weight[j]
            BY <1>1, <2>1, <3>1, JobReserves
        <3>3. inFlight' <= ByteBudget
            BY <1>2, <2>3, <3>1
        <3> QED
            BY <1>1, <1>2, <2>1, <3>1, <3>2, <3>3, OffTheChannel DEF Account
    <2> QED
        BY <2>2, <2>3
<1>5. CASE Send(j)
    <2>1. stage[j] = "reserved" /\ UNCHANGED inFlight
        BY <1>5 DEF Send
    <2>2. CASE ~open
        <3>1. UNCHANGED <<stage, queue>>
            BY <1>5, <2>2 DEF Send
        <3> QED
            BY <1>1, <2>1, <3>1 DEF Account, Holders
    <2>3. CASE open /\ Len(queue) < QueueSize
        <3>1. Becomes(j, "queued") /\ queue' = Append(queue, j)
            BY <1>5, <2>3 DEF Send
        <3>2. Holders' = Holders
            BY <1>1, <2>1, <3>1, JobGoesOn
        <3>3. /\ Len(queue') = Len(queue) + 1 /\ queue'[Len(queue) + 1] = j /\ Len(queue) \in Nat
              /\ \A i \in 1..Len(queue) : queue'[i] = queue[i] /\ queue[i] # j /\ queue[i] \in Job
            BY <1>1, <2>1, <3>1 DEF Types, Account
        <3>4. \A i \in 1..Len(queue') : i \in 1..Len(queue) \/ i = Len(queue) + 1
            BY <3>3
        <3>5. \A i \in 1..Len(queue') : stage'[queue'[i]] = "queued"
            BY <1>1, <3>1, <3>3, <3>4 DEF Types, Becomes, Account
        <3>6. \A i, k \in 1..Len(queue') : queue'[i] = queue'[k] => i = k
            BY <3>3, <3>4 DEF Account
        <3> QED
            BY <1>1, <2>1, <3>2, <3>5, <3>6 DEF Account
    <2>4. CASE open /\ ~(Len(queue) < QueueSize)
        <3>1. Becomes(j, "full") /\ UNCHANGED queue
            BY <1>5, <2>4 DEF Send
        <3>2. Holders' = Holders
            BY <1>1, <2>1, <3>1, JobGoesOn
        <3> QED
            BY <1>1, <2>1, <3>1, <3>2, OffTheChannel DEF Account
    <2> QED
        BY <2>2, <2>3, <2>4
<1>6. CASE ReleaseFull(j)
    <2>1. /\ stage[j] = "full" /\ Becomes(j, "dropped")
          /\ inFlight' = inFlight - Weight[j] /\ UNCHANGED queue
        BY <1>6 DEF ReleaseFull
    <2>2. SumFunctionOnSet(Weight, Holders') = SumFunctionOnSet(Weight, Holders) - Weight[j]
        BY <1>1, <2>1, JobReleases
    <2>3. inFlight' <= ByteBudget
        BY <1>2, <2>1
    <2> QED
        BY <1>1, <1>2, <2>1, <2>2, <2>3, OffTheChannel DEF Account
<1> QED
    BY <1>3, <1>4, <1>5, <1>6 DEF HandlerStep

\* What a worker does keeps the account; only its deferred release gives back.
LEMMA WorkerAccount ==
    ASSUME Account, NEW w \in Worker, WorkerStep(w)
    PROVE  Account'
<1> USE DEF Stage, Holding
<1>1. Drain' /\ Types
    BY WorkerDrain DEF Account, Drain
<1>2. /\ inFlight = SumFunctionOnSet(Weight, Holders) /\ inFlight <= ByteBudget
      /\ inFlight \in Nat /\ ByteBudget \in Nat
    BY HoldersAreFinite, SumType, SizeAssumption DEF Account
<1>3. at[w] # NoJob => at[w] \in Job
    BY <1>1 DEF Types
<1>4. CASE Take(w)
    <2> DEFINE h == Head(queue)
    <2>1. queue # <<>> /\ queue' = Tail(queue) /\ Becomes(h, "raw") /\ UNCHANGED inFlight
        BY <1>4 DEF Take
    <2>2. /\ h \in Job /\ h = queue[1] /\ Len(queue) \in Nat /\ Len(queue) >= 1
          /\ Len(queue') = Len(queue) - 1 /\ \A i \in 1..Len(queue') : queue'[i] = queue[i + 1]
        BY <1>1, <2>1 DEF Types
    <2>3. stage[h] = "queued"
        BY <2>2 DEF Account
    <2>4. Holders' = Holders
        BY <1>1, <2>1, <2>2, <2>3, JobGoesOn
    <2> HIDE DEF h
    <2>5. \A i \in 1..Len(queue') : i + 1 \in 1..Len(queue) /\ i + 1 # 1 /\ queue[i + 1] \in Job
        BY <1>1, <2>2 DEF Types
    <2>6. \A i \in 1..Len(queue') : queue'[i] \in Job /\ queue'[i] # h /\ stage[queue'[i]] = "queued"
        BY <2>2, <2>5 DEF Account
    <2>7. \A i \in 1..Len(queue') : stage'[queue'[i]] = "queued"
        BY <1>1, <2>1, <2>6 DEF Types, Becomes
    <2>8. \A i, k \in 1..Len(queue') : queue'[i] = queue'[k] => i = k
        <3> SUFFICES ASSUME NEW i \in 1..Len(queue'), NEW k \in 1..Len(queue'), queue'[i] = queue'[k]
                     PROVE  i = k
            OBVIOUS
        <3>1. queue[i + 1] = queue[k + 1]
            BY <2>2
        <3>2. i + 1 = k + 1
            BY <2>5, <3>1 DEF Account
        <3> QED
            BY <2>2, <3>2
    <2> QED
        BY <1>1, <2>1, <2>4, <2>7, <2>8 DEF Account
<1>5. CASE SkipJob(w) \/ PersistRawTurn(w) \/ IngestSession(w)
    <2>1. PICK st \in {"ident", "captured"} :
              /\ at[w] # NoJob /\ stage[at[w]] \in {"raw", "ident"}
              /\ Becomes(at[w], st) /\ UNCHANGED <<queue, inFlight>>
        BY <1>5 DEF SkipJob, PersistRawTurn, IngestSession
    <2>2. Holders' = Holders
        BY <1>1, <1>3, <2>1, JobGoesOn
    <2>3. stage[at[w]] # "queued"
        BY <2>1
    <2> QED
        BY <1>1, <1>3, <2>1, <2>2, <2>3, OffTheChannel DEF Account
<1>6. CASE ReleaseJob(w)
    <2>1. /\ at[w] # NoJob /\ stage[at[w]] = "captured" /\ Becomes(at[w], "done")
          /\ inFlight' = inFlight - Weight[at[w]] /\ UNCHANGED queue
        BY <1>6 DEF ReleaseJob
    <2>2. /\ SumFunctionOnSet(Weight, Holders') = SumFunctionOnSet(Weight, Holders) - Weight[at[w]]
          /\ Weight[at[w]] \in Nat
        BY <1>1, <1>3, <2>1, JobReleases
    <2>3. inFlight' <= ByteBudget
        BY <1>2, <2>1, <2>2
    <2> QED
        BY <1>1, <1>2, <1>3, <2>1, <2>2, <2>3, OffTheChannel DEF Account
<1>7. CASE Exit(w)
    BY <1>1, <1>7 DEF Exit, Account, Holders
<1> QED
    BY <1>4, <1>5, <1>6, <1>7 DEF WorkerStep

\* The reserved bytes are those of the jobs that hold a reservation and within
\* the budget, whoever interleaves (Admit, reserve, release).
THEOREM BytesAreAccounted == PoolSpec => []BytesAccounted
<1>1. PoolInit => Account
    <2> SUFFICES ASSUME PoolInit PROVE Account
        OBVIOUS
    <2>1. Drain
        BY DEF PoolInit, Drain, Types, Stage
    <2>2. Holders = {} /\ IsFiniteSet(Holders)
        BY FS_EmptySet DEF PoolInit, Holders, Holding
    <2>3. SumFunctionOnSet(Weight, Holders) = 0
        BY <2>2, SumStep
    <2> QED
        BY <2>1, <2>3, SizeAssumption DEF PoolInit, Account
<1>2. Account /\ [PoolNext]_poolVars => Account'
    <2> SUFFICES ASSUME Account, [PoolNext]_poolVars PROVE Account'
        OBVIOUS
    <2>1. CASE ClosePool
        BY <2>1 DEF ClosePool, Account, Drain, Types, Holders
    <2>2. CASE Shutdown
        BY <2>2 DEF Shutdown, Account, Drain, Types, Holders
    <2>3. CASE UNCHANGED poolVars
        BY <2>3 DEF poolVars, Account, Drain, Types, Holders
    <2> QED
        BY <2>1, <2>2, <2>3, HandlerAccount, WorkerAccount DEF PoolNext
<1>3. Account => BytesAccounted
    BY DEF Account, Drain, Types, BytesAccounted, Holders
<1> QED
    BY <1>1, <1>2, <1>3, PTL DEF PoolSpec

----------------------------------------------------------------------------
\* The captures.

\* What a chunk may name.
Tool == {c.tool : c \in Chunk} \cup {NoTool}

\* The recursion of FoldLeft, for KeepNew over the places of a sequence.
KeepsUp(base, uses, D, g) ==
    g = [s \in SUBSET D |-> IF s = {} THEN base ELSE KeepNew(g[s \ {Max(s)}], uses[Max(s)])]

\* What collecting the calls at the places T makes of base: it has those of
\* base and of the places, and each that has an id once.
Kept(v, base, uses, T) ==
    /\ v \in Seq(Tool)
    /\ \A t : (\E i \in 1..Len(v) : v[i] = t) <=>
                  \/ \E i \in 1..Len(base) : base[i] = t
                  \/ t # NoTool /\ \E i \in T : uses[i] = t
    /\ \A i, k \in 1..Len(v) : v[i] = v[k] /\ v[i] # Anonymous => i = k

\* Its value on all of the places.
Fold(base, uses, D) == (CHOOSE g : KeepsUp(base, uses, D, g))[D]

\* The community definition is the chosen solution of that recursion.
LEMMA KeptIsRecursive ==
    \A base, uses : FoldLeft(KeepNew, base, uses) = Fold(base, uses, DOMAIN uses)
BY DEF FoldLeft, MapThenFoldSet, KeepsUp, Fold

\* Two solutions agree wherever both are defined.
LEMMA OneFold ==
    ASSUME NEW base, NEW uses, NEW A, NEW B, NEW g, NEW h,
           KeepsUp(base, uses, A, g), KeepsUp(base, uses, B, h),
           NEW W, W \subseteq A, W \subseteq B, IsFiniteSet(W),
           \A s \in SUBSET W : s # {} => Max(s) \in s
    PROVE  g[W] = h[W]
<1> DEFINE Good == {T \in SUBSET W : g[T] = h[T]}
<1>1. ASSUME NEW T \in SUBSET W, \A U \in SUBSET T : U # T => U \in Good
      PROVE  T \in Good
  <2>1. CASE T = {}
    BY <2>1 DEF KeepsUp
  <2>2. CASE T # {}
    <3>1. T \ {Max(T)} \in SUBSET T /\ T \ {Max(T)} # T
      BY <2>2
    <3>2. g[T \ {Max(T)}] = h[T \ {Max(T)}]
      BY <1>1, <3>1
    <3>3. g[T] = KeepNew(g[T \ {Max(T)}], uses[Max(T)])
      BY <2>2 DEF KeepsUp
    <3>4. h[T] = KeepNew(h[T \ {Max(T)}], uses[Max(T)])
      BY <2>2 DEF KeepsUp
    <3> QED
      BY <3>2, <3>3, <3>4
  <2> QED
    BY <2>1, <2>2
<1>2. W \in Good
  <2> HIDE DEF Good
  <2> QED
    BY <1>1, SubsetInduction
<1> QED
  BY <1>2

\* The recursion has a solution.
LEMMA HasFold ==
    ASSUME NEW base, NEW uses, NEW n \in Nat
    PROVE  \E g : KeepsUp(base, uses, 1..n, g)
<1> DEFINE D == 1..n
           Good == {T \in SUBSET D : \E g : KeepsUp(base, uses, T, g)}
<1>1. ASSUME NEW T \in SUBSET D, \A U \in SUBSET T : U # T => U \in Good
      PROVE  T \in Good
  <2> DEFINE g == [s \in SUBSET T |-> IF s = {} THEN base
                                      ELSE KeepNew(Fold(base, uses, s \ {Max(s)}), uses[Max(s)])]
  <2>1. ASSUME NEW s \in SUBSET T, s # {}
        PROVE  g[s \ {Max(s)}] = Fold(base, uses, s \ {Max(s)})
    <3> DEFINE V == s \ {Max(s)}
               h == CHOOSE k : KeepsUp(base, uses, V, k)
    <3>1. V \in SUBSET T /\ V # T /\ V \in SUBSET D
      BY <2>1, LastPlace
    <3>2. KeepsUp(base, uses, V, h)
      BY <1>1, <3>1
    <3>3. Fold(base, uses, V) = h[V]
      BY DEF Fold
    <3> HIDE DEF h
    <3>4. CASE V = {}
      BY <3>1, <3>2, <3>3, <3>4 DEF KeepsUp
    <3>5. CASE V # {}
      <4> DEFINE W == V \ {Max(V)}
      <4>1. W \in SUBSET V /\ W \in SUBSET T /\ W # T /\ W \in SUBSET D
        BY <3>1
      <4>2. KeepsUp(base, uses, W, CHOOSE k : KeepsUp(base, uses, W, k))
        BY <1>1, <4>1
      <4>3. Fold(base, uses, W) = h[W]
        <5> DEFINE f == CHOOSE k : KeepsUp(base, uses, W, k)
        <5>1. Fold(base, uses, W) = f[W]
          BY DEF Fold
        <5>2. KeepsUp(base, uses, W, f)
          BY <4>2
        <5> HIDE DEF f, V, W, g
        <5>3. IsFiniteSet(W)
          <6>1. IsFiniteSet(D)
            BY FS_Interval
          <6> QED
            BY <4>1, <6>1, FS_Subset
        <5>4. \A u \in SUBSET W : u # {} => Max(u) \in u
          BY <4>1, LastPlace
        <5>5. W \subseteq V
          BY <4>1
        <5>6. f[W] = h[W]
          BY <3>2, <5>2, <5>3, <5>4, <5>5, OneFold
        <5> QED
          BY <5>1, <5>6
      <4>4. h[V] = KeepNew(h[W], uses[Max(V)])
        BY <3>2, <3>5 DEF KeepsUp
      <4>5. g[V] = KeepNew(Fold(base, uses, W), uses[Max(V)])
        BY <3>1, <3>5
      <4> QED
        BY <3>3, <4>3, <4>4, <4>5
    <3> QED
      BY <3>4, <3>5
  <2>2. KeepsUp(base, uses, T, g)
    BY <2>1 DEF KeepsUp
  <2> QED
    BY <2>2
<1>2. D \in Good
  <2>1. IsFiniteSet(D)
    BY FS_Interval
  <2>2. D \in SUBSET D
    OBVIOUS
  <2> HIDE DEF Good, D
  <2> QED
    BY <1>1, <2>1, SubsetInduction
<1> QED
  BY <1>2

\* One more call: it is dropped if it is none or known by its id.
LEMMA KeepNewKeeps ==
    ASSUME NEW base, NEW uses, NEW T, NEW v, Kept(v, base, uses, T), NEW x, uses[x] \in Tool
    PROVE  Kept(KeepNew(v, uses[x]), base, uses, T \cup {x})
<1> DEFINE c == uses[x]
<1>1. CASE c = NoTool
  BY <1>1 DEF KeepNew, Kept
<1>2. CASE c # NoTool /\ c # Anonymous /\ Contains(v, c)
  BY <1>2 DEF KeepNew, Kept, Contains
<1>3. CASE c # NoTool /\ ~(c # Anonymous /\ Contains(v, c))
  <2> DEFINE w == Append(v, c)
  <2>1. KeepNew(v, c) = w
    BY <1>3 DEF KeepNew
  <2>2. v \in Seq(Tool) /\ Len(v) \in Nat
    BY DEF Kept
  <2>3. /\ w \in Seq(Tool) /\ Len(w) = Len(v) + 1 /\ w[Len(v) + 1] = c
        /\ \A i \in 1..Len(v) : w[i] = v[i]
    BY <2>2
  <2>4. \A i \in 1..Len(w) : i \in 1..Len(v) \/ i = Len(v) + 1
    BY <2>2, <2>3
  <2>5. \A i \in 1..Len(v) : i \in 1..Len(w)
    BY <2>2, <2>3
  <2>6. Len(v) + 1 \in 1..Len(w)
    BY <2>2, <2>3
  <2> HIDE DEF w
  <2>7. \A t : (\E i \in 1..Len(w) : w[i] = t) <=> (\E i \in 1..Len(v) : v[i] = t) \/ t = c
    BY <2>3, <2>4, <2>5, <2>6
  <2>8. \A t : (\E i \in 1..Len(w) : w[i] = t) <=>
                  \/ \E i \in 1..Len(base) : base[i] = t
                  \/ t # NoTool /\ \E i \in T \cup {x} : uses[i] = t
    <3> HIDE DEF Kept
    <3>1. \A t : (\E i \in 1..Len(v) : v[i] = t) <=>
                  \/ \E i \in 1..Len(base) : base[i] = t
                  \/ t # NoTool /\ \E i \in T : uses[i] = t
      BY DEF Kept
    <3>2. \A t : (\E i \in T \cup {x} : uses[i] = t) <=> (\E i \in T : uses[i] = t) \/ t = c
      OBVIOUS
    <3> QED
      BY <1>3, <2>7, <3>1, <3>2
  <2>9. \A i, k \in 1..Len(w) : w[i] = w[k] /\ w[i] # Anonymous => i = k
    <3>1. c # Anonymous => \A i \in 1..Len(v) : v[i] # c
      BY <1>3 DEF Contains
    <3>2. \A i, k \in 1..Len(v) : v[i] = v[k] /\ v[i] # Anonymous => i = k
      BY DEF Kept
    <3> QED
      BY <2>3, <2>4, <3>1, <3>2
  <2> QED
    BY <2>1, <2>3, <2>8, <2>9 DEF Kept
<1> QED
  BY <1>1, <1>2, <1>3

\* So it is for any number of calls.
LEMMA FoldKeeps ==
    ASSUME NEW base \in Seq(Tool), NEW uses \in Seq(Tool),
           \A i, k \in 1..Len(base) : base[i] = base[k] /\ base[i] # Anonymous => i = k
    PROVE  Kept(FoldLeft(KeepNew, base, uses), base, uses, 1..Len(uses))
<1> DEFINE n == Len(uses)
           D == 1..n
           g == CHOOSE k : KeepsUp(base, uses, D, k)
           Good == {T \in SUBSET D : Kept(g[T], base, uses, T)}
<1>1. n \in Nat /\ DOMAIN uses = D /\ \A i \in D : uses[i] \in Tool
  OBVIOUS
<1>2. KeepsUp(base, uses, D, g)
  BY <1>1, HasFold
<1>3. FoldLeft(KeepNew, base, uses) = g[D]
  <2>1. FoldLeft(KeepNew, base, uses) = Fold(base, uses, D)
    BY <1>1, KeptIsRecursive
  <2>2. Fold(base, uses, D) = g[D]
    BY DEF Fold
  <2> QED
    BY <2>1, <2>2
<1> HIDE DEF n, g
<1>4. ASSUME NEW T \in SUBSET D, \A U \in SUBSET T : U # T => U \in Good
      PROVE  T \in Good
  <2>1. CASE T = {}
    <3>1. g[T] = base
      BY <1>2, <2>1 DEF KeepsUp
    <3>2. Kept(base, base, uses, {})
      BY DEF Kept
    <3> QED
      BY <2>1, <3>1, <3>2
  <2>2. CASE T # {}
    <3> DEFINE m == Max(T)
    <3>1. m \in T /\ m \in D
      BY <1>1, <2>2, LastPlace
    <3>2. g[T] = KeepNew(g[T \ {m}], uses[m])
      BY <1>2, <2>2 DEF KeepsUp
    <3> HIDE DEF m
    <3>3. Kept(g[T \ {m}], base, uses, T \ {m})
      BY <1>4, <3>1
    <3>4. Kept(KeepNew(g[T \ {m}], uses[m]), base, uses, (T \ {m}) \cup {m})
      BY <1>1, <3>1, <3>3, KeepNewKeeps
    <3>5. (T \ {m}) \cup {m} = T
      BY <3>1
    <3> QED
      BY <3>2, <3>4, <3>5
  <2> QED
    BY <2>1, <2>2
<1>5. D \in Good
  <2>1. IsFiniteSet(D)
    BY <1>1, FS_Interval
  <2>2. D \in SUBSET D
    OBVIOUS
  <2> HIDE DEF Good, D
  <2> QED
    BY <1>4, <2>1, SubsetInduction
<1>6. Kept(g[D], base, uses, D)
  BY <1>5
<1> QED
  BY <1>3, <1>6 DEF n

Answer == [text : SUBSET Nat, tools : Seq(Tool)]
Readers == {"capture", "legacy", "ndjson"}

\* What CaptureIsTheAnswer asks of the text and of the calls of one answer.
KeepsText(text, p, chunks) ==
    /\ text \subseteq Texts(chunks)
    /\ text = {} => Texts(chunks) = {}
    /\ (p = "ndjson" => ~Last(chunks).text) => text = Texts(chunks)
KeepsTools(tools, p, chunks) ==
    /\ p # "legacy" => Tools(chunks) \subseteq Range(tools)
    /\ p = "ndjson" => \A t \in Tools(chunks) : Occurrences(t, tools) = 1
    /\ Range(tools) \subseteq Tools(chunks) \cup {NoTool, Anonymous}
Faithful(answer, p, chunks) == KeepsText(answer.text, p, chunks) /\ KeepsTools(answer.tools, p, chunks)

\* The calls of these chunks, each that has an id once.
CallsOf(v, p, chunks) ==
    /\ v \in Seq(Tool)
    /\ \A t : (\E i \in 1..Len(v) : v[i] = t) <=>
                  t # NoTool /\ \E i \in 1..Len(chunks) : ToolOf(p, chunks[i]) = t
    /\ \A i, k \in 1..Len(v) : v[i] = v[k] /\ v[i] # Anonymous => i = k

\* A call that is in a sequence, and not twice, occurs once.
LEMMA OccursOnce ==
    ASSUME NEW v \in Seq(Tool), NEW i \in 1..Len(v), \A k \in 1..Len(v) : v[i] = v[k] => i = k
    PROVE  Occurrences(v[i], v) = 1
<1>1. {k \in DOMAIN v : v[k] = v[i]} = {i}
  OBVIOUS
<1>2. Cardinality({i}) = 1
  BY FS_Singleton
<1> QED
  BY <1>1, <1>2 DEF Occurrences

\* What ParseResponse finds in each chunk.
LEMMA ToolsOfChunks ==
    ASSUME NEW p, NEW chunks \in Seq(Chunk)
    PROVE  /\ ToolsOf(p, chunks) \in Seq(Tool) /\ Len(ToolsOf(p, chunks)) = Len(chunks)
           /\ \A i \in 1..Len(chunks) : ToolsOf(p, chunks)[i] = ToolOf(p, chunks[i])
           /\ \A i \in 1..Len(chunks) : ToolOf(p, chunks[i]) \in Tools(chunks) \cup {NoTool, Anonymous}
<1>1. \A i \in 1..Len(chunks) : chunks[i] \in Chunk
  OBVIOUS
<1>2. \A i \in 1..Len(chunks) : ToolOf(p, chunks[i]) \in Tool
  BY <1>1 DEF ToolOf, Tool
<1>3. \A i \in 1..Len(chunks) : ToolOf(p, chunks[i]) \in Tools(chunks) \cup {NoTool, Anonymous}
  BY DEF ToolOf, Tools
<1> QED
  BY <1>2, <1>3 DEF ToolsOf

\* The identified calls of chunks are those a reader other than the legacy one
\* finds in them.
LEMMA ToolsAreFound ==
    ASSUME NEW p, p # "legacy", NEW chunks \in Seq(Chunk), NEW t \in Tools(chunks)
    PROVE  t # NoTool /\ t # Anonymous /\ \E i \in 1..Len(chunks) : ToolOf(p, chunks[i]) = t
  BY DEF Tools, ToolOf

\* collectStreamedToolUse collects the calls of the chunks that parse.
LEMMA CollectedCalls ==
    ASSUME NEW p, NEW chunks \in Seq(Chunk)
    PROVE  CallsOf(collectStreamedToolUse(p, chunks), p, chunks)
<1> DEFINE uses == ToolsOf(p, chunks)
<1>1. uses \in Seq(Tool) /\ Len(uses) = Len(chunks) /\ \A i \in 1..Len(chunks) : uses[i] = ToolOf(p, chunks[i])
  BY ToolsOfChunks
<1>2. collectStreamedToolUse(p, chunks) = FoldLeft(KeepNew, <<>>, uses)
  BY DEF collectStreamedToolUse
<1> HIDE DEF uses
<1>3. Kept(FoldLeft(KeepNew, <<>>, uses), <<>>, uses, 1..Len(uses))
  <2>1. <<>> \in Seq(Tool) /\ Len(<<>>) = 0
    OBVIOUS
  <2>2. \A i, k \in 1..Len(<<>>) : <<>>[i] = <<>>[k] /\ <<>>[i] # Anonymous => i = k
    BY <2>1
  <2> QED
    BY <1>1, <2>1, <2>2, FoldKeeps
<1> DEFINE v == FoldLeft(KeepNew, <<>>, uses)
<1>4. /\ v \in Seq(Tool)
      /\ \A t : (\E i \in 1..Len(v) : v[i] = t) <=> t # NoTool /\ \E i \in 1..Len(uses) : uses[i] = t
      /\ \A i, k \in 1..Len(v) : v[i] = v[k] /\ v[i] # Anonymous => i = k
  <2> HIDE DEF v
  <2>1. Len(<<>>) = 0 /\ 1..0 = {}
    OBVIOUS
  <2>2. \A t : ~\E i \in 1..Len(<<>>) : <<>>[i] = t
    BY <2>1
  <2>3. Kept(v, <<>>, uses, 1..Len(uses))
    BY <1>3 DEF v
  <2>4. v \in Seq(Tool) /\ \A i, k \in 1..Len(v) : v[i] = v[k] /\ v[i] # Anonymous => i = k
    BY <2>3 DEF Kept
  <2>5. ASSUME NEW t
        PROVE  (\E i \in 1..Len(v) : v[i] = t) <=> t # NoTool /\ \E i \in 1..Len(uses) : uses[i] = t
    <3>1. (\E i \in 1..Len(v) : v[i] = t) <=>
              \/ \E i \in 1..Len(<<>>) : <<>>[i] = t
              \/ t # NoTool /\ \E i \in 1..Len(uses) : uses[i] = t
      BY <2>3 DEF Kept
    <3> QED
      BY <2>2, <3>1
  <2> QED
    BY <2>4, <2>5
<1> HIDE DEF v
<1>5. CallsOf(v, p, chunks)
  <2>1. \A t : (\E i \in 1..Len(uses) : uses[i] = t) <=> \E i \in 1..Len(chunks) : ToolOf(p, chunks[i]) = t
    BY <1>1
  <2>2. \A t : (\E i \in 1..Len(v) : v[i] = t) <=> t # NoTool /\ \E i \in 1..Len(chunks) : ToolOf(p, chunks[i]) = t
    BY <1>4, <2>1
  <2> QED
    BY <1>4, <2>2 DEF CallsOf
<1> QED
  BY <1>2, <1>5 DEF v

\* mergeToolUse adds to the blocks of the last chunk what the others have.
LEMMA MergedCalls ==
    ASSUME NEW p, NEW chunks \in Seq(Chunk), NEW tools, CallsOf(tools, p, chunks),
           NEW own \in Seq(Tool), Len(own) <= 1, \A i \in 1..Len(own) : \E k \in 1..Len(tools) : own[i] = tools[k]
    PROVE  CallsOf(mergeToolUse(own, tools), p, chunks)
<1>1. \A i, k \in 1..Len(own) : own[i] = own[k] /\ own[i] # Anonymous => i = k
  OBVIOUS
<1>2. tools \in Seq(Tool)
  BY DEF CallsOf
<1>3. Kept(FoldLeft(KeepNew, own, tools), own, tools, 1..Len(tools))
  BY <1>1, <1>2, FoldKeeps
<1> DEFINE v == FoldLeft(KeepNew, own, tools)
<1>4. mergeToolUse(own, tools) = v
  BY DEF mergeToolUse
<1>5. Kept(v, own, tools, 1..Len(tools))
  BY <1>3
<1> HIDE DEF v
<1>6. \A k \in 1..Len(tools) : tools[k] # NoTool
  BY DEF CallsOf
<1>7. \A t : (\E i \in 1..Len(v) : v[i] = t) <=> \E i \in 1..Len(tools) : tools[i] = t
  <2>1. ASSUME NEW t
        PROVE  (\E i \in 1..Len(v) : v[i] = t) <=>
                   \/ \E i \in 1..Len(own) : own[i] = t
                   \/ t # NoTool /\ \E i \in 1..Len(tools) : tools[i] = t
    BY <1>5 DEF Kept
  <2>2. \A t : (\E i \in 1..Len(own) : own[i] = t) => \E k \in 1..Len(tools) : tools[k] = t
    OBVIOUS
  <2>3. \A t : (\E k \in 1..Len(tools) : tools[k] = t) => t # NoTool
    BY <1>6
  <2> QED
    BY <2>1, <2>2, <2>3
<1>8. v \in Seq(Tool) /\ \A i, k \in 1..Len(v) : v[i] = v[k] /\ v[i] # Anonymous => i = k
  BY <1>5 DEF Kept
<1>9. \A t : (\E i \in 1..Len(v) : v[i] = t) <=>
                 t # NoTool /\ \E i \in 1..Len(chunks) : ToolOf(p, chunks[i]) = t
  BY <1>7 DEF CallsOf
<1> QED
  BY <1>4, <1>8, <1>9 DEF CallsOf

\* Calls so collected are those of the answer, each once.
LEMMA CallsAreKept ==
    ASSUME NEW p, NEW chunks \in Seq(Chunk), NEW v, CallsOf(v, p, chunks)
    PROVE  KeepsTools(v, p, chunks)
<1>1. v \in Seq(Tool)
  BY DEF CallsOf
<1>2. ASSUME NEW t \in Tools(chunks), p # "legacy"
      PROVE  t \in Range(v) /\ Occurrences(t, v) = 1
  <2>0. t # NoTool /\ t # Anonymous /\ \E i \in 1..Len(chunks) : ToolOf(p, chunks[i]) = t
    BY <1>2, ToolsAreFound
  <2>1. t # Anonymous /\ \E i \in 1..Len(v) : v[i] = t
    BY <2>0 DEF CallsOf
  <2>2. PICK i \in 1..Len(v) : v[i] = t
    BY <2>1
  <2>3. \A k \in 1..Len(v) : v[i] = v[k] => i = k
    BY <2>1, <2>2 DEF CallsOf
  <2>4. Occurrences(t, v) = 1
    BY <1>1, <2>2, <2>3, OccursOnce
  <2>5. t \in Range(v)
    BY <1>1, <2>2 DEF Range
  <2> QED
    BY <2>4, <2>5
<1>3. Range(v) \subseteq Tools(chunks) \cup {NoTool, Anonymous}
  <2> SUFFICES ASSUME NEW i \in 1..Len(v) PROVE v[i] \in Tools(chunks) \cup {NoTool, Anonymous}
    BY <1>1 DEF Range
  <2>1. \E k \in 1..Len(chunks) : ToolOf(p, chunks[k]) = v[i]
    BY DEF CallsOf
  <2>2. \A k \in 1..Len(chunks) : ToolOf(p, chunks[k]) \in Tools(chunks) \cup {NoTool, Anonymous}
    BY ToolsOfChunks
  <2> QED
    BY <2>1, <2>2
<1> QED
  BY <1>2, <1>3 DEF KeepsTools

\* Of a stream the reducer keeps everything.
LEMMA ReducedIsFaithful ==
    ASSUME NEW p, p # "ndjson", NEW chunks \in Seq(Chunk)
    PROVE  Reduced(p, chunks) \in Answer /\ Faithful(Reduced(p, chunks), p, chunks)
<1> DEFINE v == ToolsOf(p, chunks)
<1>1. /\ v \in Seq(Tool) /\ Len(v) = Len(chunks)
      /\ \A i \in 1..Len(chunks) : v[i] = ToolOf(p, chunks[i])
      /\ \A i \in 1..Len(chunks) : ToolOf(p, chunks[i]) \in Tools(chunks) \cup {NoTool, Anonymous}
  BY ToolsOfChunks
<1> HIDE DEF v
<1>2. Range(v) \subseteq Tools(chunks) \cup {NoTool, Anonymous}
  BY <1>1 DEF Range
<1>3. ASSUME NEW t \in Tools(chunks), p # "legacy" PROVE t \in Range(v)
  <2>1. PICK i \in 1..Len(chunks) : ToolOf(p, chunks[i]) = t
    BY <1>3, ToolsAreFound
  <2> QED
    BY <1>1, <2>1 DEF Range
<1>4. KeepsTools(v, p, chunks)
  BY <1>2, <1>3 DEF KeepsTools
<1>5. Texts(chunks) \in SUBSET Nat /\ KeepsText(Texts(chunks), p, chunks)
  BY DEF Texts, KeepsText
<1>6. Reduced(p, chunks) = [text |-> Texts(chunks), tools |-> v]
  BY DEF Reduced, v
<1> QED
  BY <1>1, <1>4, <1>5, <1>6 DEF Answer, Faithful

\* The text of a last chunk that parses, and the text that came.
LEMMA LastTextIsKept ==
    ASSUME NEW p \in {"legacy", "ndjson"}, NEW chunks \in Seq(Chunk), chunks # <<>>, NEW text,
           text = IF OwnText(p, Last(chunks)) THEN {Len(chunks)} ELSE Texts(chunks)
    PROVE  text \in SUBSET Nat /\ KeepsText(text, p, chunks)
<1>1. Len(chunks) \in Nat \ {0} /\ Last(chunks) = chunks[Len(chunks)]
  BY DEF Last
<1>2. Texts(chunks) \in SUBSET Nat
  BY DEF Texts
<1>3. CASE OwnText(p, Last(chunks))
  <2>1. p # "legacy" /\ chunks[Len(chunks)].text /\ text = {Len(chunks)}
    BY <1>1, <1>3 DEF OwnText
  <2>2. Len(chunks) \in Texts(chunks)
    BY <1>1, <2>1 DEF Texts
  <2> QED
    BY <1>1, <2>1, <2>2 DEF KeepsText
<1>4. CASE ~OwnText(p, Last(chunks))
  BY <1>2, <1>4 DEF KeepsText
<1> QED
  BY <1>3, <1>4

\* An answer rebuilt from its chunks is theirs, and is rebuilt if a reader
\* found anything in them.
LEMMA RebuiltIsFaithful ==
    ASSUME NEW p \in {"legacy", "ndjson"}, NEW chunks \in Seq(Chunk), chunks # <<>>
    PROVE  LET answer == reconstructStreamedResponse(p, chunks)
           IN  /\ answer = None \/ (answer \in Answer /\ Faithful(answer, p, chunks))
               /\ Said(p, chunks) => answer \in Answer
<1> DEFINE tools == collectStreamedToolUse(p, chunks)
           last == Last(chunks)
           keeps == OwnText(p, last) \/ Texts(chunks) = {}
           own == IF keeps /\ ToolOf(p, last) # NoTool THEN <<ToolOf(p, last)>> ELSE <<>>
           text == IF OwnText(p, last) THEN {Len(chunks)} ELSE Texts(chunks)
           answer == reconstructStreamedResponse(p, chunks)
<1>1. CallsOf(tools, p, chunks)
  BY CollectedCalls
<1>2. Len(chunks) \in 1..Len(chunks) /\ last = chunks[Len(chunks)] /\ last \in Chunk
  BY DEF Last
<1>3. answer = IF last.parses THEN [text |-> text, tools |-> mergeToolUse(own, tools)]
               ELSE IF Texts(chunks) # {} \/ tools # <<>> THEN [text |-> Texts(chunks), tools |-> tools]
               ELSE None
  BY DEF reconstructStreamedResponse
<1>4. text \in SUBSET Nat /\ KeepsText(text, p, chunks)
  BY LastTextIsKept
<1>5. Texts(chunks) \in SUBSET Nat /\ KeepsText(Texts(chunks), p, chunks)
  BY DEF Texts, KeepsText
<1>6. ToolOf(p, last) \in Tool
  BY <1>2 DEF ToolOf, Tool
<1>7. ToolOf(p, last) # NoTool => \E k \in 1..Len(tools) : tools[k] = ToolOf(p, last)
  BY <1>1, <1>2 DEF CallsOf
<1> HIDE DEF answer, tools, last, text, keeps
<1>8. CASE last.parses
  <2>1. own \in Seq(Tool) /\ Len(own) <= 1
    <3>1. <<ToolOf(p, last)>> \in Seq(Tool) /\ Len(<<ToolOf(p, last)>>) = 1
      BY <1>6
    <3>2. <<>> \in Seq(Tool) /\ Len(<<>>) = 0
      OBVIOUS
    <3>3. own = <<ToolOf(p, last)>> \/ own = <<>>
      OBVIOUS
    <3> HIDE DEF own
    <3>4. CASE own = <<ToolOf(p, last)>>
      BY <3>1, <3>4
    <3>5. CASE own = <<>>
      BY <3>2, <3>5
    <3> QED
      BY <3>3, <3>4, <3>5
  <2>2. \A i \in 1..Len(own) : \E k \in 1..Len(tools) : own[i] = tools[k]
    <3>1. \A i \in 1..Len(own) : own[i] = ToolOf(p, last) /\ ToolOf(p, last) # NoTool
      OBVIOUS
    <3> HIDE DEF own
    <3> QED
      BY <1>7, <3>1
  <2> HIDE DEF own
  <2> DEFINE v == mergeToolUse(own, tools)
  <2>3. CallsOf(v, p, chunks)
    BY <1>1, <2>1, <2>2, MergedCalls
  <2> HIDE DEF v
  <2>4. KeepsTools(v, p, chunks) /\ v \in Seq(Tool)
    BY <2>3, CallsAreKept DEF CallsOf
  <2>5. answer = [text |-> text, tools |-> v]
    BY <1>3, <1>8 DEF v
  <2> QED
    BY <1>4, <2>4, <2>5 DEF answer, Answer, Faithful
<1>9. CASE ~last.parses
  <2>1. KeepsTools(tools, p, chunks) /\ tools \in Seq(Tool)
    BY <1>1, CallsAreKept DEF CallsOf
  <2>2. Texts(chunks) # {} \/ tools # <<>> => answer \in Answer /\ Faithful(answer, p, chunks)
    BY <1>3, <1>5, <1>9, <2>1 DEF Answer, Faithful
  <2>3. Said(p, chunks) => Texts(chunks) # {} \/ tools # <<>>
    <3> SUFFICES ASSUME NEW i \in 1..Len(chunks), ToolOf(p, chunks[i]) # NoTool PROVE tools # <<>>
      BY DEF Said
    <3>1. \E k \in 1..Len(tools) : tools[k] = ToolOf(p, chunks[i])
      BY <1>1 DEF CallsOf
    <3> QED
      BY <3>1
  <2> QED
    BY <1>3, <1>9, <2>2, <2>3 DEF answer
<1> QED
  BY <1>8, <1>9

\* CaptureIsTheAnswer made inductive: a request has a capture only when no
\* more of its answer will come, and a stream has one of the three readers.
ProxyInv ==
    /\ DOMAIN phase = Request /\ DOMAIN job = Request /\ DOMAIN path = Request
    /\ sent \in [Request -> Seq(Chunk)]
    /\ buffer \in [Request -> Buffer \cup {None}]
    /\ \A r \in Request :
           /\ phase[r] \in {"new", "calling"} => path[r] = None
           /\ phase[r] = "relaying" => path[r] \in Readers
           /\ job[r] # None =>
                  phase[r] \in {"replied", "over"} /\ Faithful(job[r].response, path[r], sent[r])

\* What a request leaves behind when its answer is through.
LEMMA EnqueuesFaithfully ==
    ASSUME ProxyInv, NEW r \in Request, NEW response, Enqueues(r, response), To(r, "replied"),
           UNCHANGED <<buffer, path>>, sent' \in [Request -> Seq(Chunk)],
           \A q \in Request \ {r} : sent'[q] = sent[q],
           response # None => Faithful(response, path[r], sent'[r])
    PROVE  ProxyInv'
<1>1. /\ DOMAIN job = Request /\ DOMAIN phase = Request
      /\ phase' = [phase EXCEPT ![r] = "replied"]
      /\ job' = [job EXCEPT ![r] = IF response = None THEN None
                                   ELSE [response |-> response, buffer |-> buffer[r]]]
  BY DEF ProxyInv, Enqueues, To
<1>2. /\ DOMAIN phase' = Request /\ DOMAIN job' = Request /\ phase'[r] = "replied"
      /\ \A q \in Request \ {r} : job'[q] = job[q] /\ phase'[q] = phase[q]
  BY <1>1
<1>3. job'[r] # None => response # None /\ job'[r].response = response
  BY <1>1
<1>4. ASSUME NEW q \in Request, job'[q] # None
      PROVE  phase'[q] \in {"replied", "over"} /\ Faithful(job'[q].response, path'[q], sent'[q])
  <2>1. CASE q = r
    BY <1>2, <1>3, <1>4, <2>1
  <2>2. CASE q # r
    BY <1>2, <1>4, <2>2 DEF ProxyInv
  <2> QED
    BY <2>1, <2>2
<1>5. ASSUME NEW q \in Request
      PROVE  /\ phase'[q] \in {"new", "calling"} => path'[q] = None
             /\ phase'[q] = "relaying" => path'[q] \in Readers
  BY <1>2 DEF ProxyInv
<1> QED
  BY <1>2, <1>4, <1>5 DEF ProxyInv

\* A step that leaves the captures and what was sent alone.
LEMMA PhaseMoves ==
    ASSUME ProxyInv, NEW r \in Request, NEW p, To(r, p), UNCHANGED <<job, sent, path>>,
           buffer' \in [Request -> Buffer \cup {None}],
           \/ phase[r] = "new" /\ p = "calling"
           \/ p \in {"replied", "over"}
    PROVE  ProxyInv'
<1>1. DOMAIN phase' = Request /\ phase'[r] = p /\ \A q \in Request \ {r} : phase'[q] = phase[q]
  BY DEF ProxyInv, To
<1>2. ASSUME NEW q \in Request, job[q] # None PROVE phase'[q] \in {"replied", "over"}
  BY <1>1, <1>2 DEF ProxyInv
<1>3. ASSUME NEW q \in Request
      PROVE  /\ phase'[q] \in {"new", "calling"} => path[q] = None
             /\ phase'[q] = "relaying" => path[q] \in Readers
  BY <1>1 DEF ProxyInv
<1> QED
  BY <1>1, <1>2, <1>3 DEF ProxyInv

\* What the capture reader leaves behind wherever its stream ends.
LEMMA CapturedIsFaithful ==
    ASSUME ProxyInv, NEW r \in Request, path[r] = "capture", Captured(r) # None
    PROVE  Captured(r) \in Answer /\ Faithful(Captured(r), path[r], sent[r])
<1>1. sent[r] \in Seq(Chunk)
  BY DEF ProxyInv
<1>2. Captured(r) = Reduced(path[r], sent[r])
  BY DEF Captured
<1> QED
  BY <1>1, <1>2, ReducedIsFaithful

\* What the other two leave behind.
LEMMA EnqueuedIsFaithful ==
    ASSUME ProxyInv, NEW r \in Request, path[r] \in {"legacy", "ndjson"},
           enqueueStreamedResponse(r, sent[r]) # None
    PROVE  Faithful(enqueueStreamedResponse(r, sent[r]), path[r], sent[r])
<1>1. sent[r] \in Seq(Chunk) /\ sent[r] # <<>>
  BY DEF ProxyInv, enqueueStreamedResponse
<1>2. enqueueStreamedResponse(r, sent[r]) = reconstructStreamedResponse(path[r], sent[r])
  BY DEF enqueueStreamedResponse
<1> QED
  BY <1>1, <1>2, RebuiltIsFaithful

\* What a stream that ended is captured as, if it is.
LEMMA StreamCaptured ==
    ASSUME ProxyInv, NEW r \in Request, NEW whole \in BOOLEAN, StreamEnds(r, whole)
    PROVE  ProxyInv'
<1> DEFINE response == IF ~Keeps(r, whole) THEN None
                       ELSE IF path[r] = "capture" THEN Captured(r) ELSE enqueueStreamedResponse(r, sent[r])
<1>1. Enqueues(r, response) /\ To(r, "replied") /\ UNCHANGED <<buffer, path, sent>>
  BY DEF StreamEnds
<1>2. path[r] \in Readers
  BY DEF StreamEnds, ProxyInv
<1>3. response # None => Faithful(response, path[r], sent[r])
  BY <1>2, CapturedIsFaithful, EnqueuedIsFaithful DEF Readers
<1> HIDE DEF response
<1>4. sent' \in [Request -> Seq(Chunk)] /\ \A q \in Request \ {r} : sent'[q] = sent[q]
  BY <1>1 DEF ProxyInv
<1> QED
  BY <1>1, <1>3, <1>4, EnqueuesFaithfully

\* What a stream whose client left is captured as, if it is.
LEMMA RelayCaptured ==
    ASSUME ProxyInv, NEW r \in Request, NEW chunk \in Chunk, RelayFails(r, chunk)
    PROVE  ProxyInv'
<1> DEFINE response == IF path[r] = "capture" THEN Captured(r) ELSE None
<1>1. Enqueues(r, response) /\ To(r, "replied") /\ UNCHANGED <<buffer, path, sent>>
  BY DEF RelayFails
<1>2. response # None => Faithful(response, path[r], sent[r])
  BY CapturedIsFaithful
<1> HIDE DEF response
<1>3. sent' \in [Request -> Seq(Chunk)] /\ \A q \in Request \ {r} : sent'[q] = sent[q]
  BY <1>1 DEF ProxyInv
<1> QED
  BY <1>1, <1>2, <1>3, EnqueuesFaithfully

\* A whole answer is captured as it is.
LEMMA WholeCaptured ==
    ASSUME ProxyInv, NEW r \in Request, NEW chunk \in Chunk, NEW ok \in BOOLEAN, AnswerWhole(r, chunk, ok)
    PROVE  ProxyInv'
<1> DEFINE response == IF parsed[r] /\ ok /\ chunk.parses THEN Reduced(None, <<chunk>>) ELSE None
<1>1. /\ Enqueues(r, response) /\ To(r, "replied") /\ UNCHANGED <<buffer, path>>
      /\ sent' = [sent EXCEPT ![r] = <<chunk>>]
  BY DEF AnswerWhole
<1>2. <<chunk>> \in Seq(Chunk)
  OBVIOUS
<1>3. /\ sent' \in [Request -> Seq(Chunk)] /\ sent'[r] = <<chunk>>
      /\ \A q \in Request \ {r} : sent'[q] = sent[q]
  BY <1>1, <1>2 DEF ProxyInv
<1>4. path[r] = None
  BY DEF AnswerWhole, ProxyInv
<1>5. None # "ndjson"
  BY NoneAssumption DEF NoneAssumption
<1>6. Faithful(Reduced(None, <<chunk>>), None, <<chunk>>)
  BY <1>2, <1>5, ReducedIsFaithful
<1>7. response # None => Faithful(response, path[r], sent'[r])
  BY <1>3, <1>4, <1>6
<1> HIDE DEF response
<1> QED
  BY <1>1, <1>3, <1>7, EnqueuesFaithfully

\* Every step of an exchange keeps what is captured faithful.
LEMMA ProxyStep ==
    ASSUME ProxyInv, [ProxyNext]_proxyVars
    PROVE  ProxyInv'
<1>1. CASE UNCHANGED proxyVars
  BY <1>1 DEF proxyVars, ProxyInv
<1>2. ASSUME NEW r \in Request, NEW parses \in BOOLEAN, Receive(r, parses) PROVE ProxyInv'
  <2>1. buffer' \in [Request -> Buffer \cup {None}]
    BY <1>2 DEF Receive, ProxyInv
  <2>2. phase[r] = "new" /\ To(r, "calling") /\ UNCHANGED <<job, sent, path>>
    BY <1>2 DEF Receive
  <2> QED
    BY <2>1, <2>2, PhaseMoves
<1>3. ASSUME NEW r \in Request, Refuse(r) PROVE ProxyInv'
  BY <1>3, PhaseMoves DEF Refuse, ProxyInv
<1>4. ASSUME NEW r \in Request, NEW chunk \in Chunk, NEW ok \in BOOLEAN, AnswerWhole(r, chunk, ok)
      PROVE  ProxyInv'
  BY <1>4, WholeCaptured
<1>5. ASSUME NEW r \in Request, NEW p \in Readers, StartStream(r, p) PROVE ProxyInv'
  <2>1. /\ phase[r] = "calling" /\ phase' = [phase EXCEPT ![r] = "relaying"]
        /\ path' = [path EXCEPT ![r] = p] /\ UNCHANGED <<job, sent, buffer>>
    BY <1>5 DEF StartStream, To
  <2>2. /\ DOMAIN phase' = Request /\ DOMAIN path' = Request
        /\ phase'[r] = "relaying" /\ path'[r] = p
        /\ \A q \in Request \ {r} : phase'[q] = phase[q] /\ path'[q] = path[q]
    BY <2>1 DEF ProxyInv
  <2>3. job[r] = None
    BY <2>1 DEF ProxyInv
  <2>4. ASSUME NEW q \in Request
        PROVE  /\ phase'[q] \in {"new", "calling"} => path'[q] = None
               /\ phase'[q] = "relaying" => path'[q] \in Readers
               /\ job[q] # None =>
                      phase'[q] \in {"replied", "over"} /\ Faithful(job[q].response, path'[q], sent[q])
    <3>1. CASE q = r
      BY <2>2, <2>3, <3>1
    <3>2. CASE q # r
      BY <2>2, <3>2 DEF ProxyInv
    <3> QED
      BY <3>1, <3>2
  <2> QED
    BY <2>1, <2>2, <2>4 DEF ProxyInv
<1>6. ASSUME NEW r \in Request, NEW chunk \in Chunk, Relay(r, chunk) PROVE ProxyInv'
  <2>1. /\ phase[r] = "relaying" /\ UNCHANGED <<phase, job, buffer, path>>
        /\ sent' = [sent EXCEPT ![r] = Append(@, chunk)]
    BY <1>6 DEF Relay
  <2>2. sent' \in [Request -> Seq(Chunk)] /\ \A q \in Request \ {r} : sent'[q] = sent[q]
    BY <2>1 DEF ProxyInv
  <2>3. job[r] = None
    BY <2>1 DEF ProxyInv
  <2>4. ASSUME NEW q \in Request, job[q] # None
        PROVE  phase[q] \in {"replied", "over"} /\ Faithful(job[q].response, path[q], sent'[q])
    BY <2>2, <2>3, <2>4 DEF ProxyInv
  <2> QED
    BY <2>1, <2>2, <2>4 DEF ProxyInv
<1>7. ASSUME NEW r \in Request, NEW chunk \in Chunk, RelayFails(r, chunk) PROVE ProxyInv'
  BY <1>7, RelayCaptured
<1>8. ASSUME NEW r \in Request, ClientLeft(r) \/ Store(r) PROVE ProxyInv'
  BY <1>8 DEF ClientLeft, Store, ProxyInv
<1>9. ASSUME NEW r \in Request, Recycle(r) PROVE ProxyInv'
  BY <1>9, PhaseMoves DEF Recycle, ProxyInv
<1> QED
  BY <1>1, <1>2, <1>3, <1>4, <1>5, <1>6, <1>7, <1>8, <1>9, StreamCaptured
     DEF ProxyNext, Serve, Upstream, Readers

\* ProxyInv is an invariant.
LEMMA ProxyInvHolds == ProxySpec => []ProxyInv
<1>1. ProxyInit => ProxyInv
  BY DEF ProxyInit, ProxyInv
<1> QED
  BY <1>1, ProxyStep, PTL DEF ProxySpec

\* A captured answer says what the exchange relayed, whatever path relayed it
\* and however it ended, but for the two losses CaptureIsTheAnswer names
\* (reconstructStreamedResponse, mergeToolUse, handleSSEStreamViaCapture).
THEOREM CapturesAreFaithful == ProxySpec => []CaptureIsTheAnswer
<1>1. ProxyInv => CaptureIsTheAnswer
  BY DEF ProxyInv, CaptureIsTheAnswer, Faithful, KeepsText, KeepsTools
<1> QED
  BY <1>1, ProxyInvHolds, PTL

\* The job of an answer is none only if the answer is.
LEMMA AnswersAreJobs ==
    ASSUME NEW response \in Answer, NEW b \in Buffer \cup {None}
    PROVE  response # None /\ [response |-> response, buffer |-> b] # None
<1>1. None \notin Answer /\ None \notin [response : Answer, buffer : Buffer \cup {None}]
  BY NoneAssumption DEF NoneAssumption, Answer, Tool
<1>2. [response |-> response, buffer |-> b] \in [response : Answer, buffer : Buffer \cup {None}]
  OBVIOUS
<1> QED
  BY <1>1, <1>2

\* An answer that is enqueued becomes the request's job.
LEMMA EnqueuedIsAJob ==
    ASSUME ProxyInv, NEW r \in Request, NEW response \in Answer, Enqueues(r, response)
    PROVE  job'[r] # None
<1>1. buffer[r] \in Buffer \cup {None} /\ DOMAIN job = Request
  BY DEF ProxyInv
<1>2. response # None /\ [response |-> response, buffer |-> buffer[r]] # None
  BY <1>1, AnswersAreJobs
<1> QED
  BY <1>1, <1>2 DEF Enqueues

\* What the capture reader has of a request that parsed is an answer.
LEMMA CapturedIsAnAnswer ==
    ASSUME ProxyInv, NEW r \in Request, parsed[r], path[r] = "capture"
    PROVE  Captured(r) \in Answer
<1>1. sent[r] \in Seq(Chunk)
  BY DEF ProxyInv
<1>2. Captured(r) = Reduced(path[r], sent[r])
  BY DEF Captured
<1> QED
  BY <1>1, <1>2, ReducedIsFaithful

\* A step that leaves a request's job, or is the end of its answer.
LEMMA OneJobEach ==
    ASSUME ProxyInv, ProxyNext, NEW r \in Request, job[r] # None
    PROVE  job'[r] = job[r]
<1>1. phase[r] \in {"replied", "over"}
  BY DEF ProxyInv
<1>2. DOMAIN job = Request
  BY DEF ProxyInv
<1>3. ASSUME NEW q \in Request, phase[q] \notin {"replied", "over"}, NEW response, Enqueues(q, response)
      PROVE  job'[r] = job[r]
  <2>1. q # r
    BY <1>1, <1>3
  <2> QED
    BY <1>2, <1>3, <2>1 DEF Enqueues
<1>4. PICK q \in Request :
          \/ \E parses \in BOOLEAN : Receive(q, parses)
          \/ Serve(q) \/ (\E chunk \in Chunk : Relay(q, chunk)) \/ Upstream(q)
          \/ ClientLeft(q) \/ Recycle(q) \/ Store(q)
  BY DEF ProxyNext
<1>5. CASE \E c \in Chunk, ok \in BOOLEAN : AnswerWhole(q, c, ok)
  BY <1>3, <1>5 DEF AnswerWhole
<1>6. CASE Refuse(q) \/ \E p \in Readers : StartStream(q, p)
  BY <1>6 DEF Refuse, StartStream
<1>7. CASE \E chunk \in Chunk : RelayFails(q, chunk)
  BY <1>3, <1>7 DEF RelayFails
<1>8. CASE \E whole \in BOOLEAN : StreamEnds(q, whole)
  BY <1>3, <1>8 DEF StreamEnds
<1>9. CASE \/ \E parses \in BOOLEAN : Receive(q, parses)
           \/ \E chunk \in Chunk : Relay(q, chunk)
           \/ ClientLeft(q) \/ Recycle(q) \/ Store(q)
  BY <1>9 DEF Receive, Relay, ClientLeft, Recycle, Store
<1> QED
  BY <1>4, <1>5, <1>6, <1>7, <1>8, <1>9 DEF Serve, Upstream, Readers

\* A stream that is through and said something leaves a capture if its request
\* parsed: one that ran to its end whoever reads it, one the upstream broke off
\* unless it was OpenAI's, one whose client left if the reducer reads it; and no
\* request is captured twice (enqueueStreamedResponse, handleSSEStreamViaCapture).
THEOREM TurnsStayCaptured == ProxySpec => TurnsAreCaptured
<1>1. ASSUME ProxyInv, NEW r \in Request, parsed[r], Said(path[r], sent[r]), NEW whole \in BOOLEAN,
             whole \/ path[r] # "legacy", StreamEnds(r, whole)
      PROVE  job'[r] # None
  <2>1. Keeps(r, whole)
    BY <1>1 DEF Keeps
  <2>2. path[r] \in Readers
    BY <1>1 DEF StreamEnds, ProxyInv
  <2>3. CASE path[r] = "capture"
    <3>1. Enqueues(r, Captured(r))
      BY <1>1, <2>1, <2>3 DEF StreamEnds
    <3> QED
      BY <1>1, <2>3, <3>1, CapturedIsAnAnswer, EnqueuedIsAJob
  <2>4. CASE path[r] \in {"legacy", "ndjson"}
    <3>1. Enqueues(r, enqueueStreamedResponse(r, sent[r]))
      BY <1>1, <2>1, <2>4 DEF StreamEnds
    <3>2. sent[r] \in Seq(Chunk) /\ sent[r] # <<>>
      BY <1>1 DEF ProxyInv, Said, Texts
    <3>3. enqueueStreamedResponse(r, sent[r]) = reconstructStreamedResponse(path[r], sent[r])
      BY <1>1, <3>2 DEF enqueueStreamedResponse
    <3>4. enqueueStreamedResponse(r, sent[r]) \in Answer
      BY <1>1, <2>4, <3>2, <3>3, RebuiltIsFaithful
    <3> QED
      BY <1>1, <3>1, <3>4, EnqueuedIsAJob
  <2> QED
    BY <2>2, <2>3, <2>4 DEF Readers
<1>2. ASSUME ProxyInv, NEW r \in Request, parsed[r], path[r] = "capture",
             NEW c \in Chunk, RelayFails(r, c)
      PROVE  job'[r] # None
  <2>1. Enqueues(r, Captured(r))
    BY <1>2 DEF RelayFails
  <2> QED
    BY <1>2, <2>1, CapturedIsAnAnswer, EnqueuedIsAJob
<1>3. ASSUME ProxyInv, ProxyNext, NEW r \in Request
      PROVE  /\ parsed[r] /\ Said(path[r], sent[r]) /\ Through(r) => job'[r] # None
             /\ job[r] # None => job'[r] = job[r]
  <2>1. ASSUME parsed[r], Said(path[r], sent[r]), Through(r) PROVE job'[r] # None
    BY <1>1, <1>2, <1>3, <2>1 DEF Through
  <2>2. job[r] # None => job'[r] = job[r]
    BY <1>3, OneJobEach
  <2> QED
    BY <2>1, <2>2
<1>4. ProxyInv /\ [ProxyNext]_proxyVars =>
          [\A r \in Request :
              /\ parsed[r] /\ Said(path[r], sent[r]) /\ Through(r) => job'[r] # None
              /\ job[r] # None => job'[r] = job[r]]_proxyVars
  BY <1>3
<1> QED
  BY <1>4, ProxyInvHolds, PTL DEF ProxySpec, TurnsAreCaptured

-----------------------------------------------------------------------------
(* The wait of a capture *)

Age == {NoAge} \cup (0..Cap)

\* first_dirtied_at is at least as old as the oldest unread capture: clearing
\* it would otherwise restart the wait.
FirstIsOldest == \A s \in Session : first[s] >= unread[s]

\* What came in under a derive has waited no longer than the page has taken,
\* and marked the session again.
DeriveReadAll ==
    deriving =>
        /\ page # <<>>
        /\ Head(page) \notin Poison
        /\ unread[Head(page)] <= drift
        /\ ~remarked => unread[Head(page)] = NoAge

\* The session is still to come on the page, which may not skip it.
StillListed(s) ==
    /\ \E i \in 1..Len(page) : page[i] = s
    /\ LagBounded(s, drift)
    /\ unread[s] <= MaxDeriveLag + MaxPageTime + PollInterval + drift

\* Between two pages a wait is the lag bound, one page and the time since;
\* under a page it is the lag bound and the page so far, or still listed.
InStep(s) ==
    IF page = <<>> THEN unread[s] <= MaxDeriveLag + MaxPageTime + timer
                   ELSE unread[s] <= MaxDeriveLag + drift \/ StillListed(s)

DebounceTypeOK ==
    /\ dirtied \in [Session -> Age]
    /\ first \in [Session -> Age]
    /\ unread \in [Session -> Age]
    /\ page \in Seq(Session)
    /\ drift \in 0..MaxPageTime
    /\ timer \in 0..PollInterval
    /\ page # <<>> => timer = 0
    /\ deriving \in BOOLEAN
    /\ remarked \in BOOLEAN

Inductive ==
    /\ DebounceTypeOK
    /\ FirstIsOldest
    /\ DeriveReadAll
    /\ \A s \in Session \ Poison : InStep(s)

----------------------------------------------------------------------------
\* The numbers the proof computes with.
LEMMA TimeTypes ==
    /\ Debounce \in Nat /\ MaxDeriveLag \in Nat \ {0} /\ PollInterval \in Nat \ {0}
    /\ MaxPageTime \in Nat /\ Cap \in Nat /\ NoAge = -1
    /\ Cap > MaxDeriveLag + MaxPageTime
    /\ Bound = MaxDeriveLag + PollInterval + 2 * MaxPageTime
BY TimeAssumption DEF Cap, Bound, NoAge

\* An age grows by at most one, keeps its order, and does not outgrow Cap.
LEMMA OlderGrows ==
    ASSUME NEW a \in Age, NEW b \in Age
    PROVE  /\ Older(a) \in Age
           /\ a >= b => Older(a) >= Older(b)
           /\ Older(a) <= a + 1
           /\ \A n \in 0..(Cap - 1) : a >= n => Older(a) >= n + 1
           /\ Older(NoAge) = NoAge
BY TimeTypes DEF Older, Age

\* A page long enough for every session lists all that are due.
LEMMA ListingIsComplete ==
    ASSUME Cardinality(Session) <= ListSize, NEW p \in Listing
    PROVE  /\ p \in Seq(Session)
           /\ \A s \in Session : Due(s, 0) => \E i \in 1..Len(p) : p[i] = s
<1> DEFINE due == {s \in Session : Due(s, 0)}
<1>1. IsFiniteSet(due) /\ Cardinality(due) \in Nat /\ Cardinality(due) <= ListSize
  BY FS_Subset, FS_CardinalityType, SessionAssumption, TimeAssumption
<1> DEFINE n == Cardinality(due)
<1>2. Len(p) = n /\ p \in SetToAllKPermutations(due)
  BY <1>1, TimeAssumption DEF Listing
<1>3. PICK S \in SUBSET due : p \in SetToSeqs(S)
  BY <1>2 DEF SetToAllKPermutations
<1>4. /\ IsFiniteSet(S) /\ Cardinality(S) \in Nat
      /\ p \in [1..Cardinality(S) -> S]
      /\ \A i, j \in 1..Cardinality(S) : i # j => p[i] # p[j]
  BY <1>1, <1>3, FS_Subset, FS_CardinalityType DEF SetToSeqs
<1>5. Len(p) = Cardinality(S)
  BY <1>4
<1>6. S = due
  BY <1>1, <1>2, <1>5, FS_Subset
<1>7. p \in Injection(1..n, due)
  BY <1>4, <1>6 DEF Injection, IsInjective
<1>8. Cardinality(1..n) = n
  BY <1>1, FS_Interval
<1>9. p \in Surjection(1..n, due)
  BY <1>1, <1>7, <1>8, FS_Injection
<1>10. \A s \in due : \E i \in 1..n : p[i] = s
  BY <1>9 DEF Surjection
<1>11. p \in Seq(Session)
  BY <1>4
<1>12. QED
  BY <1>2, <1>10, <1>11

----------------------------------------------------------------------------
\* What is left of a page is a listing too, and keeps every entry but its head.
LEMMA TailKeeps ==
    ASSUME NEW p \in Seq(Session), p # <<>>
    PROVE  /\ Head(p) \in Session /\ Tail(p) \in Seq(Session)
           /\ \A i \in 1..Len(p) : p[i] # Head(p) =>
                 \E j \in 1..Len(Tail(p)) : Tail(p)[j] = p[i]
<1>1. Head(p) \in Session /\ Tail(p) \in Seq(Session) /\ Len(Tail(p)) = Len(p) - 1
  OBVIOUS
<1>2. ASSUME NEW i \in 1..Len(p), p[i] # Head(p)
      PROVE  i - 1 \in 1..Len(Tail(p)) /\ Tail(p)[i - 1] = p[i]
  BY <1>1, <1>2
<1>3. QED
  BY <1>1, <1>2

\* The page goes on after a session: every other one is where it was, and its
\* own wait is in step by itself, or it never mattered.
LEMMA PageGoesOn ==
    ASSUME Inductive, page # <<>>, NextEntry,
           UNCHANGED <<unread, drift, timer>>,
           \A s \in Session : s # Head(page) => first'[s] = first[s],
           Head(page) \notin Poison => unread[Head(page)] <= MaxDeriveLag + drift
    PROVE  \A s \in Session \ Poison : InStep(s)'
<1> USE TimeTypes, TailKeeps DEF Inductive, DebounceTypeOK, NextEntry
<1>1. ASSUME NEW s \in Session \ Poison
      PROVE  \/ unread[s] <= MaxDeriveLag + drift
             \/ StillListed(s) /\ s # Head(page)
  BY <1>1 DEF InStep
<1>2. ASSUME NEW s \in Session \ Poison, unread[s] <= MaxDeriveLag + drift
      PROVE  InStep(s)'
  BY <1>2 DEF InStep, Age
<1>3. ASSUME NEW s \in Session \ Poison, StillListed(s), s # Head(page)
      PROVE  InStep(s)'
  <2>1. \E j \in 1..Len(page') : page'[j] = s
    <3>1. PICK i \in 1..Len(page) : page[i] = s
      BY <1>3 DEF StillListed
    <3>2. page \in Seq(Session) /\ page[i] # Head(page)
      BY <1>3, <3>1
    <3>3. \E j \in 1..Len(Tail(page)) : Tail(page)[j] = page[i]
      BY <3>2
    <3>4. QED
      BY <3>1, <3>3
  <2>2. LagBounded(s, drift)'
    BY <1>3 DEF StillListed, LagBounded
  <2>3. page' # <<>>
    <3>1. Len(<<>>) = 0 /\ 1..0 = {}
      OBVIOUS
    <3>2. QED
      BY <2>1, <3>1
  <2>4. StillListed(s)'
    BY <1>3, <2>1, <2>2 DEF StillListed
  <2>5. QED
    BY <2>3, <2>4 DEF InStep
<1>4. QED
  BY <1>1, <1>2, <1>3

\* Every mark, every tick and every step of the worker keeps the waits in step.
LEMMA InductiveStep ==
    ASSUME Cardinality(Session) <= ListSize, Inductive, [DebounceNext]_debounceVars
    PROVE  Inductive'
<1> USE TimeTypes DEF Inductive, DebounceTypeOK
<1>1. ASSUME NEW s \in Session, Mark(s)
      PROVE  Inductive'
  <2>1. DebounceTypeOK'
    BY <1>1 DEF Mark, Age
  <2>2. FirstIsOldest'
    BY <1>1 DEF Mark, FirstIsOldest, Age
  <2>3. DeriveReadAll'
    <3>1. SUFFICES ASSUME deriving
                   PROVE  DeriveReadAll'
      BY <1>1 DEF Mark, DeriveReadAll
    <3>2. page # <<>> /\ Head(page) \in Session
      BY <3>1, TailKeeps DEF DeriveReadAll
    <3>3. unread'[Head(page)] <= drift
      BY <1>1, <3>1, <3>2 DEF Mark, DeriveReadAll, Age
    <3>4. ~remarked' => unread'[Head(page)] = NoAge
      BY <1>1, <3>1, <3>2 DEF Mark, DeriveReadAll
    <3>5. QED
      BY <1>1, <3>1, <3>2, <3>3, <3>4 DEF Mark, DeriveReadAll
  <2>4. ASSUME NEW z \in Session \ Poison
        PROVE  InStep(z)'
    BY <1>1 DEF Mark, InStep, StillListed, LagBounded, Age
  <2>5. QED
    BY <2>1, <2>2, <2>3, <2>4
<1>2. ASSUME Tick
      PROVE  Inductive'
  <2>1. DebounceTypeOK'
    BY <1>2, OlderGrows DEF Tick
  <2>2. FirstIsOldest'
    BY <1>2, OlderGrows DEF Tick, FirstIsOldest
  <2>3. DeriveReadAll'
    <3>1. SUFFICES ASSUME deriving
                   PROVE  DeriveReadAll'
      BY <1>2 DEF Tick, DeriveReadAll
    <3>2. page # <<>> /\ Head(page) \in Session
      BY <3>1, TailKeeps DEF DeriveReadAll
    <3>3. unread'[Head(page)] = Older(unread[Head(page)]) /\ drift' = drift + 1
      BY <1>2, <3>2 DEF Tick
    <3>4. /\ Head(page) \notin Poison /\ unread[Head(page)] <= drift
          /\ ~remarked => unread[Head(page)] = NoAge
      BY <3>1 DEF DeriveReadAll
    <3>5. unread[Head(page)] \in Age
      BY <3>2
    <3>6. /\ Older(unread[Head(page)]) \in Age
          /\ Older(unread[Head(page)]) <= unread[Head(page)] + 1
          /\ Older(NoAge) = NoAge
      BY <3>5, OlderGrows
    <3>7. unread'[Head(page)] <= drift'
      <4>1. \A u, o, d \in Int : u <= d /\ o <= u + 1 => o <= d + 1
        OBVIOUS
      <4>2. unread[Head(page)] \in Int /\ Older(unread[Head(page)]) \in Int /\ drift \in Int
        BY <3>5, <3>6 DEF Age
      <4>3. QED
        BY <3>3, <3>4, <3>6, <4>1, <4>2
    <3>8. page' = page /\ remarked' = remarked
      BY <1>2 DEF Tick
    <3>9. QED
      BY <3>2, <3>3, <3>4, <3>6, <3>7, <3>8 DEF DeriveReadAll
  <2>4. ASSUME NEW z \in Session \ Poison
        PROVE  InStep(z)'
    <3>1. /\ unread[z] \in Int /\ unread'[z] \in Int /\ unread'[z] <= unread[z] + 1
          /\ first[z] \in Int /\ first'[z] \in Int
          /\ \A n \in 0..(Cap - 1) : first[z] >= n => first'[z] >= n + 1
      <4>1. unread'[z] = Older(unread[z]) /\ first'[z] = Older(first[z])
        BY <1>2 DEF Tick
      <4>2. unread[z] \in Age /\ first[z] \in Age
        BY DEF Inductive, DebounceTypeOK
      <4>3. Older(unread[z]) \in Age /\ Older(first[z]) \in Age
        BY <4>2, OlderGrows
      <4>4. Older(unread[z]) <= unread[z] + 1 /\ \A n \in 0..(Cap - 1) : first[z] >= n => Older(first[z]) >= n + 1
        BY <4>2, OlderGrows
      <4>5. \A a \in Age : a \in Int
        BY TimeTypes DEF Age
      <4>6. QED
        BY <4>1, <4>2, <4>3, <4>4, <4>5
    <3>2. CASE page = <<>>
      BY <1>2, <3>1, <3>2 DEF Tick, InStep
    <3>3. CASE page # <<>> /\ unread[z] <= MaxDeriveLag + drift
      BY <1>2, <3>1, <3>3 DEF Tick, InStep
    <3>4. CASE page # <<>> /\ StillListed(z)
      <4>1. LagBounded(z, drift)'
        BY <1>2, <3>1, <3>4 DEF Tick, StillListed, LagBounded
      <4>2. StillListed(z)'
        BY <1>2, <3>1, <3>4, <4>1 DEF Tick, StillListed
      <4>3. QED
        BY <1>2, <3>4, <4>2 DEF Tick, InStep
    <3>5. QED
      BY <3>2, <3>3, <3>4 DEF InStep
  <2>5. QED
    BY <2>1, <2>2, <2>3, <2>4
<1>3. ASSUME PollDue
      PROVE  Inductive'
  <2>1. /\ page' \in Seq(Session)
        /\ \A s \in Session : Due(s, 0) => \E i \in 1..Len(page') : page'[i] = s
    BY <1>3, ListingIsComplete DEF PollDue
  <2>2. DebounceTypeOK'
    BY <1>3, <2>1 DEF PollDue
  <2>3. FirstIsOldest' /\ DeriveReadAll'
    BY <1>3 DEF PollDue, FirstIsOldest, DeriveReadAll
  <2>4. ASSUME NEW z \in Session \ Poison
        PROVE  InStep(z)'
    <3>1. unread[z] <= MaxDeriveLag + MaxPageTime + PollInterval
      BY <1>3 DEF PollDue, InStep, Age
    <3>2. CASE LagBounded(z, 0)
      <4>1. \E i \in 1..Len(page') : page'[i] = z
        BY <2>1, <3>2 DEF Due
      <4>2. StillListed(z)' /\ page' # <<>>
        BY <1>3, <3>1, <3>2, <4>1 DEF PollDue, StillListed, LagBounded
      <4>3. QED
        BY <4>2 DEF InStep
    <3>3. CASE ~LagBounded(z, 0)
      <4>1. unread[z] < MaxDeriveLag
        BY <3>3 DEF LagBounded, FirstIsOldest, Age
      <4>2. QED
        BY <1>3, <4>1 DEF PollDue, InStep, Age
    <3>4. QED
      BY <3>2, <3>3
  <2>5. QED
    BY <2>2, <2>3, <2>4
<1>4. ASSUME Skip
      PROVE  Inductive'
  <2>1. DebounceTypeOK'
    BY <1>4, TailKeeps DEF Skip, NextEntry
  <2>2. FirstIsOldest' /\ DeriveReadAll'
    BY <1>4 DEF Skip, FirstIsOldest, DeriveReadAll
  <2>3. Head(page) \notin Poison => unread[Head(page)] <= MaxDeriveLag + drift
    BY <1>4, TailKeeps DEF Skip, Due, InStep, StillListed
  <2>4. \A z \in Session \ Poison : InStep(z)'
    BY <1>4, <2>3, PageGoesOn DEF Skip
  <2>5. QED
    BY <2>1, <2>2, <2>4
<1>5. ASSUME Derive
      PROVE  Inductive'
  <2>1. Head(page) \in Session
    BY <1>5, TailKeeps DEF Derive
  <2>2. DebounceTypeOK'
    BY <1>5 DEF Derive, Age
  <2>3. FirstIsOldest' /\ DeriveReadAll'
    BY <1>5, <2>1 DEF Derive, FirstIsOldest, DeriveReadAll, Age
  <2>4. ASSUME NEW z \in Session \ Poison
        PROVE  InStep(z)'
    BY <1>5, <2>1 DEF Derive, InStep, StillListed, LagBounded, Age
  <2>5. QED
    BY <2>2, <2>3, <2>4
<1>6. ASSUME DeriveFails
      PROVE  Inductive'
  <2>1. DebounceTypeOK'
    BY <1>6, TailKeeps DEF DeriveFails, NextEntry
  <2>2. FirstIsOldest' /\ DeriveReadAll'
    BY <1>6 DEF DeriveFails, FirstIsOldest, DeriveReadAll
  <2>3. \A z \in Session \ Poison : InStep(z)'
    BY <1>6, PageGoesOn DEF DeriveFails
  <2>4. QED
    BY <2>1, <2>2, <2>3
<1>7. ASSUME Clear
      PROVE  Inductive'
  <2>1. /\ page # <<>> /\ Head(page) \in Session /\ Head(page) \notin Poison
        /\ unread[Head(page)] <= drift
    BY <1>7, TailKeeps DEF Clear, DeriveReadAll
  <2>2. DebounceTypeOK'
    BY <1>7, <2>1, TailKeeps DEF Clear, NextEntry, Age
  <2>3. FirstIsOldest'
    BY <1>7, <2>1 DEF Clear, FirstIsOldest, DeriveReadAll, Age
  <2>4. DeriveReadAll'
    BY <1>7 DEF Clear, DeriveReadAll
  <2>5. \A z \in Session : z # Head(page) => first'[z] = first[z]
    BY <1>7, <2>1 DEF Clear
  <2>6. \A z \in Session \ Poison : InStep(z)'
    BY <1>7, <2>1, <2>5, PageGoesOn DEF Clear, Age
  <2>7. QED
    BY <2>2, <2>3, <2>4, <2>6
<1>8. CASE UNCHANGED debounceVars
  BY <1>8 DEF debounceVars, FirstIsOldest, DeriveReadAll, InStep, StillListed, LagBounded
<1>9. QED
  BY <1>1, <1>2, <1>3, <1>4, <1>5, <1>6, <1>7, <1>8 DEF DebounceNext

\* No capture of a session that can be derived waits longer than the lag bound,
\* a poll interval and two pages, however the sessions stream and whichever
\* derives fail: the bound Config.MaxDeriveLag promises the live views.
THEOREM LagIsBounded ==
    ASSUME Cardinality(Session) <= ListSize
    PROVE  DebounceSpec => []BoundedLag
<1>1. DebounceInit => Inductive
  <2>1. SUFFICES ASSUME DebounceInit
                 PROVE  Inductive
    OBVIOUS
  <2>2. \A s \in Session : dirtied[s] = NoAge /\ first[s] = NoAge /\ unread[s] = NoAge
    BY <2>1 DEF DebounceInit
  <2>3. DebounceTypeOK
    <3>1. /\ dirtied \in [Session -> Age]
          /\ first \in [Session -> Age]
          /\ unread \in [Session -> Age]
      BY <2>1 DEF DebounceInit, Age
    <3>2. page \in Seq(Session) /\ drift \in 0..MaxPageTime /\ timer \in 0..PollInterval
      BY <2>1, TimeTypes DEF DebounceInit
    <3>3. QED
      BY <2>1, <3>1, <3>2 DEF DebounceInit, DebounceTypeOK
  <2>4. FirstIsOldest /\ \A s \in Session \ Poison : InStep(s)
    BY <2>1, <2>2, TimeTypes DEF DebounceInit, FirstIsOldest, InStep
  <2>5. QED
    BY <2>1, <2>3, <2>4 DEF DebounceInit, Inductive, DeriveReadAll
<1>2. Inductive /\ [DebounceNext]_debounceVars => Inductive'
  BY InductiveStep
<1>3. Inductive => BoundedLag
  <2>1. SUFFICES ASSUME Inductive, NEW s \in Session \ Poison
                 PROVE  unread[s] <= Bound
    BY DEF BoundedLag
  <2>2. QED
    BY <2>1, TimeTypes DEF Inductive, DebounceTypeOK, InStep, StillListed, Age
<1>4. QED
  BY <1>1, <1>2, <1>3, PTL DEF DebounceSpec

-----------------------------------------------------------------------------
(* The change feed *)

\* CursorBehindOpen made inductive: ids and derive_seq values have been handed
\* out, so the next transaction starts above the cursor.
Behind ==
    /\ FeedTypeOK
    /\ \A r \in Row : seq[r] < next
    /\ \A x \in running : x < next
    /\ cursor < next
    /\ CursorBehindOpen

\* A transaction starts, and ends, with no writes.
LEMMA NoWrites == [r \in {} |-> Gone] \in Writes
<1>1. [r \in {} |-> Gone] \in [{} -> Content \cup {Gone}]
    OBVIOUS
<1>2. {} \in SUBSET Row
    OBVIOUS
<1> QED
    BY <1>1, <1>2 DEF Writes

\* A row written by a transaction is a row, with a content.
LEMMA WrittenRows ==
    ASSUME FeedTypeOK, NEW x \in Xid
    PROVE  /\ DOMAIN writes[x] \in SUBSET Row
           /\ \A r \in DOMAIN writes[x] : writes[x][r] \in Content \cup {Gone}
<1>1. PICK rs \in SUBSET Row : writes[x] \in [rs -> Content \cup {Gone}]
    BY DEF FeedTypeOK, Writes
<1> QED
    BY <1>1

\* Every step of the passes and of the consumer keeps Behind.
LEMMA BehindStep ==
    ASSUME Behind, [FeedNext]_feedVars
    PROVE  Behind'
<1> USE PageAssumption DEF Behind
<1>1. CASE Begin
    <2>1. next \in Xid /\ next' = next + 1 /\ running' = running \cup {next} /\ next \in Int
        BY <1>1 DEF Begin, FeedTypeOK, Xid
    <2>2. UNCHANGED <<content, seq, writes, cursor, copy>>
        BY <1>1 DEF Begin, tableVars, consumerVars
    <2>3. FeedTypeOK'
        BY <1>1, <2>1, <2>2 DEF Begin, FeedTypeOK, Xid
    <2>4. (\A r \in Row : seq'[r] < next') /\ (\A x \in running' : x < next') /\ cursor' < next'
        BY <2>1, <2>2 DEF FeedTypeOK, Xid
    <2>5. CursorBehindOpen'
        BY <2>1, <2>2 DEF CursorBehindOpen
    <2> QED
        BY <2>3, <2>4, <2>5
<1>2. ASSUME NEW x \in Xid, NEW r \in Row, NEW c \in Content \cup {Gone}, Write(x, r, c)
      PROVE  Behind'
    <2> DEFINE rs == DOMAIN writes[x] \cup {r}
               w == [q \in rs |-> IF q = r THEN c ELSE writes[x][q]]
    <2>1. rs \in SUBSET Row /\ w \in [rs -> Content \cup {Gone}]
        BY WrittenRows
    <2>2. w \in Writes
        BY <2>1 DEF Writes
    <2>3. writes' = [writes EXCEPT ![x] = w]
        BY <1>2 DEF Write
    <2>4. writes' \in [Xid -> Writes]
        BY <2>2, <2>3 DEF FeedTypeOK
    <2> QED
        BY <1>2, <2>4 DEF Write, FeedTypeOK, CursorBehindOpen, tableVars, consumerVars
<1>3. ASSUME NEW x \in Xid, Commit(x)
      PROVE  Behind'
    <2>1. writes' \in [Xid -> Writes]
        BY <1>3, NoWrites DEF Commit, FeedTypeOK
    <2>2. content' \in [Row -> Content \cup {Gone}]
        BY <1>3, WrittenRows DEF Commit, FeedTypeOK
    <2>3. seq' \in [Row -> 0..MaxXid]
        BY <1>3 DEF Commit, Stamped, FeedTypeOK, Xid
    <2>4. FeedTypeOK'
        BY <1>3, <2>1, <2>2, <2>3 DEF Commit, FeedTypeOK, consumerVars
    <2>5. \A r \in Row : seq'[r] < next'
        BY <1>3 DEF Commit, Stamped, FeedTypeOK
    <2> QED
        BY <1>3, <2>4, <2>5 DEF Commit, CursorBehindOpen, consumerVars
<1>4. ASSUME NEW x \in Xid, Rollback(x)
      PROVE  Behind'
    <2>1. writes' \in [Xid -> Writes]
        BY <1>4, NoWrites DEF Rollback, FeedTypeOK
    <2> QED
        BY <1>4, <2>1 DEF Rollback, FeedTypeOK, CursorBehindOpen, tableVars, consumerVars
<1>5. CASE Poll
    <2>1. PICK last \in Changed : cursor' = seq[last]
        BY <1>5 DEF Poll, Page
    <2>2. last \in Row /\ seq[last] \in 0..MaxXid /\ BelowXmin(seq[last])
        BY <2>1 DEF Changed, FeedTypeOK
    <2>3. FeedTypeOK'
        BY <1>5, <2>1, <2>2 DEF Poll, FeedTypeOK, tableVars
    <2> QED
        BY <1>5, <2>1, <2>2, <2>3 DEF Poll, BelowXmin, CursorBehindOpen, tableVars
<1>6. CASE UNCHANGED feedVars
    BY <1>6 DEF feedVars, tableVars, consumerVars, FeedTypeOK, CursorBehindOpen
<1> QED
    BY <1>1, <1>2, <1>3, <1>4, <1>5, <1>6 DEF FeedNext

\* Behind is an invariant.
LEMMA BehindHolds == FeedSpec => []Behind
<1>1. FeedInit => Behind
    <2> SUFFICES ASSUME FeedInit PROVE Behind
        OBVIOUS
    <2>1. writes \in [Xid -> Writes]
        BY NoWrites DEF FeedInit
    <2> QED
        BY <2>1, PageAssumption DEF FeedInit, Behind, FeedTypeOK, Xid, CursorBehindOpen
<1>2. Behind /\ [FeedNext]_feedVars => Behind'
    BY BehindStep
<1> QED
    BY <1>1, <1>2, PTL DEF FeedSpec

\* The bound on pg_snapshot_xmin keeps the cursor below every pass that may
\* still commit, whatever the page size (NextDeriveSeq: "a reader bounded by it
\* can never be overtaken").
THEOREM FeedNotOvertaken == FeedSpec => []CursorBehindOpen
<1>1. Behind => CursorBehindOpen
    BY DEF Behind
<1> QED
    BY <1>1, BehindHolds, PTL

----------------------------------------------------------------------------
\* A page that can hold every row holds every changed row.
LEMMA PageHoldsAll ==
    ASSUME PageSize >= Cardinality(Row), FeedTypeOK
    PROVE  Page = Changed
<1> SUFFICES ASSUME NEW r \in Changed
             PROVE  Cardinality({q \in Changed : Before(q, r)}) < PageSize
    BY DEF Page
<1> DEFINE S == {q \in Changed : Before(q, r)}
<1>1. S \subseteq Row /\ r \in Row
    BY DEF Changed
<1>2. seq[r] \in Int /\ r \in Int
    BY <1>1, RowAssumption DEF FeedTypeOK
<1>3. r \notin S
    BY <1>2 DEF Before
<1>4. IsFiniteSet(Row)
    BY RowAssumption
<1> HIDE DEF S
<1>5. S # Row
    BY <1>1, <1>3
<1>6. /\ Cardinality(S) <= Cardinality(Row)
      /\ Cardinality(S) = Cardinality(Row) => S = Row
      /\ IsFiniteSet(S)
    BY <1>1, <1>4, FS_Subset
<1>7. Cardinality(S) \in Nat /\ Cardinality(Row) \in Nat
    BY <1>4, <1>6, FS_CardinalityType
<1>8. Cardinality(S) < PageSize
    BY <1>5, <1>6, <1>7, PageAssumption
<1> QED
    BY <1>8 DEF S

\* A commit stamps what it changes above the cursor; a poll copies every row up
\* to the new cursor.
LEMMA SeenStep ==
    ASSUME PageSize >= Cardinality(Row), Behind, SeenIsComplete, [FeedNext]_feedVars
    PROVE  SeenIsComplete'
<1> USE DEF Behind
<1>1. ASSUME NEW x \in Xid, Commit(x)
      PROVE  SeenIsComplete'
    <2>1. cursor < x /\ x \in Int
        BY <1>1 DEF Commit, CursorBehindOpen, Xid
    <2>2. cursor' = cursor /\ copy' = copy /\ cursor \in Int
        BY <1>1 DEF Commit, consumerVars, FeedTypeOK
    <2> SUFFICES ASSUME NEW r \in Row, content'[r] # Gone, seq'[r] <= cursor
                 PROVE  copy[r] = content'[r]
        BY <2>2 DEF SeenIsComplete
    <2>3. content'[r] = content[r] /\ seq'[r] = seq[r]
        BY <1>1, <2>1, <2>2 DEF Commit, Stamped, FeedTypeOK
    <2> QED
        BY <2>2, <2>3 DEF SeenIsComplete
<1>2. CASE Poll
    <2>1. Page = Changed
        BY PageHoldsAll
    <2>2. PICK last \in Changed : cursor' = seq[last] /\ \A r \in Changed : seq[r] <= seq[last]
        BY <1>2, <2>1 DEF Poll
    <2>3. last \in Row /\ seq[last] \in 0..MaxXid /\ BelowXmin(seq[last])
        BY <2>2 DEF Changed, FeedTypeOK
    <2> SUFFICES ASSUME NEW r \in Row, content[r] # Gone, seq[r] <= seq[last]
                 PROVE  copy'[r] = content[r]
        BY <1>2, <2>2 DEF Poll, SeenIsComplete, tableVars
    <2>4. CASE seq[r] <= cursor
        BY <1>2, <2>1, <2>4 DEF Poll, SeenIsComplete
    <2>5. CASE cursor < seq[r]
        <3>1. BelowXmin(seq[r])
            BY <2>3 DEF BelowXmin, FeedTypeOK, Xid
        <3>2. r \in Changed
            BY <2>5, <3>1 DEF Changed
        <3> QED
            BY <1>2, <2>1, <3>2 DEF Poll
    <2> QED
        BY <2>4, <2>5 DEF FeedTypeOK
<1>3. CASE UNCHANGED <<tableVars, consumerVars>>
    BY <1>3 DEF tableVars, consumerVars, SeenIsComplete
<1> QED
    BY <1>1, <1>2, <1>3 DEF FeedNext, feedVars, Begin, Write, Rollback

\* A consumer that checkpoints the largest derive_seq of each page has, for
\* every row behind its cursor, the row's latest content (ListChangedSpanTurns:
\* "latency, not loss"), provided page_size is at least the number of rows.
THEOREM FeedComplete ==
    ASSUME PageSize >= Cardinality(Row)
    PROVE  FeedSpec => []SeenIsComplete
<1>1. FeedInit => SeenIsComplete
    BY DEF FeedInit, SeenIsComplete
<1>2. Behind /\ SeenIsComplete /\ [FeedNext]_feedVars => SeenIsComplete'
    BY SeenStep
<1> QED
    BY <1>1, <1>2, BehindHolds, PTL DEF FeedSpec
=============================================================================
