------------------------------ MODULE MCMachines ------------------------------
(* The machines that share no state, one at a time: a behaviour is one of    *)
(* the machine its first state names, and the others stay as they start.     *)
EXTENDS DeriveDebounce, CapturePool, ChangeFeed, CassetteStream, StreamingProxy, Cassettes

CONSTANTS
    Machines,   \* the machines a run looks at
    light, heavy, bulky, free

VARIABLE machine

vars == <<machine, debounceVars, poolVars, feedVars, streamVars, proxyVars, fleetVars>>

\* Two weights that fit the budget together, one that fits alone, one unweighted.
JobWeight == [j \in Job |-> CASE j = light -> 1 [] j = heavy -> 2 [] j = bulky -> 3 [] OTHER -> 0]

\* Text, a tool call, both, a call without an id, and a chunk the provider's
\* parser refuses.
Chunks == {[text |-> TRUE, tool |-> NoTool, parses |-> TRUE],
           [text |-> FALSE, tool |-> "t", parses |-> TRUE],
           [text |-> TRUE, tool |-> "t", parses |-> TRUE],
           [text |-> FALSE, tool |-> Anonymous, parses |-> TRUE],
           [text |-> FALSE, tool |-> NoTool, parses |-> FALSE]}

\* Two versions of one cassette, another, and a document that is refused.
MCNameOf == [x1 |-> "x", x2 |-> "x", y1 |-> "y", bad |-> Absent]

Init ==
    /\ machine \in Machines
    /\ DebounceInit /\ PoolInit /\ FeedInit /\ StreamInit /\ ProxyInit /\ FleetInit
    /\ machine # "fleet" => sources = <<>> /\ served = [s \in Source |-> Down]


Debounces == machine = "debounce" /\ UNCHANGED <<machine, poolVars, feedVars, streamVars, proxyVars, fleetVars>>
Pools == machine = "pool" /\ UNCHANGED <<machine, debounceVars, feedVars, streamVars, proxyVars, fleetVars>>
Feeds == machine = "feed" /\ UNCHANGED <<machine, debounceVars, poolVars, streamVars, proxyVars, fleetVars>>
Streams == machine = "stream" /\ UNCHANGED <<machine, debounceVars, poolVars, feedVars, proxyVars, fleetVars>>
Proxies == machine = "proxy" /\ UNCHANGED <<machine, debounceVars, poolVars, feedVars, streamVars, fleetVars>>
Fleets == machine = "fleet" /\ UNCHANGED <<machine, debounceVars, poolVars, feedVars, streamVars, proxyVars>>

Next == \/ Debounces /\ DebounceNext
        \/ Pools /\ PoolNext
        \/ Feeds /\ FeedNext
        \/ Streams /\ StreamNext
        \/ Proxies /\ ProxyNext
        \/ Fleets /\ FleetNext

\* What is scheduled: every step but those of the captured agents, the callers,
\* the transactions that begin and write, and the clients.  Each machine's own
\* specification asks for as much or more.
Scheduled ==
    \/ Debounces /\ (Tick \/ PollDue \/ Skip \/ Derive \/ DeriveFails \/ Clear)
    \/ Pools /\ \E w \in Worker : WorkerStep(w)
    \/ Feeds /\ (Poll \/ \E x \in Xid : Commit(x) \/ Rollback(x))
    \/ Streams /\ (Serving \/ Answers)
    \/ Proxies /\ \E r \in Request : Serve(r) \/ Upstream(r) \/ Recycle(r) \/ Store(r)
    \/ Fleets /\ (Refresh \/ RefreshStep \/ Withdraw)

Spec == Init /\ [][Next]_vars /\ WF_vars(Scheduled)
=============================================================================
