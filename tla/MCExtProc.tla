----------------------------- MODULE MCExtProc -----------------------------
(* Bounded instance of ExtProc.                                              *)
EXTENDS ExtProc, TLC

CONSTANTS s1, s2

\* Sizes are bytes of a small world: the body limit is 20, the raw cap 3.
Plain == [path |-> "turn", reducer |-> TRUE, stream |-> TRUE, req |-> <<3>>,
          decoded |-> "ok", json |-> TRUE, parses |-> TRUE, resp |-> <<3>>,
          respDecodes |-> TRUE, status |-> 200, early |-> FALSE, envelope |-> TRUE,
          reduces |-> "ok", red |-> 2, rest |-> 1]

\* Too large in any form: the server answers 413.
TooLarge == [Plain EXCEPT !.rest = 21]

\* Turns that reach the dispatcher with more than they can ship.
Dispatched == {[Plain EXCEPT !.resp = <<3, 3>>],         \* over the raw cap
               [Plain EXCEPT !.resp = <<3, 12>>],        \* does not fit beside the request
               [Plain EXCEPT !.resp = <<9>>, !.rest = 6], \* fits, but for its blocks
               TooLarge,
               [Plain EXCEPT !.reduces = "empty", !.early = TRUE]}

\* Calls that never reach it, one for each guard of the processor.
Refused == {[Plain EXCEPT !.req = <<10, 10>>],
            [Plain EXCEPT !.decoded = "big", !.stream = FALSE],
            [Plain EXCEPT !.path = "other", !.reducer = FALSE, !.req = <<>>,
                          !.early = TRUE],
            [Plain EXCEPT !.reducer = FALSE],
            [Plain EXCEPT !.decoded = "broken"],
            [Plain EXCEPT !.respDecodes = FALSE],
            [Plain EXCEPT !.reduces = "error"],
            [Plain EXCEPT !.json = FALSE],
            [Plain EXCEPT !.status = 503],
            [Plain EXCEPT !.status = 0],
            [Plain EXCEPT !.envelope = FALSE],
            [Plain EXCEPT !.resp = <<>>]}

Calls == {s1, s2}

\* One call carries anything, beside one that competes with it for the limits.
TurnsTable == (s1 :> (Dispatched \cup Refused)) @@ (s2 :> {TooLarge})
MCTurns == TurnsTable
=============================================================================
