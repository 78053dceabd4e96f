----------------------------- MODULE Projection -----------------------------
(***************************************************************************)
(* What the derive pipeline promises the readers of the span projection:   *)
(* every trace row stands for a raw turn, under the session the raw layer  *)
(* attributes it to and an identity row exists for; a derive of a session  *)
(* adds trace rows of that session only, and never takes one away that the *)
(* raw layer still backs.                                                  *)
(***************************************************************************)
CONSTANTS Session, Turn, NoRow, Keyless

VARIABLES landed,    \* raw_turns: the session key of each turn's row
          known,     \* sessions: the identity rows
          projected  \* span_turns: session_id of each turn's trace row

vars == <<landed, known, projected>>

Init ==
    /\ landed = [t \in Turn |-> NoRow]
    /\ known = {}
    /\ projected = [t \in Turn |-> NoRow]

\* A turn lands in the raw layer, a transcript together with its session.
Land(t, s) ==
    /\ landed[t] = NoRow
    /\ landed' = [landed EXCEPT ![t] = s]
    /\ known' \in {known, known \cup ({s} \ {Keyless})}
    /\ UNCHANGED projected

\* An identity row lands.
Identify(s) ==
    /\ known' = known \cup {s}
    /\ UNCHANGED <<landed, projected>>

\* A derive pass of s projects some of its raw turns, and unprojects none.
Derive(s) ==
    /\ s \in known
    /\ \E new \in SUBSET {t \in Turn : landed[t] = s} :
          projected' = [t \in Turn |-> IF t \in new THEN s ELSE projected[t]]
    /\ UNCHANGED <<landed, known>>

Next ==
    \/ \E t \in Turn, s \in Session \cup {Keyless} : Land(t, s)
    \/ \E s \in Session : Identify(s) \/ Derive(s)

Spec == Init /\ [][Next]_vars

=============================================================================
