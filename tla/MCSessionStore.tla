---------------------------- MODULE MCSessionStore ----------------------------
(***************************************************************************)
(* Two sessions, one of which projects to traces 1 and 2, the other to     *)
(* trace 3, each with several projections to move between.                 *)
(***************************************************************************)
EXTENDS SessionReads
CONSTANTS a, b
Projection(t, s, l, title) == [turns |-> t, spans |-> s, links |-> l, title |-> title]
Nothing == Projection([x \in {} |-> 0], [x \in {} |-> ""], [x \in {} |-> ""], NoName)
DerivationsTable == [k \in Key |->
    IF k = a
    THEN {Nothing,
          Projection((1 :> [at |-> 0, cost |-> 1]), (<<1, 1>> :> "m1" @@ <<1, 2>> :> "m2"),
                     (<< <<1, 1>>, <<1, 2>> >> :> "feeds"), NoName),
          Projection((1 :> [at |-> 0, cost |-> 2] @@ 2 :> [at |-> 1, cost |-> 1]),
                     (<<1, 1>> :> "m2" @@ <<2, 1>> :> "m2"),
                     (<< <<1, 1>>, <<2, 1>> >> :> "seam"), "title")}
    ELSE {Projection((3 :> [at |-> 1, cost |-> 1]), (<<3, 1>> :> "m1"), [x \in {} |-> ""], NoName)}]
MCDerivations == DerivationsTable
Carries(kind, key, subject, name, title, parent) ==
    [kind |-> kind, key |-> key, subject |-> subject, name |-> name, title |-> title, parent |-> parent]
EnvelopeTable ==
    {Carries("wire", a, "u", "n", NoName, NoKey),
     Carries("wire", a, NoSubject, NoName, "t", NoKey),
     Carries("wire", b, NoSubject, NoName, NoName, a),
     Carries("transcript", a, NoSubject, "n", NoName, NoKey),
     Carries("transcript", b, "u", NoName, NoName, a)}
MCEnvelope == EnvelopeTable
MCModels == <<"m1", "m2">>
=============================================================================
