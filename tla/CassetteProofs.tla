---------------------------- MODULE CassetteProofs ----------------------------
(***************************************************************************)
(* Proofs about the fleet of cassettes and about the request to one, for   *)
(* any sources, names, documents and configurations: the four tables of    *)
(* the fleet agree between any two steps, a cassette vanishes only with    *)
(* the configuration of its source, and a client is told the answer.       *)
(***************************************************************************)
EXTENDS Cassettes, CassetteStream, SequenceTheorems, TLAPS

Instance == [source : Source, doc : Document]
Entry == [doc : Document, source : Source, status : {"fresh", "stale"}]
State == [url : Source, name : Name \cup {Absent}, etag : Document \cup {Absent},
          resolved : BOOLEAN, problem : BOOLEAN]
Withdrawing == {"hide", "evict"}
Admitted == {"publish", "put", "resolve"}

Pass == [step : {"idle", "fetch"} \cup Withdrawing \cup Admitted, at : Nat,
         doc : Document \cup {Absent}, previous : Seq(State)]

FleetTypeOK ==
    /\ sources \in Seq(State)
    /\ instances \in [Name -> Instance \cup {Absent}]
    /\ entries \in [Name -> Entry \cup {Absent}]
    /\ rejections \subseteq Source
    /\ served \in [Source -> Document \cup {Down}]
    /\ pass \in Pass

\* A URL is configured once, and a source has a name once it resolved.
SourcesAreApart ==
    /\ \A i, j \in DOMAIN sources : sources[i].url = sources[j].url => i = j
    /\ \A i \in DOMAIN sources : sources[i].resolved <=> sources[i].name # Absent

\* The pass stands at a source of the table it walks, with an admitted document
\* of a name that source may have.
PassIsPlaced ==
    /\ pass.step \in {"fetch"} \cup Admitted => pass.at \in DOMAIN sources
    /\ pass.step \in Withdrawing => pass.at \in DOMAIN pass.previous
    /\ pass.step = "evict" =>
           /\ Visited.url \notin URLs
           /\ Visited.name # Absent => ~HasSource(instances, Visited)
    /\ pass.step \in Admitted =>
           /\ pass.doc \in Document /\ NameOf[pass.doc] \in Name
           /\ sources[pass.at].resolved => sources[pass.at].name = NameOf[pass.doc]
    /\ pass.step \in {"put", "resolve"} =>
           entries[NameOf[pass.doc]] = Publication("fresh")

\* The registry has a name exactly where the cache has it, of one source and
\* document, except within a publication and a withdrawal.
Paired(n) ==
    \/ instances[n] = Absent /\ entries[n] = Absent
    \/ /\ instances[n] # Absent /\ entries[n] # Absent
       /\ instances[n].source = entries[n].source
       /\ instances[n].doc = entries[n].doc
    \/ pass.step = "put" /\ n = NameOf[pass.doc]
    \/ /\ pass.step = "evict" /\ n = Visited.name
       /\ instances[n] = Absent /\ HasSource(entries, Visited)

\* The document of a name is of the source that has the name, of one that is
\* being withdrawn and not reached yet, or of the one being published.
Owned(n) ==
    entries[n] # Absent =>
        \/ \E i \in DOMAIN sources :
               sources[i].url = entries[n].source /\ sources[i].name = n
        \/ /\ pass.step \in Withdrawing
           /\ \E j \in DOMAIN pass.previous :
                  /\ j >= pass.at /\ pass.previous[j].name = n
                  /\ pass.previous[j].url = entries[n].source
                  /\ pass.previous[j].url \notin URLs
        \/ /\ pass.step \in {"put", "resolve"} /\ n = NameOf[pass.doc]
           /\ entries[n].source = sources[pass.at].url

StatusFits(n) ==
    \A i \in DOMAIN sources :
        entries[n] # Absent /\ entries[n].source = sources[i].url =>
            \/ (entries[n].status = "stale") <=> sources[i].problem
            \/ pass.step \in {"put", "resolve"} /\ i = pass.at

\* The problems reported are the sources' own, and those of sources whose
\* withdrawal has not come to them.
ProblemsFit ==
    /\ \A i \in DOMAIN sources : sources[i].problem <=> sources[i].url \in rejections
    /\ \A u \in rejections :
           \/ u \in URLs
           \/ /\ pass.step \in Withdrawing
              /\ \E j \in DOMAIN pass.previous :
                     /\ pass.previous[j].url = u
                     /\ j > pass.at \/ (j = pass.at /\ pass.step = "hide")

FleetInv ==
    /\ FleetTypeOK
    /\ SourcesAreApart
    /\ PassIsPlaced
    /\ \A n \in Name : Paired(n) /\ Owned(n) /\ StatusFits(n)
    /\ ProblemsFit

-----------------------------------------------------------------------------
(* Where the pass goes next.                                                *)

LEMMA IdleType == Idle \in Pass /\ Idle.step = "idle"
<1>1. <<>> \in Seq(State)
  OBVIOUS
<1> QED
  BY <1>1 DEF Idle, Pass

LEMMA VisitGoes ==
    ASSUME NEW previous \in Seq(State), NEW i \in Nat \ {0}
    PROVE  LET next == Visit(previous, i)
           IN  /\ next \in Pass
               /\ \/ next.step = "idle" /\ i > Len(previous)
                  \/ /\ next.step = "hide" /\ next.at = i /\ i \in DOMAIN previous
                     /\ next.previous = previous
<1>1. Len(previous) \in Nat /\ DOMAIN previous = 1..Len(previous)
  OBVIOUS
<1>2. CASE i > Len(previous)
  BY <1>2, IdleType DEF Visit
<1>3. CASE ~(i > Len(previous))
  <2>1. Visit(previous, i) = [step |-> "hide", at |-> i, doc |-> Absent, previous |-> previous]
    BY <1>3 DEF Visit, Idle
  <2> QED
    BY <1>1, <1>3, <2>1 DEF Pass, Withdrawing
<1> QED
  BY <1>2, <1>3

LEMMA AdvanceGoes ==
    ASSUME sources \in Seq(State), pass.at \in Nat
    PROVE  /\ Advance \in Pass
           /\ \/ Advance.step = "idle"
              \/ Advance.step = "fetch" /\ Advance.at \in DOMAIN sources
<1>1. Len(sources) \in Nat /\ DOMAIN sources = 1..Len(sources)
  OBVIOUS
<1>2. CASE pass.at < Len(sources)
  <2>1. Advance = [step |-> "fetch", at |-> pass.at + 1, doc |-> Absent, previous |-> <<>>]
    BY <1>2 DEF Advance, Idle
  <2>2. <<>> \in Seq(State)
    OBVIOUS
  <2> QED
    BY <1>1, <1>2, <2>1, <2>2 DEF Pass
<1>3. CASE ~(pass.at < Len(sources))
  BY <1>3, IdleType DEF Advance
<1> QED
  BY <1>2, <1>3

-----------------------------------------------------------------------------
(* What the fleet serves changes, and a refresh begins.                     *)

\* What the fleet serves and how often it changed is in no other part.
LEMMA NothingMoved ==
    ASSUME FleetInv, UNCHANGED <<sources, instances, rejections, entries, pass>>
    PROVE  /\ SourcesAreApart' /\ PassIsPlaced' /\ ProblemsFit'
           /\ \A n \in Name : Paired(n)' /\ Owned(n)' /\ StatusFits(n)'
<1>1. /\ sources' = sources /\ instances' = instances /\ rejections' = rejections
      /\ entries' = entries /\ pass' = pass
  OBVIOUS
<1>2. URLs' = URLs /\ Visited' = Visited
  BY <1>1 DEF URLs, Visited
<1>3. SourcesAreApart'
  BY <1>1 DEF FleetInv, SourcesAreApart
<1>4. PassIsPlaced'
  BY <1>1, <1>2 DEF FleetInv, PassIsPlaced, Publication, HasSource
<1>5. ProblemsFit'
  BY <1>1, <1>2 DEF FleetInv, ProblemsFit
<1>6. ASSUME NEW n \in Name PROVE Paired(n)'
  BY <1>1, <1>2 DEF FleetInv, Paired, HasSource
<1>7. ASSUME NEW n \in Name PROVE Owned(n)'
  <2>1. Owned(n)
    BY DEF FleetInv
  <2>2. QED
    BY <1>1, <1>2, <2>1 DEF Owned
<1>8. ASSUME NEW n \in Name PROVE StatusFits(n)'
  <2>1. StatusFits(n)
    BY DEF FleetInv
  <2>2. QED
    BY <1>1, <2>1 DEF StatusFits
<1>9. QED
  BY <1>3, <1>4, <1>5, <1>6, <1>7, <1>8

LEMMA ServeKeeps ==
    ASSUME FleetInv, NEW s \in Source, NEW d \in Document \cup {Down}, ServeDocument(s, d)
    PROVE  FleetInv'
<1>1. UNCHANGED <<sources, instances, rejections, entries, pass>>
  BY DEF ServeDocument
<1>2. FleetTypeOK'
  BY DEF FleetInv, FleetTypeOK, ServeDocument
<1>3. SourcesAreApart' /\ PassIsPlaced' /\ ProblemsFit'
  BY <1>1, NothingMoved
<1>4. ASSUME NEW n \in Name PROVE Paired(n)' /\ Owned(n)' /\ StatusFits(n)'
  BY <1>1, NothingMoved
<1> QED
  BY <1>2, <1>3, <1>4 DEF FleetInv

\* Between steps of a pass only its place changes, where no name is in between.
LEMMA QuietStep ==
    ASSUME FleetInv, UNCHANGED <<sources, instances, rejections, entries, served>>,
           pass.step \in {"idle", "fetch"},
           pass' \in Pass,
           \/ pass'.step \in {"idle", "fetch"}
           \/ /\ pass'.step = "publish" /\ pass'.doc \in Document
              /\ NameOf[pass'.doc] \in Name
              /\ sources[pass'.at].resolved => sources[pass'.at].name = NameOf[pass'.doc],
           pass'.step # "idle" => pass'.at \in DOMAIN sources
    PROVE  FleetInv'
<1>1. FleetTypeOK' /\ SourcesAreApart'
  BY DEF FleetInv, FleetTypeOK, SourcesAreApart
<1>2. PassIsPlaced'
  BY DEF PassIsPlaced, Admitted, Withdrawing
<1>3. ProblemsFit'
  BY DEF FleetInv, ProblemsFit, URLs, Withdrawing
<1>4. ASSUME NEW n \in Name PROVE Paired(n)' /\ Owned(n)' /\ StatusFits(n)'
  BY DEF FleetInv, Paired, Owned, StatusFits, Withdrawing
<1> QED
  BY <1>1, <1>2, <1>3, <1>4 DEF FleetInv

LEMMA RefreshKeeps ==
    ASSUME FleetInv, Refresh
    PROVE  FleetInv'
<1>1. pass = Idle /\ sources # <<>>
  BY DEF Refresh
<1>2. pass' = [step |-> "fetch", at |-> 1, doc |-> Absent, previous |-> <<>>]
  BY DEF Refresh, Idle
<1>3. sources \in Seq(State)
  BY DEF FleetInv, FleetTypeOK
<1>4. 1 \in DOMAIN sources
  BY <1>1, <1>3
<1>5. pass' \in Pass
  <2>1. <<>> \in Seq(State)
    OBVIOUS
  <2> QED
    BY <1>2, <2>1 DEF Pass
<1> QED
  BY <1>1, <1>2, <1>4, <1>5, IdleType, QuietStep DEF Refresh

LEMMA AdmitKeeps ==
    ASSUME FleetInv, Admit
    PROVE  FleetInv'
<1> DEFINE st == sources[pass.at]
           d  == served[st.url]
<1>1. pass.step = "fetch" /\ pass.at \in DOMAIN sources
  BY DEF Admit, FleetInv, PassIsPlaced
<1>2. st \in State
  BY <1>1 DEF FleetInv, FleetTypeOK
<1>3. d \in Document \cup {Down} /\ d # Down /\ NameOf[d] # Absent
      /\ (st.resolved => st.name = NameOf[d])
  BY <1>2 DEF Admit, Refused, FleetInv, FleetTypeOK, State
<1>4. NameOf[d] \in Name
  BY <1>3, CassetteAssumption DEF CassetteAssumption
<1>5. pass' = [pass EXCEPT !.step = "publish", !.doc = d]
  BY DEF Admit
<1>6. pass \in Pass
  BY DEF FleetInv, FleetTypeOK
<1> HIDE DEF d
<1>7. /\ pass' \in Pass /\ pass'.step = "publish" /\ pass'.doc = d
      /\ pass'.at = pass.at
  BY <1>3, <1>5, <1>6 DEF Pass, Admitted
<1> QED
  BY <1>1, <1>3, <1>4, <1>7, QuietStep DEF Admit

-----------------------------------------------------------------------------
(* A withdrawal.                                                            *)

\* What the place of a withdrawal means to the steps that move it.
LEMMA WithdrawalGoes ==
    ASSUME FleetInv, pass.step \in Withdrawing, pass' = AfterWithdrawal
    PROVE  /\ pass' \in Pass
           /\ pass.previous \in Seq(State) /\ Visited \in State
           /\ \/ pass'.step = "idle" /\ \A j \in DOMAIN pass.previous : j <= pass.at
              \/ /\ pass'.step = "hide" /\ pass'.at = pass.at + 1
                 /\ pass'.previous = pass.previous
                 /\ pass'.at \in DOMAIN pass'.previous
<1>1. /\ pass.previous \in Seq(State) /\ pass.at \in DOMAIN pass.previous
      /\ pass.at \in Nat
  BY DEF FleetInv, FleetTypeOK, PassIsPlaced, Pass
<1>2. Visited \in State
  BY <1>1 DEF Visited
<1>3. DOMAIN pass.previous = 1..Len(pass.previous) /\ Len(pass.previous) \in Nat
  BY <1>1
<1>4. LET next == Visit(pass.previous, pass.at + 1)
      IN  /\ next \in Pass
          /\ \/ next.step = "idle" /\ pass.at + 1 > Len(pass.previous)
             \/ /\ next.step = "hide" /\ next.at = pass.at + 1
                /\ pass.at + 1 \in DOMAIN pass.previous
                /\ next.previous = pass.previous
  BY <1>1, VisitGoes
<1> QED
  BY <1>1, <1>2, <1>3, <1>4 DEF AfterWithdrawal

LEMMA KeepSourceKeeps ==
    ASSUME FleetInv, KeepSource
    PROVE  FleetInv'
<1>1. /\ pass.step = "hide" /\ Visited.url \in URLs /\ pass' = AfterWithdrawal
      /\ UNCHANGED <<sources, instances, rejections, entries, served>>
  BY DEF KeepSource
<1>2. /\ pass' \in Pass
      /\ \/ pass'.step = "idle" /\ \A j \in DOMAIN pass.previous : j <= pass.at
         \/ /\ pass'.step = "hide" /\ pass'.at = pass.at + 1
            /\ pass'.previous = pass.previous
            /\ pass'.at \in DOMAIN pass'.previous
  BY <1>1, WithdrawalGoes DEF Withdrawing
<1>3. pass.previous \in Seq(State) /\ pass.at \in Nat
  BY DEF FleetInv, FleetTypeOK, Pass
<1>4. \A j \in DOMAIN pass.previous : j \in Nat
  BY <1>3
<1>5. FleetTypeOK' /\ SourcesAreApart'
  BY <1>1, <1>2 DEF FleetInv, FleetTypeOK, SourcesAreApart
<1>6. PassIsPlaced'
  BY <1>2 DEF PassIsPlaced, Admitted, Withdrawing
<1>7. ASSUME NEW n \in Name PROVE Paired(n)' /\ StatusFits(n)'
  BY <1>1, <1>2, <1>7 DEF FleetInv, Paired, StatusFits
<1>8. ASSUME NEW n \in Name PROVE Owned(n)'
  <2> SUFFICES ASSUME entries[n] # Absent,
                      ~\E i \in DOMAIN sources :
                          sources[i].url = entries[n].source /\ sources[i].name = n
               PROVE  Owned(n)'
    BY <1>1 DEF Owned
  <2>1. PICK j \in DOMAIN pass.previous :
            /\ j >= pass.at /\ pass.previous[j].name = n
            /\ pass.previous[j].url = entries[n].source
            /\ pass.previous[j].url \notin URLs
    BY <1>1 DEF FleetInv, Owned
  <2>2. j # pass.at
    BY <1>1, <2>1 DEF Visited
  <2>3. j >= pass.at + 1
    BY <1>3, <1>4, <2>1, <2>2
  <2>4. pass'.step = "hide" /\ pass'.at = pass.at + 1 /\ pass'.previous = pass.previous
    BY <1>2, <1>3, <1>4, <2>3
  <2>5. URLs' = URLs
    BY <1>1 DEF URLs
  <2> QED
    BY <1>1, <2>1, <2>3, <2>4, <2>5 DEF Owned, Withdrawing
<1>9. ProblemsFit'
  <2>1. ASSUME NEW u \in rejections, u \notin URLs
        PROVE  /\ pass'.step = "hide"
               /\ \E j \in DOMAIN pass'.previous :
                      pass'.previous[j].url = u /\ j >= pass'.at
    <3>1. PICK j \in DOMAIN pass.previous :
              pass.previous[j].url = u /\ (j > pass.at \/ j = pass.at)
      BY <2>1 DEF FleetInv, ProblemsFit
    <3>2. j # pass.at
      BY <1>1, <2>1, <3>1 DEF Visited
    <3>3. j >= pass.at + 1
      BY <1>3, <1>4, <3>1, <3>2
    <3> QED
      BY <1>2, <1>3, <1>4, <3>1, <3>3
  <2>2. URLs' = URLs
    BY <1>1 DEF URLs
  <2>3. ASSUME NEW u \in rejections, u \notin URLs
        PROVE  /\ pass'.step \in Withdrawing
               /\ \E j \in DOMAIN pass'.previous :
                     /\ pass'.previous[j].url = u
                     /\ j > pass'.at \/ (j = pass'.at /\ pass'.step = "hide")
    <3>1. PICK j \in DOMAIN pass'.previous : pass'.previous[j].url = u /\ j >= pass'.at
      BY <2>1, <2>3
    <3>2. pass'.step = "hide" /\ pass'.at \in Nat /\ j \in Nat
      BY <1>2, <1>3, <1>4, <2>1, <2>3 DEF Pass
    <3>3. j > pass'.at \/ j = pass'.at
      BY <3>1, <3>2
    <3> QED
      BY <3>1, <3>2, <3>3 DEF Withdrawing
  <2> QED
    BY <1>1, <2>2, <2>3 DEF FleetInv, ProblemsFit
<1> QED
  BY <1>5, <1>6, <1>7, <1>8, <1>9 DEF FleetInv

\* Removing by name and source leaves every other holder of the name alone.
LEMMA RemovedOnly ==
    ASSUME NEW state, NEW table, DOMAIN table = Name, state.name \in Name \cup {Absent}
    PROVE  /\ DOMAIN Removed(state, table) = Name
           /\ \A n \in Name :
                 IF n = state.name /\ HasSource(table, state)
                 THEN Removed(state, table)[n] = Absent
                 ELSE Removed(state, table)[n] = table[n]
  BY CassetteAssumption DEF CassetteAssumption, Removed, HasSource

LEMMA HideKeeps ==
    ASSUME FleetInv, Hide
    PROVE  FleetInv'
<1>1. /\ pass.step = "hide" /\ Visited.url \notin URLs
      /\ rejections' = rejections \ {Visited.url}
      /\ instances' = Removed(Visited, instances)
      /\ pass' = [pass EXCEPT !.step = "evict"]
      /\ UNCHANGED <<sources, entries, served>>
  BY DEF Hide
<1>2. /\ pass \in Pass /\ pass.previous \in Seq(State) /\ pass.at \in DOMAIN pass.previous
      /\ DOMAIN instances = Name
  BY <1>1 DEF FleetInv, FleetTypeOK, PassIsPlaced, Withdrawing, Pass
<1>3. Visited \in State
  BY <1>2 DEF Visited
<1>4. /\ pass' \in Pass /\ pass'.step = "evict" /\ pass'.at = pass.at
      /\ pass'.previous = pass.previous /\ pass'.doc = pass.doc
  BY <1>1, <1>2 DEF Pass, Withdrawing
<1>5. Visited' = Visited /\ URLs' = URLs
  BY <1>1, <1>4 DEF Visited, URLs
<1>6. /\ DOMAIN instances' = Name
      /\ \A n \in Name :
             IF n = Visited.name /\ HasSource(instances, Visited)
             THEN instances'[n] = Absent ELSE instances'[n] = instances[n]
  BY <1>1, <1>2, <1>3, RemovedOnly DEF State
<1>7. FleetTypeOK'
  <2>1. instances' \in [Name -> Instance \cup {Absent}]
    <3>1. ASSUME NEW n \in Name PROVE instances'[n] \in Instance \cup {Absent}
      BY <1>6 DEF FleetInv, FleetTypeOK
    <3>2. instances' = [n \in Name |-> instances'[n]]
      BY <1>1 DEF FleetInv, FleetTypeOK, Removed
    <3> QED
      BY <3>1, <3>2
  <2> QED
    BY <1>1, <1>4, <2>1 DEF FleetInv, FleetTypeOK
<1>8. SourcesAreApart'
  BY <1>1 DEF FleetInv, SourcesAreApart
<1>9. PassIsPlaced'
  <2>1. Visited.name # Absent => ~HasSource(instances, Visited)'
    <3> SUFFICES ASSUME Visited.name # Absent PROVE ~HasSource(instances, Visited)'
      OBVIOUS
    <3>1. Visited.name \in Name
      BY <1>3 DEF State
    <3> QED
      BY <1>5, <1>6, <3>1 DEF HasSource
  <2> QED
    BY <1>1, <1>2, <1>4, <1>5, <2>1 DEF PassIsPlaced, Admitted, Withdrawing, HasSource
<1>10. ASSUME NEW n \in Name PROVE Paired(n)'
  <2>1. \/ instances[n] = Absent /\ entries[n] = Absent
        \/ /\ instances[n] # Absent /\ entries[n] # Absent
           /\ instances[n].source = entries[n].source
           /\ instances[n].doc = entries[n].doc
    BY <1>1 DEF FleetInv, Paired
  <2>2. CASE n = Visited.name /\ HasSource(instances, Visited)
    <3>1. instances'[n] = Absent
      BY <1>6, <2>2
    <3>2. HasSource(entries, Visited)'
      BY <1>1, <1>5, <2>1, <2>2 DEF HasSource
    <3> QED
      BY <1>4, <1>5, <2>2, <3>1, <3>2 DEF Paired
  <2>3. CASE ~(n = Visited.name /\ HasSource(instances, Visited))
    BY <1>1, <1>6, <2>1, <2>3 DEF Paired
  <2> QED
    BY <2>2, <2>3
<1>11. ASSUME NEW n \in Name PROVE Owned(n)' /\ StatusFits(n)'
  BY <1>1, <1>4, <1>5 DEF FleetInv, Owned, StatusFits, Withdrawing
<1>12. ProblemsFit'
  <2>1. \A i \in DOMAIN sources : sources[i].url \in URLs
    BY DEF URLs
  <2>2. \A i \in DOMAIN sources : sources[i].problem <=> sources[i].url \in rejections'
    BY <1>1, <2>1 DEF FleetInv, ProblemsFit
  <2>3. ASSUME NEW u \in rejections', u \notin URLs
        PROVE  \E j \in DOMAIN pass.previous : pass.previous[j].url = u /\ j > pass.at
    <3>1. u # Visited.url /\ u \in rejections
      BY <1>1, <2>3
    <3>2. PICK j \in DOMAIN pass.previous :
              pass.previous[j].url = u /\ (j > pass.at \/ j = pass.at)
      BY <2>3, <3>1 DEF FleetInv, ProblemsFit
    <3> QED
      BY <3>1, <3>2 DEF Visited
  <2> QED
    BY <1>1, <1>4, <1>5, <2>2, <2>3 DEF ProblemsFit, Withdrawing
<1> QED
  BY <1>7, <1>8, <1>9, <1>10, <1>11, <1>12 DEF FleetInv

LEMMA EvictKeeps ==
    ASSUME FleetInv, EvictSource
    PROVE  FleetInv'
<1>1. /\ pass.step = "evict" /\ pass' = AfterWithdrawal
      /\ entries' = Removed(Visited, entries)
      /\ UNCHANGED <<sources, instances, rejections, served>>
  BY DEF EvictSource
<1>2. /\ pass' \in Pass /\ Visited \in State
      /\ \/ pass'.step = "idle" /\ \A j \in DOMAIN pass.previous : j <= pass.at
         \/ /\ pass'.step = "hide" /\ pass'.at = pass.at + 1
            /\ pass'.previous = pass.previous
            /\ pass'.at \in DOMAIN pass'.previous
  BY <1>1, WithdrawalGoes DEF Withdrawing
<1>3. /\ pass.previous \in Seq(State) /\ pass.at \in Nat
      /\ DOMAIN entries = Name
      /\ Visited.url \notin URLs
      /\ Visited.name # Absent => ~HasSource(instances, Visited)
  BY <1>1 DEF FleetInv, FleetTypeOK, Pass, PassIsPlaced
<1>4. \A j \in DOMAIN pass.previous : j \in Nat
  BY <1>3
<1>5. \A n \in Name :
          IF n = Visited.name /\ HasSource(entries, Visited)
          THEN entries'[n] = Absent ELSE entries'[n] = entries[n]
  BY <1>1, <1>2, <1>3, RemovedOnly DEF State
<1>6. URLs' = URLs
  BY <1>1 DEF URLs
<1>7. FleetTypeOK' /\ SourcesAreApart'
  <2>1. entries' \in [Name -> Entry \cup {Absent}]
    <3>1. ASSUME NEW n \in Name PROVE entries'[n] \in Entry \cup {Absent}
      BY <1>5 DEF FleetInv, FleetTypeOK
    <3>2. entries' = [n \in Name |-> entries'[n]]
      BY <1>1 DEF FleetInv, FleetTypeOK, Removed
    <3> QED
      BY <3>1, <3>2
  <2> QED
    BY <1>1, <1>2, <2>1 DEF FleetInv, FleetTypeOK, SourcesAreApart
<1>8. PassIsPlaced'
  BY <1>2 DEF PassIsPlaced, Admitted, Withdrawing
<1>9. ASSUME NEW n \in Name PROVE Paired(n)'
  <2>1. CASE n = Visited.name /\ HasSource(entries, Visited)
    <3>1. entries'[n] = Absent /\ n # Absent
      BY <1>5, <2>1, CassetteAssumption DEF CassetteAssumption
    <3>2. ~HasSource(instances, Visited)
      BY <1>3, <2>1, <3>1
    <3>3. instances[n] = Absent
      BY <1>1, <2>1, <3>2 DEF FleetInv, Paired, HasSource
    <3> QED
      BY <1>1, <3>1, <3>3 DEF Paired
  <2>2. CASE ~(n = Visited.name /\ HasSource(entries, Visited))
    BY <1>1, <1>5, <2>2 DEF FleetInv, Paired
  <2> QED
    BY <2>1, <2>2
<1>10. ASSUME NEW n \in Name, entries'[n] # Absent
       PROVE  entries'[n] = entries[n] /\ ~(n = Visited.name /\ HasSource(entries, Visited))
  BY <1>5, <1>10
<1>11. ASSUME NEW n \in Name PROVE StatusFits(n)'
  BY <1>1, <1>10 DEF FleetInv, StatusFits
<1>12. ASSUME NEW n \in Name PROVE Owned(n)'
  <2> SUFFICES ASSUME entries'[n] # Absent,
                      ~\E i \in DOMAIN sources :
                          sources[i].url = entries[n].source /\ sources[i].name = n
               PROVE  Owned(n)'
    BY <1>1, <1>10 DEF Owned
  <2>1. PICK j \in DOMAIN pass.previous :
            /\ j >= pass.at /\ pass.previous[j].name = n
            /\ pass.previous[j].url = entries[n].source
            /\ pass.previous[j].url \notin URLs
    BY <1>1, <1>10 DEF FleetInv, Owned
  <2>2. j # pass.at
    BY <1>10, <2>1 DEF Visited, HasSource
  <2>3. j >= pass.at + 1
    BY <1>3, <1>4, <2>1, <2>2
  <2>4. pass'.step = "hide" /\ pass'.at = pass.at + 1 /\ pass'.previous = pass.previous
    BY <1>2, <1>3, <1>4, <2>3
  <2> QED
    BY <1>6, <1>10, <2>1, <2>3, <2>4 DEF Owned, Withdrawing
<1>13. ProblemsFit'
  <2>1. ASSUME NEW u \in rejections, u \notin URLs
        PROVE  /\ pass'.step \in Withdrawing
               /\ \E j \in DOMAIN pass'.previous :
                     /\ pass'.previous[j].url = u
                     /\ j > pass'.at \/ (j = pass'.at /\ pass'.step = "hide")
    <3>1. PICK j \in DOMAIN pass.previous : pass.previous[j].url = u /\ j > pass.at
      BY <1>1, <2>1 DEF FleetInv, ProblemsFit
    <3>2. /\ pass'.step = "hide" /\ pass'.previous = pass.previous
          /\ j > pass'.at \/ j = pass'.at
      BY <1>2, <1>3, <1>4, <3>1
    <3> QED
      BY <3>1, <3>2 DEF Withdrawing
  <2> QED
    BY <1>1, <1>6, <2>1 DEF FleetInv, ProblemsFit
<1> QED
  BY <1>7, <1>8, <1>9, <1>11, <1>12, <1>13 DEF FleetInv

-----------------------------------------------------------------------------
(* A source is tried: it fails, is still what it was, or publishes.         *)

\* What a step that ends the visit of a source finds, and where it leads.
LEMMA VisitOfSource ==
    ASSUME FleetInv, pass.step \in {"fetch"} \cup Admitted
    PROVE  /\ pass.at \in DOMAIN sources /\ pass.at \in Nat
           /\ sources[pass.at] \in State /\ sources \in Seq(State)
           /\ sources[pass.at].url \in URLs
           /\ Advance \in Pass /\ Advance.step \in {"idle", "fetch"}
           /\ Advance.step = "fetch" => Advance.at \in DOMAIN sources
<1>1. pass.at \in DOMAIN sources /\ sources \in Seq(State) /\ pass.at \in Nat
  BY DEF FleetInv, FleetTypeOK, PassIsPlaced, Pass
<1>2. sources[pass.at] \in State
  BY <1>1
<1>3. sources[pass.at].url \in URLs
  BY <1>1 DEF URLs
<1> QED
  BY <1>1, <1>2, <1>3, AdvanceGoes

\* Marking by name and source changes the status of that document alone.
LEMMA MarkedOnly ==
    ASSUME NEW state, NEW status, DOMAIN entries = Name,
           state.name \in Name \cup {Absent},
           \A n \in Name : entries[n] \in Entry \cup {Absent},
           status \in {"fresh", "stale"}
    PROVE  /\ DOMAIN Marked(state, status) = Name
           /\ \A n \in Name :
                 IF n = state.name /\ HasSource(entries, state)
                 THEN /\ Marked(state, status)[n] \in Entry
                      /\ Marked(state, status)[n].source = entries[n].source
                      /\ Marked(state, status)[n].doc = entries[n].doc
                      /\ Marked(state, status)[n].status = status
                 ELSE Marked(state, status)[n] = entries[n]
<1>1. CASE state.name # Absent /\ HasSource(entries, state)
  <2>1. Marked(state, status) = [entries EXCEPT ![state.name].status = status]
    BY <1>1 DEF Marked
  <2>2. state.name \in Name /\ entries[state.name] \in Entry
    BY <1>1 DEF HasSource
  <2> QED
    BY <1>1, <2>1, <2>2 DEF Entry
<1>2. CASE ~(state.name # Absent /\ HasSource(entries, state))
  <2>1. Marked(state, status) = entries
    BY <1>2 DEF Marked
  <2> QED
    BY <1>2, <2>1, CassetteAssumption DEF CassetteAssumption
<1> QED
  BY <1>1, <1>2

\* failSource and markSourceFresh: the status of the source's own document and
\* the problem reported of it change together, and nothing else does.
SourceTried(problem) ==
    /\ sources' \in Seq(State) /\ DOMAIN sources' = DOMAIN sources
    /\ \A i \in DOMAIN sources :
           /\ sources'[i].url = sources[i].url /\ sources'[i].name = sources[i].name
           /\ sources'[i].resolved = sources[i].resolved
           /\ IF i = pass.at THEN sources'[i].problem <=> problem
              ELSE sources'[i].problem <=> sources[i].problem

DocumentTried(status) ==
    /\ entries' \in [Name -> Entry \cup {Absent}]
    /\ \A n \in Name :
           /\ entries[n] = Absent <=> entries'[n] = Absent
           /\ entries[n] # Absent => /\ entries'[n].source = entries[n].source
                                     /\ entries'[n].doc = entries[n].doc
           /\ IF n = sources[pass.at].name /\ HasSource(entries, sources[pass.at])
              THEN entries'[n].status = status ELSE entries'[n] = entries[n]

LEMMA KnownTried ==
    ASSUME sources \in Seq(State), pass.at \in DOMAIN sources,
           NEW problem \in BOOLEAN, Known(problem)
    PROVE  SourceTried(problem)
<1>1. DOMAIN sources = 1..Len(sources) /\ Len(sources) \in Nat
  OBVIOUS
<1>2. ASSUME NEW i \in DOMAIN sources
      PROVE  /\ sources[i] \in State
             /\ sources'[i] = IF i = pass.at THEN [sources[i] EXCEPT !.problem = problem]
                              ELSE sources[i]
  BY DEF Known
<1>3. ASSUME NEW i \in DOMAIN sources
      PROVE  /\ sources'[i] \in State
             /\ sources'[i].url = sources[i].url /\ sources'[i].name = sources[i].name
             /\ sources'[i].resolved = sources[i].resolved
             /\ IF i = pass.at THEN sources'[i].problem = problem
                ELSE sources'[i].problem = sources[i].problem
  <2> DEFINE s == sources[i]
             known == [s EXCEPT !.problem = problem]
  <2>1. s \in State
    BY <1>2
  <2> HIDE DEF s
  <2>2. /\ known \in State /\ known.url = s.url /\ known.name = s.name
        /\ known.resolved = s.resolved /\ known.problem = problem
    BY <2>1 DEF State
  <2>3. sources'[i] = IF i = pass.at THEN known ELSE s
    BY <1>2 DEF s
  <2> HIDE DEF known
  <2>4. /\ sources'[i] \in State
        /\ sources'[i].url = s.url /\ sources'[i].name = s.name
        /\ sources'[i].resolved = s.resolved
        /\ IF i = pass.at THEN sources'[i].problem = problem
           ELSE sources'[i].problem = s.problem
    BY <2>1, <2>2, <2>3
  <2>5. QED
    BY <2>4 DEF s
<1>4. sources' = [i \in 1..Len(sources) |-> sources'[i]]
  BY <1>1 DEF Known
<1>5. sources' \in [1..Len(sources) -> State]
  BY <1>1, <1>3, <1>4
<1>6. sources' \in Seq(State) /\ DOMAIN sources' = DOMAIN sources
  BY <1>1, <1>5, SeqDef
<1> QED
  BY <1>3, <1>6 DEF SourceTried

LEMMA MarkedTried ==
    ASSUME entries \in [Name -> Entry \cup {Absent}], sources[pass.at] \in State,
           NEW status \in {"fresh", "stale"}, entries' = Marked(sources[pass.at], status)
    PROVE  DocumentTried(status)
<1> DEFINE st == sources[pass.at]
<1>1. /\ DOMAIN entries' = Name
      /\ \A n \in Name :
          IF n = st.name /\ HasSource(entries, st)
          THEN /\ entries'[n] \in Entry /\ entries'[n].source = entries[n].source
               /\ entries'[n].doc = entries[n].doc /\ entries'[n].status = status
          ELSE entries'[n] = entries[n]
  BY MarkedOnly DEF State
<1>2. entries' \in [Name -> Entry \cup {Absent}]
  <2>1. ASSUME NEW n \in Name PROVE entries'[n] \in Entry \cup {Absent}
    BY <1>1
  <2>2. entries' = [n \in Name |-> entries'[n]]
    BY DEF Marked
  <2> QED
    BY <2>1, <2>2
<1>3. Absent \notin Entry
  BY CassetteAssumption DEF CassetteAssumption, Entry
<1>4. ASSUME NEW n \in Name
      PROVE  /\ entries[n] = Absent <=> entries'[n] = Absent
             /\ entries[n] # Absent => /\ entries'[n].source = entries[n].source
                                       /\ entries'[n].doc = entries[n].doc
             /\ IF n = sources[pass.at].name /\ HasSource(entries, sources[pass.at])
                THEN entries'[n].status = status ELSE entries'[n] = entries[n]
  <2>1. CASE n = st.name /\ HasSource(entries, st)
    BY <1>1, <1>3, <2>1 DEF HasSource
  <2>2. CASE ~(n = st.name /\ HasSource(entries, st))
    BY <1>1, <2>2
  <2> QED
    BY <2>1, <2>2
<1> QED
  BY <1>2, <1>4 DEF DocumentTried

LEMMA OutcomeKeeps ==
    ASSUME FleetInv, pass.step = "fetch", NEW status \in {"fresh", "stale"},
           NEW problem \in BOOLEAN, problem <=> status = "stale",
           DocumentTried(status), SourceTried(problem),
           \A u : u \in rejections' <=> IF u = sources[pass.at].url THEN problem
                                         ELSE u \in rejections,
           pass' = Advance, instances' = instances, served' = served
    PROVE  FleetInv'
<1> DEFINE at == pass.at
           st == sources[at]
<1>1. /\ at \in DOMAIN sources /\ st \in State /\ sources \in Seq(State)
      /\ st.url \in URLs
      /\ pass' \in Pass /\ pass'.step \in {"idle", "fetch"}
      /\ pass'.step = "fetch" => pass'.at \in DOMAIN sources
  BY VisitOfSource
<1>2. /\ DOMAIN sources' = DOMAIN sources
      /\ \A i \in DOMAIN sources :
             /\ sources'[i].url = sources[i].url /\ sources'[i].name = sources[i].name
             /\ sources'[i].resolved = sources[i].resolved
             /\ IF i = pass.at THEN sources'[i].problem <=> problem
                ELSE sources'[i].problem <=> sources[i].problem
  BY DEF SourceTried
<1>4. URLs' = URLs
  BY <1>2 DEF URLs
<1>6. \A n \in Name :
          /\ entries[n] = Absent <=> entries'[n] = Absent
          /\ entries[n] # Absent => /\ entries'[n].source = entries[n].source
                                    /\ entries'[n].doc = entries[n].doc
          /\ IF n = st.name /\ HasSource(entries, st)
             THEN entries'[n].status = status ELSE entries'[n] = entries[n]
  BY DEF DocumentTried
<1>7. FleetTypeOK'
  <2>1. rejections' \subseteq Source
    BY <1>1 DEF FleetInv, FleetTypeOK, State
  <2> QED
    BY <1>1, <2>1 DEF FleetInv, FleetTypeOK, DocumentTried, SourceTried
<1>8. SourcesAreApart'
  BY <1>2 DEF FleetInv, SourcesAreApart
<1>9. PassIsPlaced'
  BY <1>1, <1>2 DEF PassIsPlaced, Admitted, Withdrawing
<1>10. ASSUME NEW n \in Name PROVE Paired(n)'
  <2>1. \/ instances[n] = Absent /\ entries[n] = Absent
        \/ /\ instances[n] # Absent /\ entries[n] # Absent
           /\ instances[n].source = entries[n].source
           /\ instances[n].doc = entries[n].doc
    BY DEF FleetInv, Paired
  <2>2. \/ instances'[n] = Absent /\ entries'[n] = Absent
        \/ /\ instances'[n] # Absent /\ entries'[n] # Absent
           /\ instances'[n].source = entries'[n].source
           /\ instances'[n].doc = entries'[n].doc
    BY <1>6, <2>1
  <2> QED
    BY <2>2 DEF Paired
<1>11. ASSUME NEW n \in Name, entries[n] # Absent
       PROVE  \E i \in DOMAIN sources :
                  sources[i].url = entries[n].source /\ sources[i].name = n
  BY <1>11 DEF FleetInv, Owned, Withdrawing
<1>12. ASSUME NEW n \in Name PROVE Owned(n)'
  <2> SUFFICES ASSUME entries'[n] # Absent
               PROVE  \E i \in DOMAIN sources' :
                          sources'[i].url = entries'[n].source /\ sources'[i].name = n
    BY DEF Owned
  <2>1. PICK i \in DOMAIN sources :
            sources[i].url = entries[n].source /\ sources[i].name = n
    BY <1>6, <1>11
  <2> QED
    BY <1>2, <1>6, <2>1
<1>13. ASSUME NEW n \in Name PROVE StatusFits(n)'
  <2> SUFFICES ASSUME NEW i \in DOMAIN sources, entries[n] # Absent,
                      entries[n].source = sources[i].url
               PROVE  (entries'[n].status = "stale") <=> sources'[i].problem
    <3>1. ASSUME NEW i \in DOMAIN sources', entries'[n] # Absent,
                 entries'[n].source = sources'[i].url
          PROVE  i \in DOMAIN sources /\ entries[n] # Absent
                   /\ entries[n].source = sources[i].url
      BY <1>2, <1>6, <3>1
    <3> QED
      BY <3>1 DEF StatusFits
  <2>1. sources[i].name = n
    BY <1>11 DEF FleetInv, SourcesAreApart
  <2>2. CASE i = at
    <3>1. n = st.name /\ HasSource(entries, st)
      BY <2>1, <2>2 DEF HasSource
    <3> QED
      BY <1>2, <1>6, <2>2, <3>1
  <2>3. CASE i # at
    <3>1. ~HasSource(entries, st) \/ n # st.name
      BY <1>1, <2>3 DEF HasSource, FleetInv, SourcesAreApart
    <3>2. (entries[n].status = "stale") <=> sources[i].problem
      BY DEF FleetInv, StatusFits
    <3> QED
      BY <1>2, <1>6, <2>3, <3>1, <3>2
  <2> QED
    BY <2>2, <2>3
<1>14. ProblemsFit'
  <2>1. ASSUME NEW i \in DOMAIN sources
        PROVE  sources'[i].problem <=> sources[i].url \in rejections'
    <3>1. CASE i = at
      BY <1>2, <3>1
    <3>2. CASE i # at
      <4>1. sources[i].url # st.url
        BY <1>1, <3>2 DEF FleetInv, SourcesAreApart
      <4>2. sources[i].problem <=> sources[i].url \in rejections
        BY DEF FleetInv, ProblemsFit
      <4> QED
        BY <1>2, <3>2, <4>1, <4>2
    <3> QED
      BY <3>1, <3>2
  <2>2. \A u \in rejections : u \in URLs
    BY DEF FleetInv, ProblemsFit, Withdrawing
  <2>3. \A u \in rejections' : u \in URLs
    BY <1>1, <2>2
  <2> QED
    BY <1>2, <1>4, <2>1, <2>3 DEF ProblemsFit
<1> QED
  BY <1>7, <1>8, <1>9, <1>10, <1>12, <1>13, <1>14 DEF FleetInv

LEMMA FailKeeps ==
    ASSUME FleetInv, FailSource
    PROVE  FleetInv'
<1>1. /\ pass.step = "fetch" /\ entries' = Marked(sources[pass.at], "stale")
      /\ rejections' = rejections \cup {sources[pass.at].url}
      /\ Known(TRUE) /\ pass' = Advance /\ UNCHANGED <<instances, served>>
  BY DEF FailSource
<1>2. SourceTried(TRUE) /\ DocumentTried("stale")
  BY <1>1, VisitOfSource, KnownTried, MarkedTried DEF FleetInv, FleetTypeOK
<1> QED
  BY <1>1, <1>2, OutcomeKeeps

LEMMA FreshKeeps ==
    ASSUME FleetInv, MarkSourceFresh
    PROVE  FleetInv'
<1>1. /\ pass.step = "fetch" /\ entries' = Marked(sources[pass.at], "fresh")
      /\ rejections' = rejections \ {sources[pass.at].url}
      /\ Known(FALSE) /\ pass' = Advance /\ UNCHANGED <<instances, served>>
  BY DEF MarkSourceFresh
<1>2. SourceTried(FALSE) /\ DocumentTried("fresh")
  BY <1>1, VisitOfSource, KnownTried, MarkedTried DEF FleetInv, FleetTypeOK
<1> QED
  BY <1>1, <1>2, OutcomeKeeps

\* A source whose document is on its way holds no other name.
LEMMA AdmittedOwnsOne ==
    ASSUME FleetInv, pass.step \in Admitted, NEW n \in Name, NEW i \in DOMAIN sources,
           sources[i].url = sources[pass.at].url, sources[i].name = n
    PROVE  n = NameOf[pass.doc]
<1>1. i = pass.at
  BY DEF FleetInv, SourcesAreApart, PassIsPlaced
<1>2. sources[pass.at].resolved
  BY <1>1, CassetteAssumption DEF FleetInv, SourcesAreApart, CassetteAssumption
<1> QED
  BY <1>1, <1>2 DEF FleetInv, PassIsPlaced

LEMMA PublishKeeps ==
    ASSUME FleetInv, Publish
    PROVE  FleetInv'
<1> DEFINE at == pass.at
           new == NameOf[pass.doc]
<1>1. /\ pass.step = "publish" /\ pass' = [pass EXCEPT !.step = "put"]
      /\ entries' = [entries EXCEPT ![new] = Publication("fresh")]
      /\ UNCHANGED <<sources, instances, rejections, served>>
  BY DEF Publish
<1>2. at \in DOMAIN sources /\ sources[at] \in State
  BY <1>1, VisitOfSource DEF Admitted
<1>3. pass.doc \in Document /\ new \in Name /\ pass \in Pass
  BY <1>1 DEF FleetInv, PassIsPlaced, FleetTypeOK, Admitted
<1>4. /\ pass' \in Pass /\ pass'.step = "put" /\ pass'.at = at
      /\ pass'.doc = pass.doc
  BY <1>1, <1>3 DEF Pass, Admitted
<1>5. /\ Publication("fresh") \in Entry /\ Publication("fresh").source = sources[at].url
      /\ Publication("fresh").status = "fresh"
  BY <1>2, <1>3 DEF Publication, Entry, State
<1>6. Publication("fresh")' = Publication("fresh")
  BY <1>1, <1>4 DEF Publication
<1> HIDE DEF new
<1>7. /\ entries'[new] = Publication("fresh")
      /\ \A n \in Name : n # new => entries'[n] = entries[n]
  BY <1>1, <1>3 DEF FleetInv, FleetTypeOK
<1>8. FleetTypeOK' /\ SourcesAreApart'
  BY <1>1, <1>3, <1>4, <1>5 DEF FleetInv, FleetTypeOK, SourcesAreApart
<1>9. PassIsPlaced'
  BY <1>1, <1>2, <1>4, <1>6, <1>7 DEF FleetInv, PassIsPlaced, Admitted, Withdrawing, new
<1>10. ASSUME NEW n \in Name PROVE Paired(n)'
  <2>1. CASE n = new
    BY <1>4, <2>1 DEF Paired, new
  <2>2. CASE n # new
    BY <1>1, <1>7, <2>2 DEF FleetInv, Paired
  <2> QED
    BY <2>1, <2>2
<1>11. ASSUME NEW n \in Name PROVE Owned(n)'
  <2>1. CASE n = new
    BY <1>1, <1>4, <1>5, <1>7, <2>1 DEF Owned, new
  <2>2. CASE n # new
    BY <1>1, <1>7, <2>2 DEF FleetInv, Owned, Withdrawing
  <2> QED
    BY <2>1, <2>2
<1>12. ASSUME NEW n \in Name PROVE StatusFits(n)'
  <2>1. CASE n = new
    BY <1>1, <1>2, <1>4, <1>5, <1>7, <2>1 DEF StatusFits, FleetInv, SourcesAreApart
  <2>2. CASE n # new
    BY <1>1, <1>7, <2>2 DEF FleetInv, StatusFits
  <2> QED
    BY <2>1, <2>2
<1>13. ProblemsFit'
  BY <1>1 DEF FleetInv, ProblemsFit, URLs, Withdrawing
<1> QED
  BY <1>8, <1>9, <1>10, <1>11, <1>12, <1>13 DEF FleetInv

LEMMA PutKeeps ==
    ASSUME FleetInv, Put
    PROVE  FleetInv'
<1> DEFINE at == pass.at
           new == NameOf[pass.doc]
           inst == [source |-> sources[at].url, doc |-> pass.doc]
<1>1. /\ pass.step = "put" /\ pass' = [pass EXCEPT !.step = "resolve"]
      /\ instances' = [instances EXCEPT ![new] = inst]
      /\ UNCHANGED <<sources, entries, rejections, served>>
  BY DEF Put
<1>2. at \in DOMAIN sources /\ sources[at] \in State
  BY <1>1, VisitOfSource DEF Admitted
<1>3. /\ pass.doc \in Document /\ new \in Name /\ pass \in Pass
      /\ entries[new] = Publication("fresh")
  BY <1>1 DEF FleetInv, PassIsPlaced, FleetTypeOK, Admitted
<1>4. /\ pass' \in Pass /\ pass'.step = "resolve" /\ pass'.at = at
      /\ pass'.doc = pass.doc
  BY <1>1, <1>3 DEF Pass, Admitted
<1>5. /\ inst \in Instance /\ inst.source = sources[at].url /\ inst.doc = pass.doc
      /\ inst # Absent
  BY <1>2, <1>3, CassetteAssumption DEF Instance, State, CassetteAssumption
<1>6. /\ Publication("fresh")' = Publication("fresh")
      /\ Publication("fresh") # Absent
      /\ Publication("fresh").source = sources[at].url
      /\ Publication("fresh").doc = pass.doc
  BY <1>1, <1>2, <1>3, <1>4, CassetteAssumption DEF Publication, CassetteAssumption, State
<1> HIDE DEF new, inst
<1>7. /\ instances'[new] = inst
      /\ \A n \in Name : n # new => instances'[n] = instances[n]
  BY <1>1, <1>3 DEF FleetInv, FleetTypeOK
<1>8. FleetTypeOK' /\ SourcesAreApart'
  BY <1>1, <1>3, <1>4, <1>5 DEF FleetInv, FleetTypeOK, SourcesAreApart
<1>9. PassIsPlaced'
  BY <1>1, <1>2, <1>3, <1>4, <1>6 DEF FleetInv, PassIsPlaced, Admitted, Withdrawing, new
<1>10. ASSUME NEW n \in Name PROVE Paired(n)'
  <2>1. CASE n = new
    BY <1>1, <1>3, <1>5, <1>6, <1>7, <2>1 DEF Paired
  <2>2. CASE n # new
    BY <1>1, <1>7, <2>2 DEF FleetInv, Paired, new
  <2> QED
    BY <2>1, <2>2
<1>11. ASSUME NEW n \in Name PROVE Owned(n)' /\ StatusFits(n)'
  BY <1>1, <1>4 DEF FleetInv, Owned, StatusFits, Withdrawing
<1>12. ProblemsFit'
  BY <1>1 DEF FleetInv, ProblemsFit, URLs, Withdrawing
<1> QED
  BY <1>8, <1>9, <1>10, <1>11, <1>12 DEF FleetInv

LEMMA ResolveKeeps ==
    ASSUME FleetInv, ResolveSource
    PROVE  FleetInv'
<1> DEFINE at == pass.at
           st == sources[at]
           new == NameOf[pass.doc]
<1>1. /\ pass.step = "resolve" /\ pass' = Advance
      /\ rejections' = rejections \ {st.url}
      /\ UNCHANGED <<instances, entries, served>>
  BY DEF ResolveSource
<1>2. /\ at \in DOMAIN sources /\ st \in State /\ sources \in Seq(State)
      /\ st.url \in URLs
      /\ pass' \in Pass /\ pass'.step \in {"idle", "fetch"}
      /\ pass'.step = "fetch" => pass'.at \in DOMAIN sources
  BY <1>1, VisitOfSource DEF Admitted
<1>3. /\ pass.doc \in Document /\ new \in Name /\ new # Absent
      /\ st.resolved => st.name = new
      /\ entries[new] = Publication("fresh")
  BY <1>1, CassetteAssumption DEF FleetInv, PassIsPlaced, Admitted, CassetteAssumption
<1>4. PICK etag \in {pass.doc, Absent} :
          sources' = [sources EXCEPT ![at] =
                        [@ EXCEPT !.name = new, !.etag = etag, !.resolved = TRUE, !.problem = FALSE]]
  BY DEF ResolveSource
<1>5. entries[new].status = "fresh"
  BY <1>3 DEF Publication
<1> HIDE DEF new
<1>6. /\ DOMAIN sources' = DOMAIN sources
      /\ \A i \in DOMAIN sources :
             /\ sources'[i] \in State /\ sources'[i].url = sources[i].url
             /\ i # at => sources'[i] = sources[i]
      /\ sources'[at].name = new /\ sources'[at].resolved = TRUE /\ sources'[at].problem = FALSE
  <2>1. ASSUME NEW i \in DOMAIN sources
        PROVE  /\ sources[i] \in State
               /\ i # at => sources'[i] = sources[i]
    <3>1. sources[i] \in State
      BY <1>2
    <3>2. i # at => sources'[i] = sources[i]
      BY <1>4
    <3> QED
      BY <3>1, <3>2
  <2>2. DOMAIN sources' = DOMAIN sources
    BY <1>4
  <2>3. etag \in Document \cup {Absent}
    BY <1>3, <1>4
  <2>4. sources'[at] = [st EXCEPT !.name = new, !.etag = etag,
                                  !.resolved = TRUE, !.problem = FALSE]
    BY <1>2, <1>4
  <2>5. /\ sources'[at] \in State /\ sources'[at].url = st.url
        /\ sources'[at].name = new /\ sources'[at].resolved = TRUE
        /\ sources'[at].problem = FALSE
    <3> HIDE DEF st
    <3> QED
      BY <1>2, <1>3, <2>3, <2>4 DEF State
  <2> QED
    BY <2>1, <2>2, <2>5
<1>7. sources' \in Seq(State)
  <2>1. DOMAIN sources = 1..Len(sources) /\ Len(sources) \in Nat
    BY <1>2
  <2>2. sources' = [i \in 1..Len(sources) |-> sources'[i]]
    BY <1>4, <2>1
  <2>3. sources' \in [1..Len(sources) -> State]
    BY <1>6, <2>1, <2>2
  <2> QED
    BY <2>1, <2>3, SeqDef
<1>8. URLs' = URLs
  BY <1>6 DEF URLs
<1>9. FleetTypeOK'
  BY <1>1, <1>2, <1>7 DEF FleetInv, FleetTypeOK
<1>10. SourcesAreApart'
  BY <1>3, <1>6 DEF FleetInv, SourcesAreApart
<1>11. PassIsPlaced'
  BY <1>2, <1>6 DEF PassIsPlaced, Admitted, Withdrawing
<1>12. ASSUME NEW n \in Name PROVE Paired(n)'
  BY <1>1 DEF FleetInv, Paired
<1>13. ASSUME NEW n \in Name, NEW i \in DOMAIN sources,
              sources[i].url = st.url, sources[i].name = n
       PROVE  n = new
  BY <1>1, <1>13, AdmittedOwnsOne DEF Admitted, new
<1>14. ASSUME NEW n \in Name, entries[n] # Absent
       PROVE  \E i \in DOMAIN sources :
                  sources'[i].url = entries[n].source /\ sources'[i].name = n
  <2>1. CASE \E i \in DOMAIN sources :
                 sources[i].url = entries[n].source /\ sources[i].name = n
    <3>1. PICK i \in DOMAIN sources :
              sources[i].url = entries[n].source /\ sources[i].name = n
      BY <2>1
    <3>2. i = at => n = new
      BY <1>13, <3>1
    <3> QED
      BY <1>6, <3>1, <3>2
  <2>2. CASE n = new /\ entries[n].source = st.url
    BY <1>2, <1>6, <2>2
  <2> QED
    BY <1>1, <1>14, <2>1, <2>2 DEF FleetInv, Owned, Withdrawing, new
<1>15. ASSUME NEW n \in Name PROVE Owned(n)'
  BY <1>1, <1>6, <1>14 DEF Owned
<1>16. ASSUME NEW n \in Name PROVE StatusFits(n)'
  <2> SUFFICES ASSUME NEW i \in DOMAIN sources, entries[n] # Absent,
                      entries[n].source = sources[i].url
               PROVE  (entries[n].status = "stale") <=> sources'[i].problem
    BY <1>1, <1>6 DEF StatusFits
  <2>1. CASE i = at
    <3>1. PICK k \in DOMAIN sources :
              sources'[k].url = entries[n].source /\ sources'[k].name = n
      BY <1>14
    <3>2. k = at
      BY <1>2, <1>6, <2>1, <3>1 DEF FleetInv, SourcesAreApart
    <3>3. n = new
      BY <1>6, <3>1, <3>2
    <3> QED
      BY <1>5, <1>6, <2>1, <3>3
  <2>2. CASE i # at
    BY <1>1, <1>6, <2>2 DEF FleetInv, StatusFits
  <2> QED
    BY <2>1, <2>2
<1>17. ProblemsFit'
  <2>1. ASSUME NEW i \in DOMAIN sources
        PROVE  sources'[i].problem <=> sources[i].url \in rejections'
    <3>1. CASE i = at
      BY <1>1, <1>6, <3>1
    <3>2. CASE i # at
      <4>1. sources[i].url # st.url
        BY <1>2, <3>2 DEF FleetInv, SourcesAreApart
      <4>2. sources[i].problem <=> sources[i].url \in rejections
        BY DEF FleetInv, ProblemsFit
      <4> QED
        BY <1>1, <1>6, <3>2, <4>1, <4>2
    <3> QED
      BY <3>1, <3>2
  <2>2. \A u \in rejections : u \in URLs
    BY <1>1 DEF FleetInv, ProblemsFit, Withdrawing
  <2>3. \A u \in rejections' : u \in URLs
    BY <1>1, <2>2
  <2> QED
    BY <1>6, <1>8, <2>1, <2>3 DEF ProblemsFit
<1> QED
  BY <1>9, <1>10, <1>11, <1>12, <1>15, <1>16, <1>17 DEF FleetInv

-----------------------------------------------------------------------------
(* The configuration changes.                                               *)

LEMMA IndexOfURL ==
    ASSUME SourcesAreApart, NEW i \in DOMAIN sources
    PROVE  IndexOf(sources[i].url) = i
<1>1. /\ IndexOf(sources[i].url) \in DOMAIN sources
      /\ sources[IndexOf(sources[i].url)].url = sources[i].url
  BY DEF IndexOf
<1> QED
  BY <1>1 DEF SourcesAreApart

\* The new table has the configured URLs in their order, each with the state it
\* had, or with none.
LEMMA Reconfigured ==
    ASSUME FleetInv, NEW urls \in Orders, SetSources(urls)
    PROVE  /\ sources' \in Seq(State) /\ DOMAIN sources' = DOMAIN urls
           /\ \A i, j \in DOMAIN urls : urls[i] = urls[j] => i = j
           /\ \A i \in DOMAIN urls :
                  /\ urls[i] \in Source /\ sources'[i].url = urls[i]
                  /\ \A k \in DOMAIN sources :
                        sources[k].url = urls[i] => sources'[i] = sources[k]
                  /\ urls[i] \notin URLs => sources'[i] = NewSource(urls[i])
<1>1. PICK n \in Nat : urls \in [1..n -> Source] /\ \A i, j \in 1..n : urls[i] = urls[j] => i = j
  BY DEF Orders
<1>2. sources' = [i \in DOMAIN urls |-> IF urls[i] \in URLs THEN sources[IndexOf(urls[i])]
                                        ELSE NewSource(urls[i])]
  BY DEF SetSources
<1>3. ASSUME NEW i \in 1..n
      PROVE  /\ urls[i] \in Source
             /\ \A k \in DOMAIN sources : sources[k].url = urls[i] => sources'[i] = sources[k]
             /\ urls[i] \notin URLs => sources'[i] = NewSource(urls[i])
             /\ sources'[i] \in State /\ sources'[i].url = urls[i]
  <2>1. urls[i] \in Source
    BY <1>1
  <2>2. \A k \in DOMAIN sources : sources[k].url = urls[i] => sources'[i] = sources[k]
    <3> SUFFICES ASSUME NEW k \in DOMAIN sources, sources[k].url = urls[i]
                 PROVE  sources'[i] = sources[k]
      OBVIOUS
    <3>1. urls[i] \in URLs /\ IndexOf(urls[i]) = k
      BY IndexOfURL DEF URLs, FleetInv
    <3> QED
      BY <1>1, <1>2, <3>1
  <2>3. urls[i] \notin URLs => sources'[i] = NewSource(urls[i])
    BY <1>1, <1>2
  <2>4. CASE urls[i] \in URLs
    <3>1. PICK k \in DOMAIN sources : sources[k].url = urls[i]
      BY <2>4 DEF URLs
    <3>2. sources[k] \in State
      BY DEF FleetInv, FleetTypeOK
    <3> QED
      BY <2>1, <2>2, <2>3, <2>4, <3>1, <3>2
  <2>5. CASE urls[i] \notin URLs
    <3>1. NewSource(urls[i]) \in State /\ NewSource(urls[i]).url = urls[i]
      BY <2>1 DEF NewSource, State
    <3>2. sources'[i] = NewSource(urls[i])
      BY <2>3, <2>5
    <3> QED
      BY <2>1, <2>2, <2>3, <3>1, <3>2
  <2> QED
    BY <2>4, <2>5
<1>4. sources' \in [1..n -> State]
  <2>1. sources' = [i \in 1..n |-> sources'[i]]
    BY <1>1, <1>2
  <2> QED
    BY <1>3, <2>1
<1>5. sources' \in Seq(State) /\ DOMAIN sources' = 1..n /\ DOMAIN urls = 1..n
  BY <1>1, <1>4, SeqDef
<1> QED
  BY <1>1, <1>3, <1>5

LEMMA SetSourcesKeeps ==
    ASSUME FleetInv, NEW urls \in Orders, SetSources(urls)
    PROVE  FleetInv'
<1>1. /\ sources' \in Seq(State) /\ DOMAIN sources' = DOMAIN urls
      /\ \A i, j \in DOMAIN urls : urls[i] = urls[j] => i = j
      /\ \A i \in DOMAIN urls :
             /\ urls[i] \in Source /\ sources'[i].url = urls[i]
             /\ \A k \in DOMAIN sources :
                   sources[k].url = urls[i] => sources'[i] = sources[k]
             /\ urls[i] \notin URLs => sources'[i] = NewSource(urls[i])
  BY Reconfigured
<1>2. /\ pass.step = "idle" /\ pass' = Visit(sources, 1)
      /\ UNCHANGED <<instances, rejections, entries, served>>
  BY IdleType DEF SetSources
<1>3. sources \in Seq(State) /\ \A i \in DOMAIN sources : i \in Nat /\ i >= 1
  BY DEF FleetInv, FleetTypeOK
<1>4. /\ pass' \in Pass
      /\ \/ pass'.step = "idle" /\ DOMAIN sources = {}
         \/ /\ pass'.step = "hide" /\ pass'.at = 1
            /\ pass'.previous = sources /\ 1 \in DOMAIN sources
  <2>1. LET next == Visit(sources, 1)
        IN  /\ next \in Pass
            /\ \/ next.step = "idle" /\ 1 > Len(sources)
               \/ /\ next.step = "hide" /\ next.at = 1 /\ 1 \in DOMAIN sources
                  /\ next.previous = sources
    BY <1>3, VisitGoes
  <2>2. 1 > Len(sources) => DOMAIN sources = {}
    BY <1>3
  <2> QED
    BY <1>2, <2>1, <2>2
<1>5. \A i \in DOMAIN urls : urls[i] \in URLs \/
          /\ sources'[i].name = Absent /\ ~sources'[i].resolved /\ ~sources'[i].problem
  BY <1>1 DEF NewSource
<1>6. \A i \in DOMAIN urls : urls[i] \in URLs =>
          \E k \in DOMAIN sources : sources[k].url = urls[i] /\ sources'[i] = sources[k]
  BY <1>1 DEF URLs
<1>7. FleetTypeOK'
  BY <1>1, <1>2, <1>4 DEF FleetInv, FleetTypeOK
<1>8. SourcesAreApart'
  <2>1. \A i \in DOMAIN urls : sources'[i].resolved <=> sources'[i].name # Absent
    BY <1>5, <1>6 DEF FleetInv, SourcesAreApart
  <2> QED
    BY <1>1, <2>1 DEF SourcesAreApart
<1>9. PassIsPlaced'
  BY <1>4 DEF PassIsPlaced, Admitted, Withdrawing
<1>10. ASSUME NEW n \in Name PROVE Paired(n)'
  BY <1>2 DEF FleetInv, Paired
<1>11. ASSUME NEW n \in Name, entries[n] # Absent
       PROVE  \E k \in DOMAIN sources : sources[k].url = entries[n].source /\ sources[k].name = n
  BY <1>2, <1>11 DEF FleetInv, Owned, Withdrawing
<1>12. ASSUME NEW n \in Name PROVE Owned(n)'
  <2> SUFFICES ASSUME entries[n] # Absent PROVE Owned(n)'
    BY <1>2 DEF Owned
  <2>1. PICK k \in DOMAIN sources : sources[k].url = entries[n].source /\ sources[k].name = n
    BY <1>11
  <2>2. CASE \E i \in DOMAIN urls : urls[i] = sources[k].url
    BY <1>1, <1>2, <2>1, <2>2 DEF Owned
  <2>3. CASE ~\E i \in DOMAIN urls : urls[i] = sources[k].url
    <3>1. sources[k].url \notin URLs'
      BY <1>1, <2>3 DEF URLs
    <3>2. /\ pass'.step \in Withdrawing /\ k \in DOMAIN pass'.previous /\ k >= pass'.at
          /\ pass'.previous[k] = sources[k]
      BY <1>3, <1>4 DEF Withdrawing
    <3> QED
      BY <1>2, <2>1, <3>1, <3>2 DEF Owned
  <2> QED
    BY <2>2, <2>3
<1>13. ASSUME NEW n \in Name PROVE StatusFits(n)'
  <2> SUFFICES ASSUME NEW i \in DOMAIN urls, entries[n] # Absent,
                      entries[n].source = urls[i]
               PROVE  (entries[n].status = "stale") <=> sources'[i].problem
    BY <1>1, <1>2 DEF StatusFits
  <2>1. PICK k \in DOMAIN sources : sources[k].url = entries[n].source
    BY <1>11
  <2>2. sources'[i] = sources[k]
    BY <1>1, <2>1
  <2>3. (entries[n].status = "stale") <=> sources[k].problem
    BY <1>2, <2>1 DEF FleetInv, StatusFits
  <2> QED
    BY <2>2, <2>3
<1>14. ProblemsFit'
  <2>1. \A u \in rejections : u \in URLs
    BY <1>2 DEF FleetInv, ProblemsFit, Withdrawing
  <2>2. ASSUME NEW i \in DOMAIN urls PROVE sources'[i].problem <=> urls[i] \in rejections
    <3>1. CASE urls[i] \in URLs
      <4>1. PICK k \in DOMAIN sources : sources[k].url = urls[i] /\ sources'[i] = sources[k]
        BY <1>6, <3>1
      <4>2. sources[k].problem <=> sources[k].url \in rejections
        BY DEF FleetInv, ProblemsFit
      <4> QED
        BY <4>1, <4>2
    <3>2. CASE urls[i] \notin URLs
      BY <1>5, <2>1, <3>2
    <3> QED
      BY <3>1, <3>2
  <2>3. ASSUME NEW u \in rejections
        PROVE  /\ pass'.step = "hide"
               /\ \E j \in DOMAIN pass'.previous :
                      pass'.previous[j].url = u /\ (j > pass'.at \/ j = pass'.at)
    <3>1. PICK k \in DOMAIN sources : sources[k].url = u
      BY <2>1 DEF URLs
    <3> QED
      BY <1>3, <1>4, <3>1
  <2>4. ASSUME NEW u \in rejections
        PROVE  /\ pass'.step \in Withdrawing
               /\ \E j \in DOMAIN pass'.previous :
                     /\ pass'.previous[j].url = u
                     /\ j > pass'.at \/ (j = pass'.at /\ pass'.step = "hide")
    BY <2>3 DEF Withdrawing
  <2> QED
    BY <1>1, <1>2, <2>2, <2>4 DEF ProblemsFit
<1> QED
  BY <1>7, <1>8, <1>9, <1>10, <1>12, <1>13, <1>14 DEF FleetInv

-----------------------------------------------------------------------------
(* The fleet.                                                               *)

\* With nothing registered, cached or rejected the tables agree.
THEOREM InitFleetInv == FleetInit => FleetInv
<1> SUFFICES ASSUME FleetInit PROVE FleetInv
  OBVIOUS
<1>1. PICK urls \in Orders : sources = [i \in DOMAIN urls |-> NewSource(urls[i])]
  BY DEF FleetInit
<1>2. PICK n \in Nat : urls \in [1..n -> Source] /\ \A i, j \in 1..n : urls[i] = urls[j] => i = j
  BY DEF Orders
<1>3. /\ pass = Idle /\ pass.step = "idle" /\ rejections = {}
      /\ \A m \in Name : instances[m] = Absent /\ entries[m] = Absent
  BY IdleType DEF FleetInit
<1>4. \A i \in 1..n : /\ sources[i] = NewSource(urls[i]) /\ sources[i] \in State
                     /\ sources[i].url = urls[i] /\ sources[i].name = Absent
                     /\ ~sources[i].resolved /\ ~sources[i].problem
  <2>1. ASSUME NEW i \in 1..n PROVE sources[i] = NewSource(urls[i]) /\ urls[i] \in Source
    BY <1>1, <1>2
  <2>2. ASSUME NEW url \in Source
        PROVE  /\ NewSource(url) \in State /\ NewSource(url).url = url
               /\ NewSource(url).name = Absent
               /\ ~NewSource(url).resolved /\ ~NewSource(url).problem
    BY DEF NewSource, State
  <2> QED
    BY <2>1, <2>2
<1>5. sources \in Seq(State) /\ DOMAIN sources = 1..n
  <2>1. sources = [i \in 1..n |-> sources[i]]
    BY <1>1, <1>2
  <2>2. sources \in [1..n -> State]
    BY <1>4, <2>1
  <2> QED
    BY <2>2, SeqDef
<1>6. FleetTypeOK
  BY <1>3, <1>5, IdleType DEF FleetTypeOK, FleetInit
<1>7. SourcesAreApart
  BY <1>2, <1>4, <1>5 DEF SourcesAreApart
<1>8. PassIsPlaced
  BY <1>3 DEF PassIsPlaced, Admitted, Withdrawing
<1>9. ASSUME NEW m \in Name PROVE Paired(m) /\ Owned(m) /\ StatusFits(m)
  BY <1>3 DEF Paired, Owned, StatusFits
<1>10. ProblemsFit
  BY <1>3, <1>4, <1>5 DEF ProblemsFit
<1> QED
  BY <1>6, <1>7, <1>8, <1>9, <1>10 DEF FleetInv

\* Every step of the loop, of SetSources and of a request keeps FleetInv.
THEOREM StepFleetInv == FleetInv /\ [FleetNext]_fleetVars => FleetInv'
<1> SUFFICES ASSUME FleetInv, [FleetNext]_fleetVars PROVE FleetInv'
  OBVIOUS
<1>1. CASE UNCHANGED fleetVars
  <2>1. /\ sources' = sources /\ instances' = instances /\ rejections' = rejections
        /\ entries' = entries /\ pass' = pass /\ served' = served
    BY <1>1 DEF fleetVars
  <2>2. FleetTypeOK'
    BY <2>1 DEF FleetInv, FleetTypeOK
  <2>3. QED
    BY <2>1, <2>2, NothingMoved DEF FleetInv
<1>2. CASE RefreshStep
  BY <1>2, FailKeeps, FreshKeeps, AdmitKeeps, PublishKeeps, PutKeeps, ResolveKeeps
     DEF RefreshStep
<1>3. CASE Refresh \/ Withdraw
  BY <1>3, RefreshKeeps, KeepSourceKeeps, HideKeeps, EvictKeeps DEF Withdraw
<1>4. CASE \E s \in Source, d \in Document \cup {Down} : ServeDocument(s, d)
  BY <1>4, ServeKeeps
<1>5. CASE \E urls \in Orders : SetSources(urls)
  BY <1>5, SetSourcesKeeps
<1> QED
  BY <1>1, <1>2, <1>3, <1>4, <1>5 DEF FleetNext

\* FleetInv holds in every state of the refresh loop.
THEOREM FleetInvariant == FleetSpec => []FleetInv
  BY InitFleetInv, StepFleetInv, PTL DEF FleetSpec

\* Registry, cache, source table and rejections are four tables under locks of
\* their own that refreshSource and SetSources write one after the other: at
\* every step between them what a request finds has a document, and between
\* passes all four tell one story.
THEOREM FleetTablesAgree == FleetSpec => []TablesAgree
<1>1. FleetInv => TablesAgree
  <2> SUFFICES ASSUME FleetInv PROVE TablesAgree
    OBVIOUS
  <2>1. VisibleHasSpec
    <3> SUFFICES ASSUME NEW n \in Name, instances[n] # Absent PROVE entries[n] # Absent
      BY DEF VisibleHasSpec, Names
    <3>1. CASE pass.step = "put" /\ n = NameOf[pass.doc]
      <4>1. entries[n] = Publication("fresh")
        BY <3>1 DEF FleetInv, PassIsPlaced
      <4>2. pass.doc \in Document /\ sources[pass.at].url \in Source
        BY <3>1, VisitOfSource DEF FleetInv, PassIsPlaced, Admitted, State
      <4> QED
        BY <4>1, <4>2, CassetteAssumption DEF Publication, CassetteAssumption
    <3>2. CASE ~(pass.step = "put" /\ n = NameOf[pass.doc])
      BY <3>2 DEF FleetInv, Paired
    <3> QED
      BY <3>1, <3>2
  <2>2. pass = Idle => pass.step = "idle"
    BY IdleType
  <2>3. ASSUME pass = Idle, NEW n \in Name, entries[n] # Absent
        PROVE  \E i \in DOMAIN sources :
                   /\ sources[i].url = entries[n].source /\ sources[i].name = n
                   /\ entries[n].source \in URLs
                   /\ IndexOf(entries[n].source) = i
    <3>1. PICK i \in DOMAIN sources : sources[i].url = entries[n].source /\ sources[i].name = n
      BY <2>2, <2>3 DEF FleetInv, Owned, Withdrawing
    <3>2. sources[i].url \in URLs /\ IndexOf(sources[i].url) = i
      BY IndexOfURL DEF FleetInv, URLs
    <3> QED
      BY <3>1, <3>2
  <2>4. PublishedTogether
    <3> SUFFICES ASSUME pass = Idle, NEW n \in Name, instances[n] # Absent \/ entries[n] # Absent
                 PROVE  /\ instances[n] # Absent /\ entries[n] # Absent
                        /\ instances[n].source = entries[n].source
                        /\ instances[n].doc = entries[n].doc
                        /\ instances[n].source \in URLs
                        /\ sources[IndexOf(instances[n].source)].name = n
      BY DEF PublishedTogether, Names
    <3>1. /\ instances[n] # Absent /\ entries[n] # Absent
          /\ instances[n].source = entries[n].source /\ instances[n].doc = entries[n].doc
      BY <2>2 DEF FleetInv, Paired
    <3> QED
      BY <2>3, <3>1
  <2>5. StatusIsItsOwn
    <3> SUFFICES ASSUME pass = Idle, NEW n \in Name, entries[n] # Absent
                 PROVE  (entries[n].status = "stale") = sources[IndexOf(entries[n].source)].problem
      BY DEF StatusIsItsOwn, Names
    <3>1. PICK i \in DOMAIN sources :
              sources[i].url = entries[n].source /\ IndexOf(entries[n].source) = i
      BY <2>3
    <3>2. (entries[n].status = "stale") <=> sources[i].problem
      BY <2>2, <3>1 DEF FleetInv, StatusFits
    <3>3. sources[i].problem \in BOOLEAN
      <4>1. sources[i] \in State
        BY DEF FleetInv, FleetTypeOK
      <4> QED
        BY <4>1 DEF State
    <3> QED
      BY <3>1, <3>2, <3>3
  <2>6. ProblemsAreCurrent
    <3> SUFFICES ASSUME pass = Idle
                 PROVE  rejections = {sources[i].url : i \in {j \in DOMAIN sources : sources[j].problem}}
      BY DEF ProblemsAreCurrent
    <3>1. \A u \in rejections : u \in URLs
      BY <2>2 DEF FleetInv, ProblemsFit, Withdrawing
    <3> QED
      BY <3>1 DEF FleetInv, ProblemsFit, URLs
  <2> QED
    BY <2>1, <2>4, <2>5, <2>6 DEF TablesAgree
<1> QED
  BY <1>1, FleetInvariant, PTL

\* A cassette vanishes only when the source it came from is not configured any
\* more: remove compares the source, and no refresh takes an instance away.
THEOREM VanishWithTheirSource == FleetSpec => OnlyWithdrawn
<1>1. FleetInv /\ [FleetNext]_fleetVars =>
          \A n \in Name : instances[n] # Absent /\ instances'[n] = Absent =>
                            instances[n].source \notin URLs
  <2> SUFFICES ASSUME FleetInv, [FleetNext]_fleetVars, NEW n \in Name,
                      instances[n] # Absent, instances'[n] = Absent
               PROVE  instances[n].source \notin URLs
    OBVIOUS
  <2>1. CASE Hide
    <3>1. Visited \in State /\ DOMAIN instances = Name
      BY <2>1 DEF Hide, Visited, FleetInv, FleetTypeOK, PassIsPlaced, Pass, Withdrawing
    <3>2. n = Visited.name /\ HasSource(instances, Visited)
      BY <2>1, <3>1, RemovedOnly DEF Hide, State
    <3> QED
      BY <2>1, <3>2 DEF Hide, HasSource
  <2>2. CASE Put
    <3>1. instances'[n] = instances[n] \/
            instances'[n] = [source |-> sources[pass.at].url, doc |-> pass.doc]
      BY <2>2 DEF Put, FleetInv, FleetTypeOK
    <3>2. pass.doc \in Document /\ sources[pass.at].url \in Source
      BY <2>2, VisitOfSource DEF Put, FleetInv, PassIsPlaced, Admitted, State
    <3> QED
      BY <3>1, <3>2, CassetteAssumption DEF CassetteAssumption
  <2>3. CASE UNCHANGED instances
    BY <2>3
  <2> QED
    BY <2>1, <2>2, <2>3
       DEF FleetNext, RefreshStep, Withdraw, fleetVars, FailSource, MarkSourceFresh, Admit,
           Publish, ResolveSource, Refresh, KeepSource, EvictSource, ServeDocument, SetSources
<1> QED
  BY <1>1, FleetInvariant, PTL DEF FleetSpec, OnlyWithdrawn

-----------------------------------------------------------------------------
(* A request to a cassette.                                                 *)

\* The status is settled once, by what the cassette said first; a proxy that has
\* left its connection knows what the answer was, 502 for none.
StreamInv ==
    /\ relay \in {NoStatus, "1xx", upstream}
    /\ proxying \in {"off", "connect"} => upstream = NoStatus
    /\ proxying \notin {"off", "connect"} /\ relay = NoStatus => upstream = "502"
    /\ handler = "none" => proxying = "off"
    /\ handler = "returned" => relay # NoStatus

\* Once the handler has returned, the status the client was given is what the
\* cassette answered, or 502 for nothing, unless an informational response
\* settled it before (WriteHeader's once, finish after the reverse proxy).
THEOREM AnswerIsKept == StreamSpec => []FinalStatusIsTheAnswer
<1>1. StreamInit => StreamInv
  BY DEF StreamInit, StreamInv
<1>2. StreamInv /\ [StreamNext]_streamVars => StreamInv'
  <2> SUFFICES ASSUME StreamInv, [StreamNext]_streamVars PROVE StreamInv'
    OBVIOUS
  <2>1. CASE UNCHANGED <<relay, upstream, proxying, handler>>
    BY <2>1 DEF StreamInv
  <2>2. CASE ProxyToCassette
    BY <2>2 DEF StreamInv, ProxyToCassette
  <2>3. CASE \E stream \in BOOLEAN : AwaitReturns(stream)
    BY <2>3 DEF StreamInv, AwaitReturns
  <2>4. CASE UpstreamInforms
    BY <2>4, StatusAssumption DEF StreamInv, UpstreamInforms, WriteHeader, StatusAssumption
  <2>5. CASE Answers
    BY <2>5, StatusAssumption
       DEF StreamInv, Answers, UpstreamAnswers, UpstreamFails, UpstreamUnwinds, WriteHeader,
           StatusAssumption
  <2>6. CASE Finish
    BY <2>6, StatusAssumption DEF StreamInv, Finish, WriteHeader, StatusAssumption
  <2>7. CASE UpstreamSends \/ UpstreamEnds \/ CancelSeen \/ Pull \/ WriteFails \/ Cancel
               \/ CloseWriter
    BY <2>7 DEF StreamInv, UpstreamSends, UpstreamEnds, CancelSeen, Pull, AfterWrite,
                WriteFails, Cancel, CloseWriter
  <2> QED
    BY <2>1, <2>2, <2>3, <2>4, <2>5, <2>6, <2>7
       DEF StreamNext, Serving, streamVars, PullEnd, ClientLeaves, WatchClientGone
<1>3. StreamInv => FinalStatusIsTheAnswer
  BY DEF StreamInv, FinalStatusIsTheAnswer
<1> QED
  BY <1>1, <1>2, <1>3, PTL DEF StreamSpec
=============================================================================
